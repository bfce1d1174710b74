-------------------------- MODULE CapExpressProofs ---------------------------
(*****************************************************************************)
(* Theorems about the engine's start and stop, and about CapExpress over it, *)
(* for any number of subscriptions, users, rounds, failures and calls.       *)
(*****************************************************************************)
EXTENDS CapExpress, TLAPS

------------------------------------------------------------------------------
(* SubscriptionLifecycle                                                     *)

\* The fields of a promise that is absent or has settled.
LEMMA PromiseFields ==
    ASSUME NEW outcome \in Outcome
    PROVE  /\ NoStart \in Starter /\ NoStart.pc = "none"
           /\ NoStart.cur = {} /\ NoStart.todo = {}
           /\ StartSettled(outcome) \in Starter
           /\ StartSettled(outcome).pc = "settled"
           /\ StartSettled(outcome).cur = {} /\ StartSettled(outcome).todo = {}
           /\ NoStop \in Stopper /\ NoStop.pc = "none"
           /\ StopSettled(outcome) \in Stopper
           /\ StopSettled(outcome).pc = "settled"
           /\ StopSettled(outcome).outcome = outcome
BY DEF Outcome, Starter, Stopper, NoStart, NoStop, StartSettled, StopSettled

\* A start either has nothing to attach or attaches all that is unattached.
LEMMA BeginAttachingEffect ==
    ASSUME TypeOK, BeginAttaching
    PROVE  /\ starter' \in Starter
           /\ starter'.cur \cap starter'.todo = {}
           /\ \/ /\ registered = attached
                 /\ lifecycle' = "ready"
                 /\ starter'.pc = "settled"
                 /\ starter'.cur = {} /\ starter'.todo = {}
              \/ /\ lifecycle' = "starting"
                 /\ starter'.pc = "attaching"
                 /\ starter'.cur \cup starter'.todo = registered \ attached
<1>1. CASE registered \ attached = {}
  <2>1. lifecycle' = "ready" /\ starter' = StartSettled("resolved")
    BY <1>1 DEF BeginAttaching
  <2>. QED
    BY <1>1, <2>1, PromiseFields DEF TypeOK, Outcome
<1>2. CASE registered \ attached # {}
  <2>1. PICK s \in registered \ attached :
          /\ lifecycle' = "starting"
          /\ starter' = [pc |-> "attaching", todo |-> (registered \ attached) \ {s},
                         cur |-> {s}, outcome |-> "none"]
    BY <1>2 DEF BeginAttaching
  <2>2. starter' \in Starter
    BY <2>1 DEF TypeOK, Starter, Outcome
  <2>. QED
    BY <2>1, <2>2
<1>. QED
  BY <1>1, <1>2

\* startSubscriptions, called when no stop is between its settlement and its
\* cleanup, preserves the invariant: it joins, queues, or begins on its own.
LEMMA StartInv ==
    ASSUME NEW c \in Callers, LifecycleInv, Start(c),
           callers[c] \in {"idle", "again"},
           style = "tasks" => stopper.pc \notin {"resuming", "settled"},
           calls' \in 0 .. MaxCalls,
           UNCHANGED <<style, registered, attached, shutdownIncomplete, stopper, adding, faults>>
    PROVE  LifecycleInv'
<1>1. /\ callers' \in [Callers -> {"idle", "start", "stop", "restart", "again"}]
      /\ (\E d \in Callers : callers'[d] = "again") => \E d \in Callers : callers[d] = "again"
  BY DEF Start, LifecycleInv, TypeOK
<1>2. CASE UNCHANGED <<lifecycle, stopRequested, starter>>
  <2>1. TypeOK'
    BY <1>1, <1>2 DEF LifecycleInv, TypeOK
  <2>2. PromiseInv'
    BY <1>2 DEF LifecycleInv, PromiseInv
  <2>3. AttachInv'
    BY <1>2 DEF LifecycleInv, AttachInv
  <2>4. TaskInv'
    BY <1>1, <1>2 DEF LifecycleInv, TaskInv
  <2>. QED
    BY <2>1, <2>2, <2>3, <2>4 DEF LifecycleInv
<1>3. CASE starter = NoStart /\ stopRequested' = FALSE /\ BeginAttaching
           /\ ~shutdownIncomplete /\ ~(lifecycle = "stopping" /\ stopper # NoStop)
  <2>1. TypeOK
    BY DEF LifecycleInv
  <2>2. /\ starter' \in Starter
        /\ starter'.cur \cap starter'.todo = {}
        /\ \/ /\ registered = attached
              /\ lifecycle' = "ready"
              /\ starter'.pc = "settled"
              /\ starter'.cur = {} /\ starter'.todo = {}
           \/ /\ lifecycle' = "starting"
              /\ starter'.pc = "attaching"
              /\ starter'.cur \cup starter'.todo = registered \ attached
    BY <1>3, <2>1, BeginAttachingEffect
  <2>3. starter'.pc # "none" /\ starter' # NoStart
    BY <2>2 DEF NoStart
  <2>4. style = "tasks" => stopper.pc = "none"
    <3>1. stopper.pc \in {"none", "waiting", "resuming", "closing", "settled"}
      BY <2>1 DEF TypeOK, Stopper
    <3>2. stopper.pc # "waiting"
      BY <1>3 DEF LifecycleInv, PromiseInv
    <3>3. style = "tasks" => stopper.pc # "closing"
      BY <1>3 DEF LifecycleInv, TaskInv, NoStop
    <3>. QED
      BY <3>1, <3>2, <3>3
  <2>5. stopper = NoStop <=> stopper.pc = "none"
    BY DEF LifecycleInv, PromiseInv
  <2>6. TypeOK'
    BY <1>1, <1>3, <2>1, <2>2 DEF TypeOK
  <2>7. PromiseInv'
    BY <1>3, <2>1, <2>2, <2>3 DEF LifecycleInv, PromiseInv
  <2>8. AttachInv'
    BY <2>2 DEF LifecycleInv, AttachInv
  <2>9. TaskInv'
    BY <1>1, <1>3, <2>1, <2>2, <2>4, <2>5 DEF TypeOK, TaskInv
  <2>. QED
    BY <2>6, <2>7, <2>8, <2>9 DEF LifecycleInv
<1>. QED
  BY <1>2, <1>3 DEF Start

\* ... called by the application
LEMMA StartSubscriptionsInv ==
    ASSUME NEW c \in Callers, LifecycleInv, StartSubscriptions(c)
    PROVE  LifecycleInv'
<1>1. calls' \in 0 .. MaxCalls
  BY LifecycleAssumption DEF StartSubscriptions, CallsIn, LifecycleInv, TypeOK
<1>2. style = "tasks" => stopper.pc \notin {"resuming", "settled"}
  BY DEF StartSubscriptions, CallsIn, MicrotaskQueued
<1>. QED
  BY <1>1, <1>2, StartInv DEF StartSubscriptions

\* ... called again by a start that was queued behind a stop.
LEMMA StartAgainInv ==
    ASSUME NEW c \in Callers, LifecycleInv, StartAgain(c)
    PROVE  LifecycleInv'
<1>1. calls' \in 0 .. MaxCalls
  BY DEF StartAgain, LifecycleInv, TypeOK
<1>2. style = "tasks" => stopper.pc \notin {"resuming", "settled"}
  BY DEF StartAgain, LifecycleInv, TaskInv, NoStop
<1>. QED
  BY <1>1, <1>2, StartInv DEF StartAgain

\* A consume() of the start resolves: abort, end, or the next one.
LEMMA StartConsumedInv ==
    ASSUME LifecycleInv, StartConsumed
    PROVE  LifecycleInv'
<1>1. TypeOK /\ PromiseInv /\ AttachInv /\ TaskInv
  BY DEF LifecycleInv
<1>2. /\ starter.pc = "attaching"
      /\ attached' = attached \cup starter.cur
      /\ UNCHANGED <<style, registered, stopRequested, shutdownIncomplete, stopper, adding,
                     callers, faults, calls>>
  BY DEF StartConsumed
<1>3. starter # NoStart /\ stopper.pc \in {"none", "waiting", "resuming", "closing", "settled"}
  BY <1>1, <1>2, PromiseFields DEF TypeOK, Stopper
<1>4. CASE starter' = StartSettled("resolved") /\ UNCHANGED lifecycle /\ stopRequested
  <2>1. /\ starter' \in Starter /\ starter'.pc = "settled"
        /\ starter'.cur = {} /\ starter'.todo = {} /\ starter' # NoStart
    BY <1>4, PromiseFields DEF Outcome
  <2>2. stopper.pc = "waiting"
    BY <1>1, <1>2, <1>4 DEF PromiseInv
  <2>3. TypeOK'
    BY <1>1, <1>2, <1>4, <2>1 DEF TypeOK, PromiseInv
  <2>4. PromiseInv'
    BY <1>1, <1>2, <1>4, <2>1, <2>2 DEF PromiseInv
  <2>5. AttachInv'
    BY <1>1, <1>2, <2>1 DEF AttachInv
  <2>6. TaskInv'
    BY <1>1, <1>2, <1>3, <1>4, <2>1, <2>2 DEF TaskInv
  <2>. QED
    BY <2>3, <2>4, <2>5, <2>6 DEF LifecycleInv
<1>5. CASE /\ starter' = StartSettled("resolved") /\ lifecycle' = "ready"
           /\ ~stopRequested /\ starter.todo = {}
  <2>1. /\ starter' \in Starter /\ starter'.pc = "settled"
        /\ starter'.cur = {} /\ starter'.todo = {} /\ starter' # NoStart
    BY <1>5, PromiseFields DEF Outcome
  <2>3. TypeOK'
    BY <1>1, <1>2, <1>5, <2>1 DEF TypeOK, PromiseInv
  <2>4. PromiseInv'
    BY <1>1, <1>2, <1>5, <2>1 DEF PromiseInv
  <2>5. AttachInv'
    BY <1>1, <1>2, <2>1 DEF AttachInv
  <2>6. TaskInv'
    BY <1>1, <1>2, <1>3, <1>5, <2>1 DEF TaskInv
  <2>. QED
    BY <2>3, <2>4, <2>5, <2>6 DEF LifecycleInv
<1>6. ASSUME NEW s \in starter.todo, ~stopRequested, UNCHANGED lifecycle,
             starter' = [starter EXCEPT !.todo = @ \ {s}, !.cur = {s}]
      PROVE  LifecycleInv'
  <2>1. /\ starter' \in Starter /\ starter'.pc = "attaching"
        /\ starter'.cur = {s} /\ starter'.todo = starter.todo \ {s} /\ starter' # NoStart
    BY <1>1, <1>2, <1>6 DEF TypeOK, Starter, NoStart
  <2>3. TypeOK'
    BY <1>1, <1>2, <1>6, <2>1 DEF TypeOK, PromiseInv
  <2>4. PromiseInv'
    BY <1>1, <1>2, <1>6, <2>1 DEF PromiseInv
  <2>5. AttachInv'
    BY <1>1, <1>2, <1>6, <2>1 DEF AttachInv, PromiseInv
  <2>6. TaskInv'
    BY <1>1, <1>2, <1>3, <1>6, <2>1 DEF TaskInv
  <2>. QED
    BY <2>3, <2>4, <2>5, <2>6 DEF LifecycleInv
<1>. QED
  BY <1>4, <1>5, <1>6 DEF StartConsumed

\* A consume() of the start rejects.
LEMMA StartFailedInv ==
    ASSUME LifecycleInv, StartFailed
    PROVE  LifecycleInv'
<1>1. starter' \in Starter /\ stopper' \in Stopper
  BY PromiseFields DEF LifecycleInv, TypeOK, Outcome, StartFailed
<1>2. callers' \in [Callers -> {"idle", "start", "stop", "restart", "again"}]
  BY PromiseFields DEF LifecycleInv, TypeOK, StartFailed
<1>3. TypeOK'
  BY <1>1, <1>2, LifecycleAssumption DEF LifecycleInv, TypeOK, StartFailed, Rejected
<1>4. PromiseInv'
  BY DEF LifecycleInv, PromiseInv, StartFailed, StartSettled, NoStart
<1>5. AttachInv'
  BY DEF LifecycleInv, AttachInv, StartFailed, StartSettled, NoStart
<1>6. TaskInv'
  BY DEF LifecycleInv, PromiseInv, TaskInv, StartFailed, StartSettled
<1>. QED
  BY <1>3, <1>4, <1>5, <1>6 DEF LifecycleInv

\* The start is cleaned up, and a stop behind it may resume.
LEMMA StartClearedInv ==
    ASSUME LifecycleInv, StartCleared
    PROVE  LifecycleInv'
<1>1. TypeOK'
  BY LifecycleAssumption DEF LifecycleInv, TypeOK, StartCleared, Starter, Stopper, Outcome, NoStart
<1>2. PromiseInv'
  BY DEF LifecycleInv, PromiseInv, StartCleared, NoStart, NoStop
<1>3. AttachInv'
  BY DEF LifecycleInv, AttachInv, StartCleared, NoStart
<1>4. TaskInv'
  BY DEF LifecycleInv, PromiseInv, TaskInv, StartCleared, NoStart
<1>. QED
  BY <1>1, <1>2, <1>3, <1>4 DEF LifecycleInv

------------------------------------------------------------------------------
(* The other steps                                                         *)

\* Registration is refused while a start attaches and once it is ready.
LEMMA RegisterSubscriptionInv ==
    ASSUME NEW s \in Subs, LifecycleInv, RegisterSubscription(s)
    PROVE  LifecycleInv'
<1>1. TypeOK'
  BY LifecycleAssumption DEF LifecycleInv, TypeOK, RegisterSubscription, CallsIn
<1>2. PromiseInv'
  BY DEF LifecycleInv, PromiseInv, RegisterSubscription
<1>3. AttachInv'
  BY DEF LifecycleInv, AttachInv, RegisterSubscription
<1>4. TaskInv'
  BY DEF LifecycleInv, TaskInv, RegisterSubscription
<1>. QED
  BY <1>1, <1>2, <1>3, <1>4 DEF LifecycleInv

\* stopSubscriptions, called when no continuation is queued (or by an application
\* that does not care), preserves the invariant: it joins or begins a stop.
LEMMA StopInv ==
    ASSUME NEW c \in Callers, LifecycleInv, Stop(c),
           style = "tasks" => ~MicrotaskQueued,
           calls' \in 0 .. MaxCalls,
           UNCHANGED <<style, registered, attached, shutdownIncomplete, starter, adding, faults>>
    PROVE  LifecycleInv'
<1>1. starter' \in Starter /\ stopper' \in Stopper
  BY PromiseFields DEF LifecycleInv, TypeOK, Stopper, Stop, BeginStopping
<1>2. callers' \in [Callers -> {"idle", "start", "stop", "restart", "again"}]
  BY PromiseFields DEF LifecycleInv, TypeOK, Stop
<1>3. TypeOK'
  BY <1>1, <1>2 DEF LifecycleInv, TypeOK, Stop, BeginStopping
<1>4. PromiseInv'
  BY DEF LifecycleInv, TypeOK, PromiseInv, Stop, BeginStopping, Stopper
<1>5. AttachInv'
  BY DEF LifecycleInv, AttachInv, Stop
<1>6. TaskInv'
  BY DEF LifecycleInv, TypeOK, PromiseInv, TaskInv, Stop, MicrotaskQueued, BeginStopping,
         Stopper
<1>. QED
  BY <1>3, <1>4, <1>5, <1>6 DEF LifecycleInv

\* ... called by the application.
LEMMA StopSubscriptionsInv ==
    ASSUME NEW c \in Callers, LifecycleInv, StopSubscriptions(c)
    PROVE  LifecycleInv'
<1>1. calls' \in 0 .. MaxCalls
  BY LifecycleAssumption DEF StopSubscriptions, CallsIn, LifecycleInv, TypeOK
<1>. QED
  BY <1>1, StopInv DEF StopSubscriptions, CallsIn

\* The start before the stop is over.
LEMMA StopResumesInv ==
    ASSUME LifecycleInv, StopResumes
    PROVE  LifecycleInv'
<1>1. TypeOK'
  BY LifecycleAssumption DEF LifecycleInv, TypeOK, StopResumes, Stopper
<1>2. PromiseInv'
  BY DEF LifecycleInv, PromiseInv, StopResumes, NoStop
<1>3. AttachInv'
  BY DEF LifecycleInv, AttachInv, StopResumes
<1>4. TaskInv'
  BY DEF LifecycleInv, PromiseInv, TaskInv, StopResumes
<1>. QED
  BY <1>1, <1>2, <1>3, <1>4 DEF LifecycleInv

\* close() resolves and detaches everything.
LEMMA StopClosedInv ==
    ASSUME LifecycleInv, StopClosed
    PROVE  LifecycleInv'
<1>1. TypeOK'
  BY LifecycleAssumption DEF LifecycleInv, TypeOK, StopClosed, StopSettled, Stopper, Outcome
<1>2. PromiseInv'
  BY DEF LifecycleInv, PromiseInv, StopClosed, StopSettled, NoStop
<1>3. AttachInv'
  BY DEF LifecycleInv, AttachInv, StopClosed
<1>4. TaskInv'
  BY DEF LifecycleInv, PromiseInv, TaskInv, StopClosed, StopSettled
<1>. QED
  BY <1>1, <1>2, <1>3, <1>4 DEF LifecycleInv

\* close() rejects and leaves the shutdown incomplete.
LEMMA StopFailedInv ==
    ASSUME LifecycleInv, StopFailed
    PROVE  LifecycleInv'
<1>1. TypeOK'
  BY LifecycleAssumption DEF LifecycleInv, TypeOK, StopFailed, StopSettled, Rejected, Stopper, Outcome
<1>2. PromiseInv'
  BY DEF LifecycleInv, PromiseInv, StopFailed, StopSettled, NoStop
<1>3. AttachInv'
  BY DEF LifecycleInv, AttachInv, StopFailed
<1>4. TaskInv'
  BY DEF LifecycleInv, PromiseInv, TaskInv, StopFailed, StopSettled
<1>. QED
  BY <1>1, <1>2, <1>3, <1>4 DEF LifecycleInv

\* The stop is cleaned up, and the starts queued behind it are called.
LEMMA StopClearedInv ==
    ASSUME LifecycleInv, StopCleared
    PROVE  LifecycleInv'
<1>1. TypeOK'
  BY LifecycleAssumption DEF LifecycleInv, TypeOK, StopCleared, Stopper, Outcome, NoStop
<1>2. PromiseInv'
  BY DEF LifecycleInv, PromiseInv, StopCleared, NoStop
<1>3. AttachInv'
  BY DEF LifecycleInv, AttachInv, StopCleared
<1>4. TaskInv'
  BY DEF LifecycleInv, TaskInv, StopCleared, NoStop
<1>. QED
  BY <1>1, <1>2, <1>3, <1>4 DEF LifecycleInv

\* subscribe() of a new subscription.
LEMMA SubscribeInv ==
    ASSUME NEW s \in Subs, LifecycleInv, Subscribe(s)
    PROVE  LifecycleInv'
<1>0. calls' \in 0 .. MaxCalls
  BY LifecycleAssumption DEF Subscribe, CallsIn, LifecycleInv, TypeOK
<1>1. TypeOK'
  BY <1>0 DEF LifecycleInv, TypeOK, Subscribe
<1>2. PromiseInv'
  BY DEF LifecycleInv, PromiseInv, Subscribe
<1>3. AttachInv'
  BY DEF AttachInv, Subscribe
<1>4. TaskInv'
  BY DEF TaskInv, Subscribe
<1>. QED
  BY <1>1, <1>2, <1>3, <1>4 DEF LifecycleInv

\* Its consume() resolves.
LEMMA SubscribeConsumedInv ==
    ASSUME NEW s \in Subs, LifecycleInv, SubscribeConsumed(s)
    PROVE  LifecycleInv'
<1>1. TypeOK'
  BY LifecycleAssumption DEF LifecycleInv, TypeOK, SubscribeConsumed
<1>2. PromiseInv'
  BY DEF LifecycleInv, PromiseInv, SubscribeConsumed
<1>3. AttachInv'
  BY DEF LifecycleInv, AttachInv, SubscribeConsumed
<1>4. TaskInv'
  BY DEF LifecycleInv, AttachInv, TaskInv, SubscribeConsumed
<1>. QED
  BY <1>1, <1>2, <1>3, <1>4 DEF LifecycleInv

\* Its consume() rejects.
LEMMA SubscribeFailedInv ==
    ASSUME NEW s \in Subs, LifecycleInv, SubscribeFailed(s)
    PROVE  LifecycleInv'
<1>1. TypeOK'
  BY LifecycleAssumption DEF LifecycleInv, TypeOK, SubscribeFailed, Rejected
<1>2. PromiseInv'
  BY DEF LifecycleInv, PromiseInv, SubscribeFailed
<1>3. AttachInv'
  BY DEF LifecycleInv, AttachInv, SubscribeFailed
<1>4. TaskInv'
  BY DEF LifecycleInv, AttachInv, TaskInv, SubscribeFailed
<1>. QED
  BY <1>1, <1>2, <1>3, <1>4 DEF LifecycleInv

------------------------------------------------------------------------------
(* Invariance                                                              *)

\* The initial states satisfy LifecycleInv.
LEMMA InitInv == Init => LifecycleInv
<1>. SUFFICES ASSUME Init PROVE LifecycleInv
  OBVIOUS
<1>0. "none" \in Outcome
  BY DEF Outcome
<1>1. TypeOK
  <2>1. starter \in Starter /\ stopper \in Stopper
    BY <1>0, PromiseFields DEF Init
  <2>2. faults \in 0 .. MaxFaults /\ calls \in 0 .. MaxCalls
    BY LifecycleAssumption DEF Init
  <2>3. callers \in [Callers -> {"idle", "start", "stop", "restart", "again"}]
    BY DEF Init
  <2>. QED
    BY <2>1, <2>2, <2>3 DEF Init, TypeOK
<1>2. PromiseInv /\ AttachInv /\ TaskInv
  BY PromiseFields DEF Init, PromiseInv, AttachInv, TaskInv, Outcome
<1>. QED
  BY <1>1, <1>2 DEF LifecycleInv

\* Each step of the engine or the application preserves the invariant.
LEMMA NextInv == LifecycleInv /\ [Next]_vars => LifecycleInv'
<1>. SUFFICES ASSUME LifecycleInv, [Next]_vars PROVE LifecycleInv'
  OBVIOUS
<1>1. CASE StartStep
  BY <1>1, StartConsumedInv, StartFailedInv, StartClearedInv DEF StartStep
<1>2. CASE StopStep
  BY <1>2, StopResumesInv, StopClosedInv, StopFailedInv, StopClearedInv DEF StopStep
<1>3. ASSUME NEW c \in Callers,
             StartSubscriptions(c) \/ StartAgain(c) \/ StopSubscriptions(c)
      PROVE  LifecycleInv'
  BY <1>3, StartSubscriptionsInv, StartAgainInv, StopSubscriptionsInv
<1>4. ASSUME NEW s \in Subs,
             RegisterSubscription(s) \/ Subscribe(s) \/ SubscribeStep(s)
      PROVE  LifecycleInv'
  BY <1>4, RegisterSubscriptionInv, SubscribeInv, SubscribeConsumedInv, SubscribeFailedInv
     DEF SubscribeStep
<1>5. CASE Done \/ UNCHANGED vars
  BY <1>5 DEF Done, vars, LifecycleInv, TypeOK, PromiseInv, AttachInv, TaskInv
<1>. QED
  BY <1>1, <1>2, <1>3, <1>4, <1>5 DEF Next

\* The invariant holds in every reachable state.
THEOREM LifecycleInvariant == Spec => []LifecycleInv
<1>. QED
  BY InitInv, NextInv, PTL DEF Spec

------------------------------------------------------------------------------
(* What it shows                                                           *)

\* Every reachable state is well typed; in particular only registered
\* subscriptions are ever attached or being attached.
THEOREM LifecycleTyped == Spec => []TypeOK
<1>1. LifecycleInv => TypeOK
  BY DEF LifecycleInv
<1>. QED
  BY <1>1, LifecycleInvariant, PTL

\* When no call is in progress the engine is in no transition.
THEOREM NoTransitionIsLeft == Spec => []NoLimbo
<1>1. LifecycleInv => NoLimbo
  BY PromiseFields DEF LifecycleInv, PromiseInv, NoLimbo
<1>. QED
  BY <1>1, LifecycleInvariant, PTL

\* An engine used from tasks is ready only with every subscription attached.
THEOREM ReadyMeansAttached == Spec => []ReadyIsAttached
<1>1. LifecycleInv => ReadyIsAttached
  BY DEF LifecycleInv, TaskInv, ReadyIsAttached
<1>. QED
  BY <1>1, LifecycleInvariant, PTL

\* Without subscribe(), no start consumes a subscription that is attached.
THEOREM NothingAttachedTwice == Spec => []OneConsumePerSubscription
<1>1. LifecycleInv => OneConsumePerSubscription
  BY DEF LifecycleInv, AttachInv, OneConsumePerSubscription
<1>. QED
  BY <1>1, LifecycleInvariant, PTL

\* No start attaches beside the close() of a stop.
THEOREM StartsWaitForStops == Spec => []NoConsumeDuringClose
<1>1. LifecycleInv => NoConsumeDuringClose
  BY PromiseFields DEF LifecycleInv, TaskInv, NoConsumeDuringClose
<1>. QED
  BY <1>1, LifecycleInvariant, PTL

\* A stop that resolves leaves nothing attached and nothing being attached.
THEOREM StopsAreFinal == Spec => []StopHasLastWord
<1>1. LifecycleInv => StopHasLastWord
  BY PromiseFields DEF LifecycleInv, TaskInv, AttachInv, StopHasLastWord, Consuming, Outcome
<1>. QED
  BY <1>1, LifecycleInvariant, PTL

\* After a failed close no consume() is issued before a close succeeds.
THEOREM ShutdownIsRetriedFirst == Spec => FailedShutdownBlocks
<1>1. ASSUME LifecycleInv, [Next]_vars, style = "tasks", shutdownIncomplete
      PROVE  Consuming' \subseteq Consuming
  <2>1. starter = NoStart /\ NoStart.pc = "none" /\ NoStart.cur = {} /\ adding = {}
    BY <1>1, PromiseFields DEF LifecycleInv, TaskInv, AttachInv, Outcome
  <2>2. starter' = starter
    BY <1>1, <2>1 DEF Next, StartStep, StopStep, SubscribeStep, RegisterSubscription,
       StartSubscriptions, StartAgain, Start, StartConsumed, StartFailed, StartCleared,
       StopSubscriptions, Stop, StopResumes, StopClosed, StopFailed, StopCleared, Subscribe,
       SubscribeConsumed, SubscribeFailed, Done, vars
  <2>3. adding' = adding
    BY <1>1, <2>1 DEF Next, StartStep, StopStep, SubscribeStep, RegisterSubscription,
       StartSubscriptions, StartAgain, StartConsumed, StartFailed, StartCleared,
       StopSubscriptions, Stop, StopResumes, StopClosed, StopFailed, StopCleared, Subscribe,
       SubscribeConsumed, SubscribeFailed, Done, vars
  <2>. QED
    BY <2>2, <2>3 DEF Consuming
<1>2. LifecycleInv /\ [Next]_vars =>
          [style = "tasks" /\ shutdownIncomplete => Consuming' \subseteq Consuming]_vars
  BY <1>1
<1>. QED
  BY <1>2, LifecycleInvariant, PTL DEF Spec, FailedShutdownBlocks

------------------------------------------------------------------------------
(* CapExpress                                                                *)

\* The phases and outcomes of the application's promises.
LEMMA PhaseFields ==
    /\ \A pc \in {"none", "initializing", "attaching", "settled"} :
         "none" \in Outcome /\ Phase(pc) \in Opening
    /\ \A pc \in {"none", "waiting", "draining", "closing", "settled"} : Phase(pc) \in Closing
    /\ \A outcome \in Outcome : Settled(outcome) \in Opening /\ Settled(outcome) \in Closing
    /\ \A pc : Phase(pc).pc = pc /\ Phase(pc).outcome = "none"
    /\ \A o : Settled(o).pc = "settled" /\ Settled(o).outcome = o
    /\ Idle.pc = "none" /\ Idle.outcome = "none" /\ Idle = Phase("none")
BY DEF Outcome, Opening, Closing, Phase, Settled, Idle

\* A promise of the application is idle exactly when its phase is "none".
LEMMA IdlePhase ==
    ASSUME ExpressTypeOK, OutcomeInv
    PROVE  /\ opening = Idle <=> opening.pc = "none"
           /\ closing = Idle <=> closing.pc = "none"
           /\ opening = Settled(opening.outcome) <=> opening.pc = "settled"
           /\ closing = Settled(closing.outcome) <=> closing.pc = "settled"
BY DEF ExpressTypeOK, OutcomeInv, Opening, Closing, Idle, Phase, Settled

\* While the application is idle or initializing, the engine neither starts nor
\* stops, and nobody awaits it.
LEMMA EngineRests ==
    ASSUME ExpressInv, app = "express", opening.pc # "attaching", closing.pc # "closing"
    PROVE  /\ starter = NoStart /\ stopper = NoStop
           /\ \A c \in Callers : callers[c] = "idle"
BY ExpressAssumption DEF ExpressInv, TurnInv

------------------------------------------------------------------------------
(* Calls into the engine                                                   *)

\* thisStart calls the engine: it is ready, it refuses, or it begins.
LEMMA OpenEffect ==
    ASSUME ExpressInv, Open, app = "express",
           opening.pc \in {"none", "initializing"}, closing.pc \in {"none", "waiting"}
    PROVE  \/ /\ lifecycle = "ready"
              /\ opening' = Settled("resolved")
              /\ UNCHANGED <<callers, lifecycle, starter>>
           \/ /\ lifecycle # "ready"
              /\ opening' = Settled("rejected")
              /\ UNCHANGED <<callers, lifecycle, starter>>
           \/ /\ callers' = [callers EXCEPT ![Opener] = "start"]
              /\ opening' = Phase("attaching")
              /\ BeginAttaching
<1>1. starter = NoStart /\ stopper = NoStop /\ callers[Opener] = "idle"
  BY EngineRests, ExpressAssumption
<1>2. callers = [callers EXCEPT ![Opener] = "idle"]
  BY <1>1 DEF ExpressInv, LifecycleInv, TypeOK
<1>3. CASE lifecycle = "ready"
  BY <1>1, <1>2, <1>3, ExpressAssumption DEF Open, Start, ExpressInv, LifecycleInv, TypeOK
<1>4. CASE lifecycle # "ready" /\ shutdownIncomplete
  BY <1>1, <1>2, <1>4, ExpressAssumption DEF Open, Start, ExpressInv, LifecycleInv, TypeOK
<1>5. CASE lifecycle # "ready" /\ ~shutdownIncomplete
  <2>1. callers' = [callers EXCEPT ![Opener] = "start"] /\ BeginAttaching
    BY <1>1, <1>5 DEF Open, Start
  <2>2. callers'[Opener] = "start"
    BY <2>1, ExpressAssumption DEF ExpressInv, LifecycleInv, TypeOK
  <2>. QED
    BY <2>1, <2>2 DEF Open
<1>. QED
  BY <1>3, <1>4, <1>5

\* ... which preserves the invariant.
LEMMA OpenInv ==
    ASSUME ExpressInv, Open, app = "express", ~started,
           opening.pc \in {"none", "initializing"}, closing.pc \in {"none", "waiting"},
           closing.pc = "waiting" => opening.pc = "initializing",
           calls' \in 0 .. MaxCalls,
           initialized' \in BOOLEAN, readiness' = "pending",
           users' \in [Users -> {"idle", "start", "stop", "restart", "again"}],
           UNCHANGED <<app, started, closing, timers, running>>
    PROVE  ExpressInv'
<1>1. starter = NoStart /\ stopper = NoStop /\ callers[Opener] = "idle"
      /\ NoStart.pc = "none" /\ NoStop.pc = "none"
  BY EngineRests, ExpressAssumption, PromiseFields DEF Outcome
<1>2. LifecycleInv'
  <2>1. style # "tasks"
    BY DEF ExpressInv, TurnInv
  <2>. QED
    BY <1>1, <2>1, StartInv, ExpressAssumption DEF Open, ExpressInv
<1>3. /\ UNCHANGED <<style, registered, attached, shutdownIncomplete, stopper, adding, faults>>
      /\ \/ /\ lifecycle = "ready"
            /\ opening' = Settled("resolved")
            /\ UNCHANGED <<callers, lifecycle, starter>>
         \/ /\ lifecycle # "ready"
            /\ opening' = Settled("rejected")
            /\ UNCHANGED <<callers, lifecycle, starter>>
         \/ /\ callers' = [callers EXCEPT ![Opener] = "start"]
            /\ opening' = Phase("attaching")
            /\ BeginAttaching
  BY OpenEffect DEF Open
<1>4. BeginAttaching =>
        \/ /\ registered = attached
           /\ lifecycle' = "ready"
           /\ starter' = StartSettled("resolved")
        \/ /\ lifecycle' = "starting"
           /\ starter'.pc = "attaching"
           /\ starter'.cur \cup starter'.todo = registered \ attached
  <2>. SUFFICES ASSUME BeginAttaching PROVE <1>4!2
    OBVIOUS
  <2>1. CASE registered \ attached = {}
    BY <2>1 DEF BeginAttaching, ExpressInv, LifecycleInv, TypeOK
  <2>2. CASE registered \ attached # {}
    <3>1. lifecycle' = "starting" /\ starter'.pc = "attaching"
      BY <2>2 DEF BeginAttaching
    <3>. QED
      BY <2>2, <3>1, BeginAttachingEffect DEF ExpressInv, LifecycleInv
  <2>. QED
    BY <2>1, <2>2
<1>5. StartSettled("resolved").pc = "settled" /\ StartSettled("resolved").outcome = "resolved"
  BY DEF StartSettled, NoStart
<1>6. opening' # Idle /\ opening' \in Opening
      /\ (opening'.pc = "settled" <=> opening'.outcome # "none")
  BY <1>3, PhaseFields DEF Outcome
<1>7. ExpressTypeOK'
  BY <1>6 DEF ExpressInv, ExpressTypeOK
<1>8. OutcomeInv'
  BY <1>1, <1>3, <1>4, <1>5, <1>6 DEF ExpressInv, OutcomeInv
<1>9. TurnInv'
  <2>1. \A c \in Callers : callers'[c] = "idle" \/ (callers'[c] = "start" /\ c = Opener)
    BY <1>1, <1>3, EngineRests DEF ExpressInv, LifecycleInv, TypeOK
  <2>2. callers'[Opener] = "start" \/ starter' # NoStart => opening'.pc = "attaching"
    BY <1>1, <1>3, PhaseFields, ExpressAssumption DEF ExpressInv, LifecycleInv, TypeOK
  <2>3. callers'[Closer] # "stop"
    BY <2>1, ExpressAssumption
  <2>. QED
    BY <1>1, <1>3, <1>6, <2>1, <2>2, <2>3 DEF ExpressInv, TurnInv
<1>10. SchedulerInv'
  BY <1>1 DEF ExpressInv, SchedulerInv
<1>11. AttachedInv'
  <2>1. Settled("resolved") # Settled("rejected") /\ Phase("attaching") # Settled("resolved")
        /\ Phase("attaching").pc = "attaching" /\ Settled("rejected").pc = "settled"
        /\ Settled("resolved").pc = "settled"
    BY DEF Settled, Phase
  <2>2. opening # Settled("resolved") /\ opening.pc # "attaching"
    BY <2>1
  <2>. QED
    BY <1>1, <1>3, <1>4, <1>5, <2>1, <2>2 DEF ExpressInv, AttachedInv, LifecycleInv, TypeOK
<1>. QED
  BY <1>2, <1>7, <1>8, <1>9, <1>10, <1>11 DEF ExpressInv

\* thisStop calls the engine, which is stopped already or begins to close.
LEMMA CloseInv ==
    ASSUME ExpressInv, Drained, app = "express"
    PROVE  ExpressInv'
<1>0. opening = Idle /\ opening.pc # "attaching" /\ closing.pc # "closing" /\ style # "tasks"
  BY PhaseFields DEF Drained, ExpressInv, TurnInv
<1>1. /\ starter = NoStart /\ stopper = NoStop
      /\ NoStart.pc = "none" /\ NoStop.pc = "none"
      /\ \A c \in Callers : callers[c] = "idle"
  BY <1>0, EngineRests, PromiseFields DEF Outcome
<1>2. /\ started' = FALSE /\ readiness' = "pending" /\ running = {}
      /\ UNCHANGED <<style, registered, attached, shutdownIncomplete, starter, adding, faults>>
      /\ UNCHANGED <<calls, app, initialized, opening, users, timers, running>>
  BY DEF Drained, Close, Renewed, engineVars
<1>3. \/ /\ lifecycle = "stopped"
         /\ closing' = Settled("resolved")
         /\ UNCHANGED <<callers, lifecycle, stopper, stopRequested>>
      \/ /\ Stop(Closer)
         /\ closing' = Phase("closing")
         /\ callers' = [callers EXCEPT ![Closer] = "stop"]
         /\ lifecycle' = "stopping"
         /\ stopper'.pc = "closing"
  BY <1>1 DEF Drained, Close, engineVars, Stop, BeginStopping, NoStop
<1>4. LifecycleInv'
  <2>1. CASE Stop(Closer)
    <3>1. calls' \in 0 .. MaxCalls
      BY <1>2 DEF ExpressInv, LifecycleInv, TypeOK
    <3>. QED
      BY <1>0, <1>2, <2>1, <3>1, StopInv, ExpressAssumption DEF ExpressInv
  <2>2. CASE UNCHANGED <<callers, lifecycle, stopper, stopRequested>>
    BY <1>2, <2>2 DEF ExpressInv, LifecycleInv, TypeOK, PromiseInv, AttachInv, TaskInv
  <2>. QED
    BY <1>3, <2>1, <2>2
<1>5. /\ closing' \in Closing
      /\ closing'.pc = "settled" <=> closing'.outcome # "none"
      /\ closing'.pc \in {"closing", "settled"} /\ closing' # Idle
      /\ opening.pc = "none"
  BY <1>0, <1>3, PhaseFields DEF Outcome
<1>6. ExpressTypeOK' /\ OutcomeInv'
  BY <1>1, <1>2, <1>3, <1>5 DEF ExpressInv, ExpressTypeOK, OutcomeInv
<1>7. TurnInv'
  <2>1. \A c \in Callers : callers'[c] = "idle" \/ (callers'[c] = "stop" /\ c = Closer)
    BY <1>1, <1>3 DEF ExpressInv, LifecycleInv, TypeOK
  <2>2. callers'[Closer] = "stop" \/ stopper' # NoStop => closing'.pc = "closing"
    BY <1>1, <1>3, PhaseFields, ExpressAssumption
  <2>3. callers'[Opener] # "start"
    BY <2>1, ExpressAssumption
  <2>. QED
    BY <1>0, <1>1, <1>2, <1>5, <2>1, <2>2, <2>3 DEF TurnInv
<1>8. SchedulerInv'
  BY <1>0, <1>2, <1>5 DEF ExpressInv, SchedulerInv, TurnInv, Drained, Idle, Phase
<1>9. AttachedInv'
  BY <1>0, <1>1, <1>2, <1>3, <1>5, PhaseFields DEF ExpressInv, AttachedInv, Idle, Phase, Settled
<1>. QED
  BY <1>4, <1>6, <1>7, <1>8, <1>9 DEF ExpressInv

------------------------------------------------------------------------------
(* Steps of the engine                                                     *)

\* The outcome of an engine's promise that settles.
LEMMA EngineOutcome ==
    /\ \A o : StartSettled(o).pc = "settled" /\ StartSettled(o).outcome = o
    /\ \A o : StopSettled(o).pc = "settled" /\ StopSettled(o).outcome = o
    /\ NoStart.pc = "none" /\ NoStop.pc = "none" /\ Idle.pc = "none"
BY DEF StartSettled, StopSettled, NoStart, NoStop, Idle, Phase

\* The start aborts, ends, or goes on to what is left.
LEMMA ConsumedEffect ==
    ASSUME TypeOK, StartConsumed
    PROVE  /\ attached' = attached \cup starter.cur
           /\ \/ /\ starter' = StartSettled("resolved")
                 /\ stopRequested \/ (starter.todo = {} /\ lifecycle' = "ready")
              \/ /\ ~stopRequested
                 /\ starter'.pc = "attaching"
                 /\ starter'.cur \cup starter'.todo = starter.todo
                 /\ lifecycle' = lifecycle
<1>1. ASSUME NEW s \in starter.todo,
             starter' = [starter EXCEPT !.todo = @ \ {s}, !.cur = {s}]
      PROVE  starter'.pc = "attaching" /\ starter'.cur \cup starter'.todo = starter.todo
  <2>1. starter'.pc = "attaching" /\ starter'.cur = {s} /\ starter'.todo = starter.todo \ {s}
    BY <1>1 DEF TypeOK, Starter, StartConsumed
  <2>. QED
    BY <2>1
<1>. QED
  BY <1>1 DEF StartConsumed

\* A consume() of the start resolves.
LEMMA ConsumedExpressInv ==
    ASSUME ExpressInv, StartConsumed, UNCHANGED expressVars
    PROVE  ExpressInv'
<1>1. LifecycleInv'
  BY StartConsumedInv DEF ExpressInv
<1>2. ExpressTypeOK'
  BY DEF ExpressInv, ExpressTypeOK, expressVars
<1>3. OutcomeInv'
  BY EngineOutcome, ConsumedEffect
     DEF ExpressInv, OutcomeInv, StartConsumed, expressVars, LifecycleInv
<1>4. TurnInv'
  BY EngineOutcome DEF ExpressInv, TurnInv, StartConsumed, expressVars
<1>5. SchedulerInv'
  BY DEF ExpressInv, SchedulerInv, expressVars
<1>6. AttachedInv'
  <2>. SUFFICES ASSUME app = "express", style # "dynamic"
                PROVE  AttachedInv'
    BY DEF AttachedInv, StartConsumed, expressVars
  <2>1. stopper = NoStop /\ ~stopRequested /\ opening.pc = "attaching" /\ ~started
    BY EngineOutcome DEF ExpressInv, TurnInv, LifecycleInv, PromiseInv, StartConsumed
  <2>2. opening # Settled("resolved")
    BY <2>1, PhaseFields
  <2>. QED
    <3>1. /\ registered = attached \cup starter.cur \cup starter.todo
          /\ lifecycle = "starting" /\ starter.pc = "attaching"
          /\ registered' = registered /\ stopper' = stopper
      BY DEF ExpressInv, AttachedInv, StartConsumed
    <3>2. opening'.pc = "attaching" /\ opening' # Settled("resolved") /\ ~started'
          /\ stopper'.pc = "none"
      BY <2>1, <2>2, <3>1, EngineOutcome DEF expressVars
    <3>3. /\ attached' = attached \cup starter.cur
          /\ \/ /\ starter'.pc = "settled" /\ starter'.outcome = "resolved"
                /\ lifecycle' = "ready" /\ registered' = attached'
             \/ /\ starter'.pc = "attaching" /\ lifecycle' = "starting"
                /\ registered' = attached' \cup starter'.cur \cup starter'.todo
      BY <2>1, <3>1, ConsumedEffect, EngineOutcome DEF ExpressInv, LifecycleInv
    <3>. QED
      BY <3>2, <3>3 DEF AttachedInv
<1>. QED
  BY <1>1, <1>2, <1>3, <1>4, <1>5, <1>6 DEF ExpressInv

\* A consume() of the start rejects.
LEMMA FailedExpressInv ==
    ASSUME ExpressInv, StartFailed, UNCHANGED expressVars
    PROVE  ExpressInv'
<1>1. LifecycleInv'
  BY StartFailedInv DEF ExpressInv
<1>2. ExpressTypeOK'
  BY DEF ExpressInv, ExpressTypeOK, expressVars
<1>3. OutcomeInv'
  BY EngineOutcome DEF ExpressInv, OutcomeInv, StartFailed, expressVars
<1>4. TurnInv'
  BY EngineOutcome DEF ExpressInv, TurnInv, StartFailed, expressVars
<1>5. SchedulerInv'
  BY DEF ExpressInv, SchedulerInv, expressVars
<1>6. AttachedInv'
  <2>. SUFFICES ASSUME app = "express", style # "dynamic"
                PROVE  AttachedInv'
    BY DEF AttachedInv, StartFailed, expressVars
  <2>1. stopper = NoStop /\ opening.pc = "attaching" /\ ~started
    BY EngineOutcome DEF ExpressInv, TurnInv, StartFailed
  <2>2. opening # Settled("resolved")
    BY <2>1, PhaseFields
  <2>. QED
    BY <2>1, <2>2, EngineOutcome DEF ExpressInv, AttachedInv, StartFailed, expressVars
<1>. QED
  BY <1>1, <1>2, <1>3, <1>4, <1>5, <1>6 DEF ExpressInv
\* close() resolves.
LEMMA StopClosedExpressInv ==
    ASSUME ExpressInv, StopClosed, UNCHANGED expressVars
    PROVE  ExpressInv'
<1>1. LifecycleInv'
  BY StopClosedInv DEF ExpressInv
<1>2. ExpressTypeOK' /\ SchedulerInv'
  BY DEF ExpressInv, ExpressTypeOK, SchedulerInv, expressVars
<1>3. OutcomeInv'
  BY EngineOutcome DEF ExpressInv, OutcomeInv, StopClosed, expressVars
<1>4. TurnInv'
  BY EngineOutcome DEF ExpressInv, TurnInv, StopClosed, expressVars
<1>5. AttachedInv'
  <2>. SUFFICES ASSUME app = "express", style # "dynamic"
                PROVE  AttachedInv'
    BY DEF AttachedInv, StopClosed, expressVars
  <2>1. starter = NoStart /\ opening = Idle /\ ~started
    BY EngineOutcome DEF ExpressInv, TurnInv, StopClosed
  <2>2. opening # Settled("resolved") /\ Idle.pc = "none"
    BY <2>1, PhaseFields
  <2>. QED
    BY <2>1, <2>2, EngineOutcome DEF ExpressInv, AttachedInv, StopClosed, expressVars
<1>. QED
  BY <1>1, <1>2, <1>3, <1>4, <1>5 DEF ExpressInv

\* close() rejects.
LEMMA StopFailedExpressInv ==
    ASSUME ExpressInv, StopFailed, UNCHANGED expressVars
    PROVE  ExpressInv'
<1>1. LifecycleInv'
  BY StopFailedInv DEF ExpressInv
<1>2. ExpressTypeOK' /\ SchedulerInv'
  BY DEF ExpressInv, ExpressTypeOK, SchedulerInv, expressVars
<1>3. OutcomeInv'
  BY EngineOutcome DEF ExpressInv, OutcomeInv, StopFailed, expressVars
<1>4. TurnInv'
  BY EngineOutcome DEF ExpressInv, TurnInv, StopFailed, expressVars
<1>5. AttachedInv'
  <2>. SUFFICES ASSUME app = "express", style # "dynamic"
                PROVE  AttachedInv'
    BY DEF AttachedInv, StopFailed, expressVars
  <2>1. starter = NoStart /\ opening = Idle /\ ~started
    BY EngineOutcome DEF ExpressInv, TurnInv, StopFailed
  <2>2. opening # Settled("resolved") /\ Idle.pc = "none"
    BY <2>1, PhaseFields
  <2>. QED
    BY <2>1, <2>2, EngineOutcome DEF ExpressInv, AttachedInv, StopFailed, expressVars
<1>. QED
  BY <1>1, <1>2, <1>3, <1>4, <1>5 DEF ExpressInv

\* Only without the runtime does a stop wait for a start.
LEMMA StopResumesExpressInv ==
    ASSUME ExpressInv, StopResumes, UNCHANGED expressVars
    PROVE  ExpressInv'
<1>1. LifecycleInv'
  BY StopResumesInv DEF ExpressInv
<1>2. ExpressTypeOK' /\ SchedulerInv'
  BY DEF ExpressInv, ExpressTypeOK, SchedulerInv, expressVars
<1>3. stopper' # NoStop /\ stopper'.pc = "closing" /\ stopper # NoStop
  BY EngineOutcome DEF ExpressInv, LifecycleInv, TypeOK, Stopper, StopResumes
<1>4. OutcomeInv'
  BY <1>3 DEF ExpressInv, OutcomeInv, StopResumes, expressVars
<1>5. TurnInv'
  BY <1>3 DEF ExpressInv, TurnInv, StopResumes, expressVars
<1>6. AttachedInv'
  <2>. SUFFICES ASSUME app = "express", style # "dynamic"
                PROVE  AttachedInv'
    BY DEF AttachedInv, StopResumes, expressVars
  <2>1. starter = NoStart /\ opening = Idle /\ ~started /\ closing.pc = "closing"
    BY <1>3, EngineOutcome DEF ExpressInv, TurnInv
  <2>2. opening # Settled("resolved") /\ Idle.pc = "none"
    BY <2>1, PhaseFields
  <2>. QED
    BY <1>3, <2>1, <2>2, EngineOutcome
       DEF ExpressInv, AttachedInv, StopResumes, expressVars
<1>. QED
  BY <1>1, <1>2, <1>4, <1>5, <1>6 DEF ExpressInv

\* The consume() of a subscribe() resolves.
LEMMA SubscribeConsumedExpressInv ==
    ASSUME NEW s \in Subs, ExpressInv, SubscribeConsumed(s), UNCHANGED expressVars
    PROVE  ExpressInv'
<1>1. LifecycleInv'
  BY SubscribeConsumedInv DEF ExpressInv
<1>2. ExpressTypeOK' /\ SchedulerInv'
  BY DEF ExpressInv, ExpressTypeOK, SchedulerInv, expressVars
<1>3. OutcomeInv'
  BY EngineOutcome DEF ExpressInv, OutcomeInv, SubscribeConsumed, expressVars
<1>4. TurnInv'
  BY EngineOutcome DEF ExpressInv, TurnInv, SubscribeConsumed, expressVars
<1>5. AttachedInv'
  BY DEF ExpressInv, LifecycleInv, AttachInv, AttachedInv, SubscribeConsumed, expressVars
<1>. QED
  BY <1>1, <1>2, <1>3, <1>4, <1>5 DEF ExpressInv

\* The consume() of a subscribe() rejects.
LEMMA SubscribeFailedExpressInv ==
    ASSUME NEW s \in Subs, ExpressInv, SubscribeFailed(s), UNCHANGED expressVars
    PROVE  ExpressInv'
<1>1. LifecycleInv'
  BY SubscribeFailedInv DEF ExpressInv
<1>2. ExpressTypeOK' /\ SchedulerInv'
  BY DEF ExpressInv, ExpressTypeOK, SchedulerInv, expressVars
<1>3. OutcomeInv'
  BY EngineOutcome DEF ExpressInv, OutcomeInv, SubscribeFailed, expressVars
<1>4. TurnInv'
  BY EngineOutcome DEF ExpressInv, TurnInv, SubscribeFailed, expressVars
<1>5. AttachedInv'
  BY DEF ExpressInv, LifecycleInv, AttachInv, AttachedInv, SubscribeFailed, expressVars
<1>. QED
  BY <1>1, <1>2, <1>3, <1>4, <1>5 DEF ExpressInv

\* The engine's start is cleaned up, and thisStart learns its outcome.
LEMMA EngineStartedInv ==
    ASSUME ExpressInv, EngineStarted
    PROVE  ExpressInv'
<1>1. LifecycleInv'
  BY StartClearedInv DEF ExpressInv, EngineStarted
<1>2. starter.outcome \in Outcome /\ starter.outcome # "none" /\ starter.pc = "settled"
  BY DEF ExpressInv, LifecycleInv, TypeOK, Starter, OutcomeInv, EngineStarted, StartCleared
<1>3. opening' \in Opening /\ (opening'.pc = "settled" <=> opening'.outcome # "none")
  BY <1>2, PhaseFields DEF ExpressInv, ExpressTypeOK, OutcomeInv, EngineStarted
<1>4. ExpressTypeOK'
  BY <1>3 DEF ExpressInv, ExpressTypeOK, EngineStarted
<1>5. OutcomeInv'
  <2>1. stopper'.pc = "settled" => stopper.pc = "settled" /\ stopper' = stopper
    BY DEF ExpressInv, LifecycleInv, TypeOK, Stopper, EngineStarted, StartCleared
  <2>. QED
    BY <1>3, <2>1, EngineOutcome DEF ExpressInv, OutcomeInv, EngineStarted, StartCleared
<1>6. CASE app = "express"
  <2>1. /\ opening.pc = "attaching" /\ opening # Idle /\ ~started
        /\ opening' = Settled(starter.outcome)
        /\ stopper = NoStop /\ stopper' = stopper
    <3>1. opening.pc = "attaching" /\ opening # Idle
      BY <1>2, <1>6, EngineOutcome DEF ExpressInv, TurnInv
    <3>2. ~started /\ stopper = NoStop
      BY <1>6, <3>1 DEF ExpressInv, TurnInv
    <3>. QED
      BY <3>1, <3>2, EngineOutcome DEF EngineStarted, StartCleared
  <2>2. opening'.pc = "settled" /\ opening' # Idle
    BY <2>1, PhaseFields
  <2>3. TurnInv'
    <3>1. \A c \in Callers : \/ callers'[c] = "idle"
                             \/ callers'[c] = callers[c] /\ callers[c] # "start"
      BY DEF EngineStarted, StartCleared
    <3>. QED
      BY <2>1, <2>2, <3>1, ExpressAssumption DEF ExpressInv, TurnInv, EngineStarted, StartCleared
  <2>4. SchedulerInv'
    BY DEF ExpressInv, SchedulerInv, EngineStarted
  <2>5. AttachedInv'
    <3>1. opening' = Settled("resolved") <=> starter.outcome = "resolved"
      BY <2>1 DEF Settled
    <3>. QED
      BY <1>2, <2>1, <2>2, <3>1, EngineOutcome
         DEF ExpressInv, AttachedInv, EngineStarted, StartCleared
  <2>. QED
    BY <1>1, <1>4, <1>5, <2>3, <2>4, <2>5 DEF ExpressInv
<1>7. CASE app # "express"
  <2>1. TurnInv' /\ SchedulerInv' /\ AttachedInv'
    BY <1>7 DEF TurnInv, SchedulerInv, AttachedInv, EngineStarted
  <2>. QED
    BY <1>1, <1>4, <1>5, <2>1 DEF ExpressInv
<1>. QED
  BY <1>6, <1>7

\* The engine's stop is cleaned up, and thisStop learns its outcome.
LEMMA EngineStoppedInv ==
    ASSUME ExpressInv, EngineStopped
    PROVE  ExpressInv'
<1>1. LifecycleInv'
  BY StopClearedInv DEF ExpressInv, EngineStopped
<1>2. stopper.outcome \in Outcome /\ stopper.outcome # "none" /\ stopper.pc = "settled"
  BY DEF ExpressInv, LifecycleInv, TypeOK, Stopper, OutcomeInv, EngineStopped, StopCleared
<1>3. closing' \in Closing /\ (closing'.pc = "settled" <=> closing'.outcome # "none")
  BY <1>2, PhaseFields DEF ExpressInv, ExpressTypeOK, OutcomeInv, EngineStopped
<1>4. ExpressTypeOK'
  BY <1>3 DEF ExpressInv, ExpressTypeOK, EngineStopped
<1>5. OutcomeInv'
  BY <1>3, EngineOutcome DEF ExpressInv, OutcomeInv, EngineStopped, StopCleared
<1>6. CASE app = "express"
  <2>1. /\ closing.pc = "closing" /\ opening = Idle /\ ~started /\ starter = NoStart
        /\ closing' = Settled(stopper.outcome)
    <3>1. closing.pc = "closing"
      BY <1>2, <1>6, EngineOutcome DEF ExpressInv, TurnInv
    <3>2. opening = Idle /\ ~started /\ starter = NoStart
      BY <1>6, <3>1, EngineOutcome DEF ExpressInv, TurnInv
    <3>. QED
      BY <3>1, <3>2 DEF EngineStopped
  <2>2. closing'.pc = "settled" /\ closing' # Idle /\ opening.pc = "none"
        /\ opening # Settled("resolved")
    BY <2>1, PhaseFields
  <2>3. TurnInv'
    <3>1. \A c \in Callers : callers[c] # "restart" =>
            \/ callers'[c] = "idle"
            \/ callers'[c] = callers[c] /\ callers[c] # "stop"
      BY DEF EngineStopped, StopCleared
    <3>. QED
      BY <2>1, <2>2, <3>1, ExpressAssumption DEF ExpressInv, TurnInv, EngineStopped, StopCleared
  <2>4. SchedulerInv'
    BY <2>1, <2>2, PhaseFields DEF ExpressInv, SchedulerInv, EngineStopped
  <2>5. AttachedInv'
    BY <1>2, <2>1, <2>2, EngineOutcome DEF ExpressInv, AttachedInv, EngineStopped, StopCleared
  <2>. QED
    BY <1>1, <1>4, <1>5, <2>3, <2>4, <2>5 DEF ExpressInv
<1>7. CASE app # "express"
  <2>1. TurnInv' /\ SchedulerInv' /\ AttachedInv'
    BY <1>7 DEF TurnInv, SchedulerInv, AttachedInv, EngineStopped
  <2>. QED
    BY <1>1, <1>4, <1>5, <2>1 DEF ExpressInv
<1>. QED
  BY <1>6, <1>7

------------------------------------------------------------------------------
(* Steps of the application                                                *)

\* The engine as an application without the runtime calls it.
LEMMA EngineCallInv ==
    ASSUME ExpressInv, app = "engine", EngineCall, UNCHANGED expressVars
    PROVE  ExpressInv'
<1>1. LifecycleInv'
  BY StartSubscriptionsInv, StartAgainInv, StopSubscriptionsInv DEF ExpressInv, EngineCall
<1>2. ExpressTypeOK' /\ TurnInv' /\ SchedulerInv' /\ AttachedInv'
  BY DEF ExpressInv, ExpressTypeOK, TurnInv, SchedulerInv, AttachedInv, expressVars
<1>3. OutcomeInv'
  <2>1. PICK c \in Callers : StartSubscriptions(c) \/ StartAgain(c) \/ StopSubscriptions(c)
    BY DEF EngineCall
  <2>2. starter'.pc = "settled" => starter'.outcome # "none"
    <3>1. BeginAttaching => (starter'.pc = "settled" => starter'.outcome = "resolved")
      BY EngineOutcome DEF BeginAttaching
    <3>2. BeginAttaching \/ starter' = starter
      BY <2>1 DEF StartSubscriptions, StartAgain, Start, StopSubscriptions
    <3>. QED
      BY <3>1, <3>2 DEF ExpressInv, OutcomeInv
  <2>3. stopper' = stopper \/ stopper'.pc # "settled"
    BY <2>1 DEF StartSubscriptions, StartAgain, StopSubscriptions, Stop, BeginStopping, NoStop
  <2>. QED
    BY <2>2, <2>3 DEF ExpressInv, OutcomeInv, expressVars
<1>. QED
  BY <1>1, <1>2, <1>3 DEF ExpressInv

\* subscribe() registers before the application has started, attaches after.
LEMMA AppSubscribeInv ==
    ASSUME NEW s \in Subs, ExpressInv, AppSubscribe(s), UNCHANGED expressVars
    PROVE  ExpressInv'
<1>1. LifecycleInv'
  BY RegisterSubscriptionInv, SubscribeInv DEF ExpressInv, AppSubscribe
<1>2. ExpressTypeOK' /\ SchedulerInv'
  BY DEF ExpressInv, ExpressTypeOK, SchedulerInv, expressVars
<1>3. OutcomeInv' /\ TurnInv'
  BY DEF ExpressInv, OutcomeInv, TurnInv, AppSubscribe, RegisterSubscription, Subscribe, expressVars
<1>4. AttachedInv'
  BY DEF ExpressInv, AttachedInv, AppSubscribe, RegisterSubscription, Subscribe, expressVars
<1>. QED
  BY <1>1, <1>2, <1>3, <1>4 DEF ExpressInv

\* The adapters are initialized, and the engine is started.
LEMMA InitializedInv ==
    ASSUME ExpressInv, app = "express", Initialized
    PROVE  ExpressInv'
<1>1. opening # Idle
  BY EngineOutcome DEF Initialized
<1>2. /\ ~started /\ readiness = "pending" /\ closing.pc \in {"none", "waiting"}
      /\ calls \in 0 .. MaxCalls
      /\ users \in [Users -> {"idle", "start", "stop", "restart", "again"}]
  BY <1>1 DEF ExpressInv, TurnInv, ExpressTypeOK, LifecycleInv, TypeOK
<1>. QED
  BY <1>2, OpenInv DEF Initialized

\* An adapter fails to initialize.
LEMMA InitializeFailedInv ==
    ASSUME ExpressInv, app = "express", InitializeFailed
    PROVE  ExpressInv'
<1>1. opening # Idle /\ opening.pc = "initializing" /\ opening # Settled("resolved")
  BY EngineOutcome, PhaseFields DEF InitializeFailed
<1>2. LifecycleInv'
  <2>1. faults' \in 0 .. MaxFaults
    BY LifecycleAssumption DEF InitializeFailed, Rejected, ExpressInv, LifecycleInv, TypeOK
  <2>. QED
    BY <2>1 DEF ExpressInv, LifecycleInv, TypeOK, PromiseInv, AttachInv, TaskInv, InitializeFailed
<1>3. /\ opening' \in Opening /\ opening'.pc = "settled" /\ opening'.outcome = "rejected"
      /\ opening' # Idle /\ opening' # Settled("resolved")
  <2>1. opening' = Settled("rejected")
    BY DEF InitializeFailed
  <2>. QED
    BY <2>1, PhaseFields DEF Outcome
<1>4. ExpressTypeOK' /\ OutcomeInv' /\ SchedulerInv'
  BY <1>3 DEF ExpressInv, ExpressTypeOK, OutcomeInv, SchedulerInv, InitializeFailed
<1>5. TurnInv'
  <2>1. starter = NoStart /\ callers[Opener] # "start"
    BY <1>1 DEF ExpressInv, TurnInv
  <2>. QED
    BY <1>1, <1>3, <2>1 DEF ExpressInv, TurnInv, InitializeFailed
<1>6. AttachedInv'
  BY <1>1, <1>3 DEF ExpressInv, AttachedInv, InitializeFailed
<1>. QED
  BY <1>2, <1>4, <1>5, <1>6 DEF ExpressInv

\* A step of the application alone leaves the engine as it is.
LEMMA EngineKept ==
    ASSUME LifecycleInv, UNCHANGED engineVars, calls' \in 0 .. MaxCalls
    PROVE  LifecycleInv'
BY DEF LifecycleInv, TypeOK, PromiseInv, AttachInv, TaskInv, engineVars

\* thisStart settles: the application runs, or a waiting stop goes on.
LEMMA StartSettlesInv ==
    ASSUME ExpressInv, app = "express", StartSettles
    PROVE  ExpressInv'
<1>1. /\ opening.pc = "settled" /\ opening # Idle /\ opening.outcome \in {"resolved", "rejected"}
      /\ opening = Settled(opening.outcome)
      /\ opening' = Idle /\ Idle.pc = "none" /\ Idle.outcome = "none"
  BY IdlePhase, PhaseFields
     DEF StartSettles, ExpressInv, ExpressTypeOK, OutcomeInv, Opening, Outcome
<1>2. /\ closing.pc \in {"none", "waiting"} /\ ~started /\ readiness = "pending"
      /\ closing = Idle <=> closing.pc = "none"
  BY <1>1, IdlePhase DEF ExpressInv, TurnInv
<1>3. /\ started' = (opening.outcome = "resolved")
      /\ readiness' = opening.outcome
      /\ users' \in [Users -> {"idle", "start", "stop", "restart", "again"}]
      /\ \/ closing.pc = "waiting" /\ closing' = Phase("draining") /\ timers' = {}
         \/ closing = Idle /\ closing' = Idle /\ timers' = IF started' THEN Rounds ELSE timers
      /\ UNCHANGED <<engineVars, calls, app, initialized, running>>
  BY <1>1, <1>2 DEF StartSettles, Resolved, ExpressInv, ExpressTypeOK
<1>4. /\ starter = NoStart /\ stopper = NoStop /\ \A c \in Callers : callers[c] = "idle"
      /\ UNCHANGED <<style, lifecycle, registered, attached, starter, stopper, callers>>
  BY <1>1, <1>2, <1>3, EngineRests DEF engineVars
<1>5. Phase("draining").pc = "draining" /\ Phase("draining").outcome = "none"
      /\ Phase("draining") \in Closing /\ Phase("draining") # Idle /\ Idle \in Opening /\ Idle \in Closing
  BY PhaseFields
<1>6. LifecycleInv'
  BY <1>3, EngineKept DEF ExpressInv, LifecycleInv, TypeOK
<1>7. ExpressTypeOK' /\ OutcomeInv'
  <2>1. timers' \in SUBSET Rounds
    BY <1>3 DEF ExpressInv, ExpressTypeOK
  <2>. QED
    BY <1>1, <1>3, <1>4, <1>5, <2>1 DEF ExpressInv, ExpressTypeOK, OutcomeInv
<1>8. TurnInv'
  BY <1>1, <1>2, <1>3, <1>4, <1>5, ExpressAssumption DEF ExpressInv, TurnInv
<1>9. SchedulerInv'
  BY <1>1, <1>2, <1>3, <1>5 DEF ExpressInv, SchedulerInv
<1>10. AttachedInv'
  <2>1. opening = Settled("resolved") <=> opening.outcome = "resolved"
    BY <1>1, PhaseFields
  <2>2. opening' # Settled("resolved") /\ NoStart.pc = "none" /\ NoStop.pc = "none"
    BY <1>1, PhaseFields, EngineOutcome
  <2>. QED
    BY <1>1, <1>2, <1>3, <1>4, <1>5, <2>1, <2>2 DEF ExpressInv, AttachedInv
<1>. QED
  BY <1>6, <1>7, <1>8, <1>9, <1>10 DEF ExpressInv

\* thisStop settles: the application is down.
LEMMA StopSettlesInv ==
    ASSUME ExpressInv, app = "express", StopSettles
    PROVE  ExpressInv'
<1>1. closing.pc = "settled" /\ closing' = Idle /\ Idle.pc = "none" /\ Idle.outcome = "none"
  BY PhaseFields DEF StopSettles
<1>2. opening = Idle /\ ~started /\ starter = NoStart /\ stopper = NoStop
      /\ \A c \in Callers : callers[c] = "idle"
  BY <1>1, EngineRests DEF ExpressInv, TurnInv
<1>3. /\ UNCHANGED <<engineVars, calls, app, started, opening, timers, running>>
      /\ initialized' \in BOOLEAN
      /\ readiness' \in {"pending", "resolved", "rejected"}
      /\ readiness' # "resolved" \/ readiness' = readiness
  BY DEF StopSettles, Resolved, ExpressInv, ExpressTypeOK
<1>4. users' \in [Users -> {"idle", "start", "stop", "restart", "again"}]
  BY DEF StopSettles, ExpressInv, ExpressTypeOK
<1>5. LifecycleInv'
  BY <1>3, EngineKept DEF ExpressInv, LifecycleInv, TypeOK
<1>6. ExpressTypeOK' /\ OutcomeInv'
  BY <1>1, <1>3, <1>4, PhaseFields DEF ExpressInv, ExpressTypeOK, OutcomeInv, engineVars
<1>7. TurnInv'
  BY <1>1, <1>2, <1>3 DEF ExpressInv, TurnInv, engineVars
<1>8. SchedulerInv'
  BY <1>1, <1>2, <1>3 DEF ExpressInv, SchedulerInv
<1>9. AttachedInv'
  BY <1>1, <1>2, <1>3 DEF ExpressInv, AttachedInv, engineVars
<1>. QED
  BY <1>5, <1>6, <1>7, <1>8, <1>9 DEF ExpressInv

\* start() waits for the stop, joins the start, or begins one.
LEMMA AppStartInv ==
    ASSUME NEW u \in Users, ExpressInv, app = "express", AppStart(u),
           calls' \in 0 .. MaxCalls,
           UNCHANGED <<app, started, closing, timers, running>>
    PROVE  ExpressInv'
<1>1. users' \in [Users -> {"idle", "start", "stop", "restart", "again"}]
  BY DEF AppStart, ExpressInv, ExpressTypeOK
<1>2. CASE UNCHANGED <<engineVars, opening, readiness, initialized>>
  <2>1. LifecycleInv'
    BY <1>2, EngineKept DEF ExpressInv
  <2>2. ExpressTypeOK' /\ OutcomeInv' /\ TurnInv'
    BY <1>1, <1>2 DEF ExpressInv, ExpressTypeOK, OutcomeInv, TurnInv, engineVars
  <2>3. SchedulerInv' /\ AttachedInv'
    BY <1>2 DEF ExpressInv, SchedulerInv, AttachedInv, engineVars
  <2>. QED
    BY <2>1, <2>2, <2>3 DEF ExpressInv
<1>3. CASE /\ closing = Idle /\ ~started /\ opening = Idle
           /\ readiness' = Renewed /\ UNCHANGED initialized
           /\ Open
  <2>1. readiness' = "pending" /\ opening.pc = "none" /\ closing.pc = "none"
        /\ initialized' \in BOOLEAN
    BY <1>3, PhaseFields DEF Renewed, ExpressInv, ExpressTypeOK
  <2>. QED
    BY <1>1, <1>3, <2>1, OpenInv
<1>4. CASE /\ closing = Idle /\ ~started /\ opening = Idle
           /\ readiness' = Renewed /\ UNCHANGED initialized
           /\ opening' = Phase("initializing") /\ UNCHANGED engineVars
  <2>1. /\ readiness' = "pending"
        /\ opening'.pc = "initializing" /\ opening'.outcome = "none"
        /\ opening' \in Opening /\ opening' # Idle /\ opening' # Settled("resolved")
        /\ opening.pc = "none" /\ closing.pc = "none" /\ opening # Settled("resolved")
    BY <1>4, PhaseFields DEF Renewed
  <2>2. starter = NoStart /\ stopper = NoStop /\ \A c \in Callers : callers[c] = "idle"
    BY <2>1, EngineRests
  <2>3. LifecycleInv'
    BY <1>4, EngineKept DEF ExpressInv
  <2>4. ExpressTypeOK' /\ OutcomeInv'
    BY <1>1, <1>4, <2>1 DEF ExpressInv, ExpressTypeOK, OutcomeInv, engineVars
  <2>5. TurnInv'
    BY <1>4, <2>1, <2>2, ExpressAssumption DEF ExpressInv, TurnInv, engineVars
  <2>6. SchedulerInv'
    BY <1>4, <2>1 DEF ExpressInv, SchedulerInv
  <2>7. AttachedInv'
    BY <1>4, <2>1, <2>2, EngineOutcome DEF ExpressInv, AttachedInv, engineVars
  <2>. QED
    BY <2>3, <2>4, <2>5, <2>6, <2>7 DEF ExpressInv
<1>. QED
  BY <1>2, <1>3, <1>4 DEF AppStart

\* stop() joins the stop, waits for the start, or stops the scheduler.
LEMMA UserStopsInv ==
    ASSUME NEW u \in Users, ExpressInv, app = "express", UserStops(u)
    PROVE  ExpressInv'
<1>1. users' \in [Users -> {"idle", "start", "stop", "restart", "again"}]
  BY DEF UserStops, ExpressInv, ExpressTypeOK
<1>2. calls' \in 0 .. MaxCalls
  BY LifecycleAssumption DEF UserStops, CallsIn, ExpressInv, LifecycleInv, TypeOK
<1>3. LifecycleInv'
  BY <1>2, EngineKept DEF UserStops, ExpressInv
<1>4. /\ UNCHANGED <<engineVars, app, started, initialized, opening, readiness, running>>
      /\ \/ closing # Idle /\ UNCHANGED <<closing, timers>>
         \/ /\ closing = Idle /\ opening # Idle
            /\ closing' = Phase("waiting")
            /\ UNCHANGED timers
         \/ /\ closing = Idle /\ opening = Idle
            /\ closing' = Phase("draining")
            /\ timers' = {}
  BY DEF UserStops
<1>5. /\ \A pc \in {"waiting", "draining"} :
           Phase(pc).pc = pc /\ Phase(pc).outcome = "none" /\ Phase(pc) \in Closing
           /\ Phase(pc) # Idle
      /\ Idle.pc = "none"
  BY PhaseFields
<1>6. ExpressTypeOK' /\ OutcomeInv'
  BY <1>1, <1>4, <1>5 DEF ExpressInv, ExpressTypeOK, OutcomeInv, engineVars
<1>7. CASE UNCHANGED <<closing, timers>>
  <2>1. TurnInv' /\ SchedulerInv' /\ AttachedInv'
    BY <1>4, <1>7 DEF ExpressInv, TurnInv, SchedulerInv, AttachedInv, engineVars
  <2>. QED
    BY <1>3, <1>6, <2>1 DEF ExpressInv
<1>8. CASE closing = Idle /\ opening # Idle /\ closing' = Phase("waiting") /\ UNCHANGED timers
  <2>1. ~started /\ closing.pc = "none" /\ closing'.pc = "waiting" /\ closing' # Idle
        /\ readiness = "pending" /\ stopper = NoStop /\ callers[Closer] # "stop"
    BY <1>5, <1>8 DEF ExpressInv, TurnInv
  <2>2. TurnInv'
    BY <1>4, <1>8, <2>1 DEF ExpressInv, TurnInv, engineVars
  <2>3. SchedulerInv'
    BY <1>4, <1>8, <2>1 DEF ExpressInv, SchedulerInv
  <2>4. AttachedInv'
    BY <1>4, <2>1 DEF ExpressInv, AttachedInv, engineVars
  <2>. QED
    BY <1>3, <1>6, <2>2, <2>3, <2>4 DEF ExpressInv
<1>9. CASE closing = Idle /\ opening = Idle /\ closing' = Phase("draining") /\ timers' = {}
  <2>1. closing.pc = "none" /\ closing'.pc = "draining" /\ closing' # Idle
        /\ stopper = NoStop /\ callers[Closer] # "stop" /\ starter = NoStart
    BY <1>5, <1>9 DEF ExpressInv, TurnInv
  <2>2. TurnInv'
    BY <1>4, <1>9, <2>1 DEF ExpressInv, TurnInv, engineVars
  <2>3. SchedulerInv'
    BY <1>4, <1>9, <2>1 DEF ExpressInv, SchedulerInv
  <2>4. AttachedInv'
    BY <1>4, <2>1 DEF ExpressInv, AttachedInv, engineVars
  <2>. QED
    BY <1>3, <1>6, <2>2, <2>3, <2>4 DEF ExpressInv
<1>. QED
  BY <1>4, <1>7, <1>8, <1>9

\* A round begins while the scheduler's timers are set.
LEMMA RoundInv ==
    ASSUME NEW r \in Rounds, ExpressInv, RoundBegins(r) \/ RoundEnds(r)
    PROVE  ExpressInv'
<1>1. UNCHANGED <<engineVars, calls, app, started, initialized, opening, closing, readiness,
                  users, timers>>
      /\ running' \subseteq Rounds
  BY DEF RoundBegins, RoundEnds, ExpressInv, ExpressTypeOK
<1>2. LifecycleInv'
  BY <1>1, EngineKept DEF ExpressInv, LifecycleInv, TypeOK
<1>3. ExpressTypeOK' /\ OutcomeInv' /\ TurnInv'
  BY <1>1 DEF ExpressInv, ExpressTypeOK, OutcomeInv, TurnInv, engineVars
<1>4. SchedulerInv'
  <2>1. running' # {} => running # {} \/ timers # {}
    BY DEF RoundBegins, RoundEnds
  <2>. QED
    BY <1>1, <2>1 DEF ExpressInv, SchedulerInv
<1>5. AttachedInv'
  BY <1>1 DEF ExpressInv, AttachedInv, engineVars
<1>. QED
  BY <1>2, <1>3, <1>4, <1>5 DEF ExpressInv

------------------------------------------------------------------------------
(* Invariance                                                              *)

\* The initial states satisfy ExpressInv.
LEMMA ExpressInitInv == ExpressInit => ExpressInv
<1>. SUFFICES ASSUME ExpressInit PROVE ExpressInv
  OBVIOUS
<1>1. LifecycleInv
  BY InitInv DEF ExpressInit
<1>2. ExpressTypeOK
  <2>1. Idle \in Opening /\ Idle \in Closing
    BY PhaseFields
  <2>. QED
    BY <2>1 DEF ExpressInit, ExpressTypeOK
<1>3. OutcomeInv
  BY PhaseFields, EngineOutcome DEF ExpressInit, Init, OutcomeInv
<1>4. TurnInv /\ SchedulerInv
  BY PhaseFields, ExpressAssumption DEF ExpressInit, Init, TurnInv, SchedulerInv
<1>5. AttachedInv
  BY PhaseFields, EngineOutcome DEF ExpressInit, Init, AttachedInv
<1>. QED
  BY <1>1, <1>2, <1>3, <1>4, <1>5 DEF ExpressInv

\* Each step of the application and of its engine preserves the invariant.
LEMMA ExpressNextInv == ExpressInv /\ [ExpressNext]_allVars => ExpressInv'
<1>. SUFFICES ASSUME ExpressInv, [ExpressNext]_allVars PROVE ExpressInv'
  OBVIOUS
<1>1. CASE EngineStep /\ UNCHANGED expressVars
  BY <1>1, ConsumedExpressInv, FailedExpressInv, StopResumesExpressInv, StopClosedExpressInv,
     StopFailedExpressInv, SubscribeConsumedExpressInv, SubscribeFailedExpressInv
     DEF EngineStep, SubscribeStep
<1>2. CASE EngineStarted \/ EngineStopped
  BY <1>2, EngineStartedInv, EngineStoppedInv
<1>3. CASE app = "engine" /\ EngineCall /\ UNCHANGED expressVars
  BY <1>3, EngineCallInv
<1>4. CASE \E s \in Subs : AppSubscribe(s) /\ UNCHANGED expressVars
  BY <1>4, AppSubscribeInv
<1>5. CASE app = "express" /\ ExpressStep
  BY <1>5, InitializedInv, InitializeFailedInv, StartSettlesInv, CloseInv, StopSettlesInv
     DEF ExpressStep
<1>6. ASSUME NEW u \in Users, app = "express", UserStep(u)
      PROVE  ExpressInv'
  <2>1. CASE UserStarts(u)
    <3>1. calls' \in 0 .. MaxCalls
      BY <2>1, LifecycleAssumption DEF UserStarts, CallsIn, ExpressInv, LifecycleInv, TypeOK
    <3>. QED
      BY <1>6, <2>1, <3>1, AppStartInv DEF UserStarts
  <2>2. CASE UserStartsAgain(u)
    <3>1. calls' \in 0 .. MaxCalls
      BY <2>2 DEF UserStartsAgain, ExpressInv, LifecycleInv, TypeOK
    <3>. QED
      BY <1>6, <2>2, <3>1, AppStartInv DEF UserStartsAgain
  <2>3. CASE UserStops(u)
    BY <1>6, <2>3, UserStopsInv
  <2>. QED
    BY <1>6, <2>1, <2>2, <2>3 DEF UserStep
<1>7. CASE \E r \in Rounds : RoundBegins(r) \/ RoundEnds(r)
  BY <1>7, RoundInv
<1>8. CASE ExpressDone \/ UNCHANGED allVars
  <2>1. UNCHANGED <<vars, expressVars>>
    BY <1>8 DEF ExpressDone, Done, allVars
  <2>2. LifecycleInv'
    BY <2>1 DEF vars, ExpressInv, LifecycleInv, TypeOK, PromiseInv, AttachInv, TaskInv
  <2>3. ExpressTypeOK' /\ OutcomeInv' /\ TurnInv' /\ SchedulerInv' /\ AttachedInv'
    BY <2>1 DEF vars, expressVars, ExpressInv, ExpressTypeOK, OutcomeInv, TurnInv, SchedulerInv,
       AttachedInv
  <2>. QED
    BY <2>2, <2>3 DEF ExpressInv
<1>. QED
  BY <1>1, <1>2, <1>3, <1>4, <1>5, <1>6, <1>7, <1>8 DEF ExpressNext

\* The invariant holds in every reachable state, of the engine alone and of
\* the engine behind an Express application.
THEOREM ExpressInvariant == ExpressSpec => []ExpressInv
<1>. QED
  BY ExpressInitInv, ExpressNextInv, PTL DEF ExpressSpec

------------------------------------------------------------------------------
(* What it shows                                                           *)

\* Every reachable state of the application and of its engine is well typed.
THEOREM ExpressTyped == ExpressSpec => [](TypeOK /\ ExpressTypeOK)
<1>1. ExpressInv => TypeOK /\ ExpressTypeOK
  BY DEF ExpressInv, LifecycleInv
<1>. QED
  BY <1>1, ExpressInvariant, PTL

\* The engine's starts and stops take turns under the application's promises,
\* from whatever continuation start(), stop() and subscribe() are called.
THEOREM StartsAndStopsTakeTurns == ExpressSpec => []StartsApartFromStops
<1>1. ExpressInv => StartsApartFromStops
  <2>. SUFFICES ASSUME ExpressInv PROVE StartsApartFromStops
    OBVIOUS
  <2>1. NoConsumeDuringClose
    BY PromiseFields DEF ExpressInv, LifecycleInv, TaskInv, NoConsumeDuringClose
  <2>2. app = "express" => starter = NoStart \/ stopper = NoStop
    BY PhaseFields DEF ExpressInv, TurnInv
  <2>. QED
    BY <2>1, <2>2 DEF StartsApartFromStops
<1>. QED
  BY <1>1, ExpressInvariant, PTL

\* A readiness promise that is resolved tells the truth about the engine and
\* the scheduler.
THEOREM ReadinessIsTrue == ExpressSpec => []ReadyIsTrue
<1>1. ExpressInv => ReadyIsTrue
  BY DEF ExpressInv, SchedulerInv, AttachedInv, ReadyIsTrue
<1>. QED
  BY <1>1, ExpressInvariant, PTL

\* An application that is down runs nothing and consumes nothing, unless a
\* start or a close failed.
THEOREM StoppedApplicationsAreQuiet == ExpressSpec => []StoppedIsQuiet
<1>1. ExpressInv => StoppedIsQuiet
  <2>. SUFFICES ASSUME ExpressInv, app = "express", ~started, opening = Idle,
                       closing.pc \notin {"waiting", "draining"}
                PROVE  /\ timers = {} /\ running = {}
                       /\ style # "dynamic" /\ closing.pc # "closing" =>
                            Consuming = {} /\ (attached = {} \/ lifecycle = "failed")
    BY DEF StoppedIsQuiet
  <2>1. timers = {} /\ running = {}
    BY DEF ExpressInv, SchedulerInv
  <2>2. opening.pc = "none" /\ opening # Settled("resolved")
    BY PhaseFields
  <2>3. starter = NoStart /\ NoStart.cur = {}
    BY <2>2, PromiseFields DEF ExpressInv, TurnInv, Outcome
  <2>4. style # "dynamic" => adding = {}
    BY DEF ExpressInv, LifecycleInv, AttachInv
  <2>5. style # "dynamic" /\ closing.pc # "closing" => attached = {} \/ lifecycle = "failed"
    BY <2>2 DEF ExpressInv, AttachedInv
  <2>. QED
    BY <2>1, <2>3, <2>4, <2>5 DEF Consuming
<1>. QED
  BY <1>1, ExpressInvariant, PTL
==============================================================================
