---------------------------- MODULE OutboxDirect -----------------------------
(***************************************************************************)
(* The outbox with the writers that hold no claim: publish() calls that    *)
(* emit in the same call (no transaction, or immediate: true), whose row   *)
(* is visible to the schedulers while the emit is in flight, and the       *)
(* dashboard's retryOutbox and markOutboxPublished.  Their completion      *)
(* writes carry no expectedLockedBy and are therefore unconditional.       *)
(***************************************************************************)
EXTENDS Outbox

CONSTANTS
    Modes,          \* publishing modes in use
    Manual          \* TRUE if an operator uses the dashboard

ASSUME DirectAssumption ==
    /\ Modes \subseteq {"deferred", "plain", "tx_immediate"}
    /\ Manual \in BOOLEAN

VARIABLES
    direct,         \* each message's publish() call
    operator,       \* the dashboard's retryOutbox call
    forced          \* history: messages an operator marked published

directVars == <<vars, direct, operator, forced>>

\* A call that emits without a claim.  "published" and "gaveup" are the
\* returned publish() call, with and without a completed markPublished.
Call == [pc   : {"none", "emit", "fulfilled", "rejected", "published", "gaveup"},
         cur  : Msgs \cup {NoMsg},
         sent : BOOLEAN]

NoCall      == [pc |-> "none", cur |-> NoMsg, sent |-> FALSE]
Emitting(m) == [pc |-> "emit", cur |-> m, sent |-> FALSE]

Returned(m) == direct[m].pc \in {"none", "published", "gaveup"}

SomeClock == now .. now + MaxSkew

DirectInit ==
    /\ Init
    /\ direct = [m \in Msgs |-> NoCall]
    /\ operator = NoCall
    /\ forced = {}

------------------------------------------------------------------------------
(* publish() with an immediate emit                                        *)

\* Without a transaction the row is committed, pending and claimable before
\* the emit starts.
PublishPlain(m) ==
    /\ "plain" \in Modes
    /\ txn[m] = "none"
    /\ \A k \in Msgs : k < m => txn[k] # "none"
    /\ txn' = [txn EXCEPT ![m] = "committed"]
    /\ rows' = [rows EXCEPT ![m] = PendingRow]
    /\ direct' = [direct EXCEPT ![m] = Emitting(m)]
    /\ UNCHANGED <<workers, now, faults, copies, rejects, operator, forced>>

\* With a transaction and immediate: true the row is emitted while only the
\* transaction sees it.
PublishInTransaction(m) ==
    /\ SaveInTransaction(m)
    /\ \/ "deferred" \in Modes /\ direct' = direct
       \/ "tx_immediate" \in Modes /\ direct' = [direct EXCEPT ![m] = Emitting(m)]
    /\ UNCHANGED <<operator, forced>>

\* The transaction's callback awaits publish().
EndTransaction(m) ==
    /\ Returned(m)
    /\ Commit(m) \/ Rollback(m)
    /\ UNCHANGED <<direct, operator, forced>>

DirectAccepted(m) ==
    /\ direct[m].pc = "emit"
    /\ ~direct[m].sent
    /\ direct' = [direct EXCEPT ![m].sent = TRUE]
    /\ copies' = [copies EXCEPT ![m] = Count(@)]
    /\ UNCHANGED <<txn, rows, workers, now, faults, rejects, operator, forced>>

DirectFulfilled(m) ==
    /\ direct[m].pc = "emit"
    /\ direct[m].sent
    /\ direct' = [direct EXCEPT ![m].pc = "fulfilled"]
    /\ UNCHANGED <<vars, operator, forced>>

DirectRejected(m) ==
    /\ direct[m].pc = "emit"
    /\ direct' = [direct EXCEPT ![m].pc = "rejected"]
    /\ rejects' = [rejects EXCEPT ![m] = Count(@)]
    /\ UNCHANGED <<txn, rows, workers, now, faults, copies, operator, forced>>

\* markPublished(id) on a connection of its own: a row still inside the
\* caller's transaction is not matched.  If it throws, executed or not, the
\* catch clause runs as it does for a rejected emit.
DirectMarkPublished(m) ==
    /\ direct[m].pc = "fulfilled"
    /\ rows' = [rows EXCEPT ![m] =
                   IF CanComplete(@, NoOwner) THEN PublishedRow(@) ELSE @]
    /\ \/ /\ direct' = [direct EXCEPT ![m].pc = "published"]
          /\ faults' = faults
       \/ /\ faults < MaxFaults
          /\ faults' = faults + 1
          /\ direct' = [direct EXCEPT ![m].pc = "rejected"]
    /\ UNCHANGED <<txn, workers, now, copies, rejects, operator, forced>>

\* evt.retryCount is the 0 of the event publish() built.
DirectMarkFailed(m) ==
    /\ direct[m].pc = "rejected"
    /\ \E d \in ExpJitter(0), t \in SomeClock :
         rows' = [rows EXCEPT ![m] =
                     IF CanComplete(@, NoOwner) THEN FailedRow(@, t + d) ELSE @]
    /\ direct' = [direct EXCEPT ![m].pc = "gaveup"]
    /\ UNCHANGED <<txn, workers, now, faults, copies, rejects, operator, forced>>

\* The publishing process dies, or markPublishFailed throws unexecuted.
DirectFails(m) ==
    /\ ~Returned(m)
    /\ faults < MaxFaults
    /\ faults' = faults + 1
    /\ \/ direct' = [direct EXCEPT ![m].pc = "gaveup"]
       \/ /\ direct[m].pc = "fulfilled"     \* markPublished throws unexecuted
          /\ direct' = [direct EXCEPT ![m].pc = "rejected"]
    /\ UNCHANGED <<txn, rows, workers, now, copies, rejects, operator, forced>>

------------------------------------------------------------------------------
(* Dashboard                                                               *)

\* retryOutbox: the row is looked up, whatever its status, and emitted.
RetryOutbox(m) ==
    /\ Manual
    /\ operator.pc = "none"
    /\ rows[m].status # "absent"
    /\ operator' = Emitting(m)
    /\ UNCHANGED <<vars, direct, forced>>

OperatorAccepted ==
    /\ operator.pc = "emit"
    /\ ~operator.sent
    /\ operator' = [operator EXCEPT !.sent = TRUE]
    /\ copies' = [copies EXCEPT ![operator.cur] = Count(@)]
    /\ UNCHANGED <<txn, rows, workers, now, faults, rejects, direct, forced>>

OperatorFulfilled ==
    /\ operator.pc = "emit"
    /\ operator.sent
    /\ operator' = [operator EXCEPT !.pc = "fulfilled"]
    /\ UNCHANGED <<vars, direct, forced>>

\* A rejected emit is only reported to the operator.
OperatorRejected ==
    /\ operator.pc = "emit"
    /\ operator' = NoCall
    /\ UNCHANGED <<vars, direct, forced>>

OperatorMarkPublished ==
    /\ operator.pc = "fulfilled"
    /\ rows' = [rows EXCEPT ![operator.cur] = PublishedRow(@)]
    /\ operator' = NoCall
    /\ UNCHANGED <<txn, workers, now, faults, copies, rejects, direct, forced>>

MarkOutboxPublished(m) ==
    /\ Manual
    /\ CanComplete(rows[m], NoOwner)
    /\ rows' = [rows EXCEPT ![m] = PublishedRow(@)]
    /\ forced' = forced \cup {m}
    /\ UNCHANGED <<txn, workers, now, faults, copies, rejects, direct, operator>>

------------------------------------------------------------------------------
PublishStep(m) ==
    \/ PublishPlain(m) \/ PublishInTransaction(m) \/ EndTransaction(m)
    \/ DirectAccepted(m) \/ DirectFulfilled(m) \/ DirectRejected(m)
    \/ DirectMarkPublished(m) \/ DirectMarkFailed(m) \/ DirectFails(m)

OperatorStep ==
    \/ \E m \in Msgs : RetryOutbox(m) \/ MarkOutboxPublished(m)
    \/ OperatorAccepted \/ OperatorFulfilled \/ OperatorRejected
    \/ OperatorMarkPublished

DispatchStep ==
    /\ \/ \E m \in Msgs : Requeue(m)
       \/ \E w \in Workers : BeginRound(w) \/ RoundStep(w) \/ RenewalFails(w) \/ Crash(w)
       \/ Tick
    /\ UNCHANGED <<direct, operator, forced>>

DirectNext == (\E m \in Msgs : PublishStep(m)) \/ OperatorStep \/ DispatchStep

DirectSpec == DirectInit /\ [][DirectNext]_directVars

------------------------------------------------------------------------------
(* Properties                                                              *)

DirectTypeOK ==
    /\ TypeOK
    /\ direct \in [Msgs -> Call]
    /\ operator \in Call
    /\ forced \subseteq Msgs

\* Even with unconditional writers racing the claims, a row is published only
\* if the broker accepted the message or an operator declared it published.
PublishedWasAcceptedOrForced ==
    \A m \in Msgs :
        rows[m].status = "published" => copies[m] > 0 \/ m \in forced

\* The one thing that makes a published row retryable again is the failure
\* write of its own publish() call, which raced a worker, an operator or an
\* unacknowledged markPublished; it can happen once per message.
RevivedOnlyByItsPublisher ==
    [][\A m \in Msgs :
         rows[m].status = "published" /\ rows'[m].status # "published" =>
             direct[m].pc = "rejected" /\ direct'[m].pc = "gaveup"]_directVars

\* A live claim is broken only by its holder's completion, by the row's own
\* publish() call or by an operator; schedulers never break each other's.
ClaimBrokenOnlyDirectly ==
    [][\A m \in Msgs :
         /\ rows[m].status = "processing"
         /\ rows[m].until > now + MaxSkew
         /\ rows'[m].owner # rows[m].owner
         => \/ \E w \in Workers :
                 /\ Settled(w)
                 /\ workers[w].cur = m
                 /\ workers[w].token = rows[m].owner
            \/ direct'[m].pc # direct[m].pc
            \/ operator' # operator
            \/ m \in forced']_directVars

\* docs/architecture.md: with immediate: true, "CAP emits immediately and
\* marks published on success": once such a call has returned successfully and
\* its transaction is committed, the row is not still waiting to be sent.
ImmediateMarksPublished ==
    \A m \in Msgs :
        direct[m].pc = "published" /\ txn[m] = "committed" =>
            rows[m].status # "pending"

------------------------------------------------------------------------------
(* The inductive invariant behind the safety properties                    *)

DirectRowInv(m) ==
    /\ rows[m].status = "absent" <=> txn[m] # "committed"
    /\ rows[m].status = "published" => copies[m] > 0 \/ m \in forced

\* What is left of WorkerInv when others write rows that a worker holds.
DirectWorkerInv(w) ==
    /\ workers[w].at <= Clock(w)
    /\ workers[w].beat # NoTime => HasEvent(w)
    /\ HasEvent(w) =>
         /\ workers[w].token \in Tokens
         /\ workers[w].cur \in Msgs
         /\ workers[w].sent => copies[workers[w].cur] > 0
    /\ workers[w].pc = "fulfilled" => workers[w].sent

\* A call without a claim knows that the broker has what it saw sent.
CallInv(call) ==
    call.pc # "none" =>
        /\ call.cur \in Msgs
        /\ call.sent => copies[call.cur] > 0
        /\ call.pc = "fulfilled" => call.sent

DirectInv ==
    /\ DirectTypeOK
    /\ \A m \in Msgs : DirectRowInv(m)
    /\ \A w \in Workers : DirectWorkerInv(w)
    /\ \A m \in Msgs : CallInv(direct[m]) /\ (direct[m].pc # "none" => direct[m].cur = m)
    /\ CallInv(operator)
    /\ operator.pc # "none" => rows[operator.cur].status # "absent"
==============================================================================
