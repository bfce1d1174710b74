--------------------------- MODULE RabbitPublisher ---------------------------
(***************************************************************************)
(* RabbitMqPublisher: its connection with a confirm channel (a link, as in *)
(* RabbitSubscriber), the loops of initialize() and scheduleRecovery(),    *)
(* close(), and the emit() calls that wait for the broker's confirm, for   *)
(* the socket to drain, or for their timer.                                *)
(***************************************************************************)
EXTENDS Naturals

CONSTANTS
    Emits,              \* emit() calls
    Tries,              \* reconnect.attempts
    MaxConns,           \* bound on links
    MaxBreaks           \* bound on lost links, refused connections and nacks

ASSUME RabbitPublisherAssumption ==
    {Tries, MaxConns} \subseteq Nat \ {0} /\ MaxBreaks \in Nat

VARIABLES
    ended,              \* this.disposed
    conn,               \* the current link, or 0
    conns,              \* [state, heard]: heard while the listeners are attached
    loop,               \* the two retry loops
    leaving,            \* the link close() is closing, or 0
    emit,               \* the emit() calls
    accepted,           \* messages the broker has taken
    tangled,            \* history: a loop began while the other ran
    breaks

rabbitPubVars == <<ended, conn, conns, loop, leaving, emit, accepted, tangled, breaks>>

Conns == 1 .. MaxConns
PubLoops == {"initialize", "recovery"}
Up(l) == l # 0 /\ conns[l].state = "open"
Still == [pc |-> "idle", attempt |-> 0, link |-> 0]
Tried(n) == [pc |-> "connecting", attempt |-> n, link |-> 0]
Busy(p) == loop[p].pc # "idle"
Unsent == [pc |-> "idle", link |-> 0, confirmed |-> FALSE, drained |-> TRUE]

PubTypeOK ==
    /\ ended \in BOOLEAN /\ tangled \in BOOLEAN
    /\ conn \in 0 .. MaxConns /\ leaving \in 0 .. MaxConns
    /\ conns \in [Conns -> [state : {"unused", "open", "closed"}, heard : BOOLEAN]]
    /\ loop \in [PubLoops -> [pc : {"idle", "connecting", "setup", "dropping", "delay"},
                              attempt : 0 .. Tries, link : 0 .. MaxConns]]
    /\ \A p \in PubLoops :
         /\ loop[p].link # 0 <=> loop[p].pc \in {"setup", "dropping"}
         /\ loop[p].attempt # 0 <=> Busy(p)
    /\ emit \in [Emits -> [pc : {"idle", "waiting", "resolved", "rejected"},
                           link : 0 .. MaxConns, confirmed : BOOLEAN, drained : BOOLEAN]]
    /\ accepted \subseteq Emits
    /\ breaks \in 0 .. MaxBreaks

PubInit ==
    /\ ended = FALSE
    /\ conn = 0
    /\ conns = [l \in Conns |-> [state |-> "unused", heard |-> FALSE]]
    /\ loop = [p \in PubLoops |-> Still]
    /\ leaving = 0
    /\ emit = [e \in Emits |-> Unsent]
    /\ accepted = {}
    /\ tangled = FALSE
    /\ breaks = 0

Breaks == breaks < MaxBreaks /\ breaks' = breaks + 1

\* An await of a loop has been rejected: its continuation comes next.
Broken == \E p \in PubLoops : loop[p].pc = "setup" /\ ~Up(loop[p].link)

------------------------------------------------------------------------------
(* emit()                                                                  *)

\* Mutant: a drained socket is taken for a confirm.
Settled_drained(e) == IF e.drained THEN [e EXCEPT !.pc = "resolved"] ELSE e

\* succeedIfReady
Settled(e) == IF e.confirmed /\ e.drained THEN [e EXCEPT !.pc = "resolved"] ELSE e

\* Without a channel emit() rejects; else the message is written, and the socket may
\* ask to wait for its drain.
Emit(e) ==
    /\ emit[e].pc = "idle"
    /\ \E drained \in BOOLEAN :
          emit' = [emit EXCEPT ![e] =
              IF conn = 0 THEN [@ EXCEPT !.pc = "rejected"]
              ELSE Settled([@ EXCEPT !.pc = "waiting", !.link = conn, !.drained = drained])]
    /\ UNCHANGED <<ended, conn, conns, loop, leaving, accepted, tangled, breaks>>

\* The broker takes the message; its confirm is still to come.
Accepted(e) ==
    /\ emit[e].link # 0 /\ Up(emit[e].link)
    /\ accepted' = accepted \cup {e}
    /\ UNCHANGED <<ended, conn, conns, loop, leaving, emit, tangled, breaks>>

\* The confirm callback, or the drain event; neither is heard once the call settled.
Confirmed(e) ==
    /\ emit[e].pc = "waiting" /\ e \in accepted /\ Up(emit[e].link)
    /\ emit' = [emit EXCEPT ![e] = Settled([@ EXCEPT !.confirmed = TRUE])]
    /\ UNCHANGED <<ended, conn, conns, loop, leaving, accepted, tangled, breaks>>

Drained(e) ==
    /\ emit[e].pc = "waiting" /\ Up(emit[e].link)
    /\ emit' = [emit EXCEPT ![e] = Settled([@ EXCEPT !.drained = TRUE])]
    /\ UNCHANGED <<ended, conn, conns, loop, leaving, accepted, tangled, breaks>>

Refused(e) ==
    /\ Breaks
    /\ emit[e].pc = "waiting" /\ e \notin accepted /\ Up(emit[e].link)
    /\ emit' = [emit EXCEPT ![e].pc = "rejected", ![e].link = 0]
    /\ UNCHANGED <<ended, conn, conns, loop, leaving, accepted, tangled>>

ConfirmTimeout(e) ==
    /\ emit[e].pc = "waiting"
    /\ emit' = [emit EXCEPT ![e].pc = "rejected"]
    /\ UNCHANGED <<ended, conn, conns, loop, leaving, accepted, tangled, breaks>>

------------------------------------------------------------------------------
(* The link                                                                *)

\* These links close, and the calls waiting on them reject: their close listener.
ConnsClose(lost) ==
    /\ conns' = [l \in Conns |-> IF l \in lost /\ Up(l) THEN [state |-> "closed", heard |-> FALSE]
                                 ELSE conns[l]]
    /\ emit' = [e \in Emits |->
                  IF emit[e].pc = "waiting" /\ emit[e].link \in lost
                  THEN [emit[e] EXCEPT !.pc = "rejected"] ELSE emit[e]]

\* onChannelClose and onConnectionClose of the class: whatever is current goes, and a
\* recovery is scheduled.
ConnLost(l) ==
    /\ Breaks
    /\ ~Broken
    /\ Up(l)
    /\ IF conns[l].heard
       THEN /\ ConnsClose({l, conn})
            /\ conn' = 0
            /\ loop' = IF ended \/ Busy("recovery") THEN loop
                       ELSE [loop EXCEPT !["recovery"] = Tried(1)]
            /\ tangled' = (tangled \/ (loop' # loop /\ Busy("initialize")))
       ELSE ConnsClose({l}) /\ UNCHANGED <<conn, loop, tangled>>
    /\ UNCHANGED <<ended, leaving, accepted>>

PubInitialize ==
    /\ conn = 0 /\ ~Busy("initialize") /\ leaving = 0 /\ ~Broken
    /\ ended' = FALSE
    /\ loop' = [loop EXCEPT !["initialize"] = Tried(1)]
    /\ tangled' = (tangled \/ Busy("recovery"))
    /\ UNCHANGED <<conn, conns, leaving, emit, accepted, breaks>>

PubConnected(p, l) ==
    /\ loop[p].pc = "connecting" /\ ~Broken
    /\ conns[l].state = "unused" /\ \A k \in 1 .. l - 1 : conns[k].state # "unused"
    /\ conns' = [conns EXCEPT ![l] = [state |-> "open", heard |-> TRUE]]
    /\ loop' = [loop EXCEPT ![p].pc = "setup", ![p].link = l]
    /\ UNCHANGED <<ended, conn, leaving, emit, accepted, tangled, breaks>>

PubSetUp(p) ==
    /\ loop[p].pc = "setup" /\ Up(loop[p].link) /\ ~Broken
    /\ IF ended
       THEN loop' = [loop EXCEPT ![p].pc = "dropping"] /\ UNCHANGED conn
       ELSE loop' = [loop EXCEPT ![p] = Still] /\ conn' = loop[p].link
    /\ UNCHANGED <<ended, conns, leaving, emit, accepted, tangled, breaks>>

\* The link of a closed publisher is closed; its listeners take down what is current.
PubDropped(p) ==
    /\ loop[p].pc = "dropping" /\ ~Broken
    /\ ConnsClose({loop[p].link, conn})
    /\ conn' = 0
    /\ loop' = [loop EXCEPT ![p] = Still]
    /\ UNCHANGED <<ended, leaving, accepted, tangled, breaks>>

PubThrows(p) ==
    loop' = [loop EXCEPT ![p] = IF loop[p].attempt = Tries \/ (p = "recovery" /\ ended) THEN Still
                                ELSE [Still EXCEPT !.pc = "delay", !.attempt = loop[p].attempt]]

PubRefused(p) ==
    /\ Breaks
    /\ loop[p].pc = "connecting" /\ ~Broken
    /\ PubThrows(p)
    /\ UNCHANGED <<ended, conn, conns, leaving, emit, accepted, tangled>>

PubFails(p) ==
    /\ loop[p].pc = "setup" /\ ~Up(loop[p].link)
    /\ PubThrows(p)
    /\ UNCHANGED <<ended, conn, conns, leaving, emit, accepted, tangled, breaks>>

PubRetries(p) ==
    /\ loop[p].pc = "delay" /\ ~Broken
    /\ loop' = [loop EXCEPT ![p] = IF p = "recovery" /\ ended THEN Still
                                   ELSE Tried(loop[p].attempt + 1)]
    /\ UNCHANGED <<ended, conn, conns, leaving, emit, accepted, tangled, breaks>>

PubClose ==
    /\ ~ended /\ leaving = 0 /\ ~Broken
    /\ ended' = TRUE
    /\ conns' = IF conn = 0 THEN conns ELSE [conns EXCEPT ![conn].heard = FALSE]
    /\ leaving' = conn
    /\ conn' = 0
    /\ UNCHANGED <<loop, emit, accepted, tangled, breaks>>

PubClosed ==
    /\ leaving # 0 /\ ~Broken
    /\ ConnsClose({leaving})
    /\ leaving' = 0
    /\ UNCHANGED <<ended, conn, loop, accepted, tangled, breaks>>

------------------------------------------------------------------------------
PubLoopStep(p) ==
    \/ \E l \in Conns : PubConnected(p, l)
    \/ PubSetUp(p) \/ PubDropped(p) \/ PubFails(p) \/ PubRetries(p)

EmitStep(e) == Confirmed(e) \/ Drained(e) \/ ConfirmTimeout(e)

PubNext ==
    \/ \E e \in Emits : Emit(e) \/ Accepted(e) \/ EmitStep(e) \/ Refused(e)
    \/ \E l \in Conns : ConnLost(l)
    \/ \E p \in PubLoops : PubLoopStep(p) \/ PubRefused(p)
    \/ PubInitialize \/ PubClose \/ PubClosed

\* The network answers requests, timers fire, the socket drains.
PubGoesOn ==
    \/ \E p \in PubLoops : PubLoopStep(p)
    \/ \E e \in Emits : EmitStep(e)
    \/ PubClosed

------------------------------------------------------------------------------
(* Properties                                                              *)

\* emit() resolves only for a message the broker has taken, whatever became of the
\* link, the timer, the drain and close() meanwhile.
ResolvedWasAccepted == \A e \in Emits : emit[e].pc = "resolved" => e \in accepted

\* No emit() waits on a link that is gone: it was rejected with the link, and the
\* outbox can retry at once.
WaitingHasLink == \A e \in Emits : emit[e].pc = "waiting" => Up(emit[e].link)

\* Once close() and the loops are done, no link is open, unless the loops overlapped.
ClosedPublisherHasNoLink ==
    ended /\ ~tangled /\ leaving = 0 /\ (\A p \in PubLoops : ~Busy(p)) =>
        \A l \in Conns : ~Up(l)

\* Every emit() settles.
EmitSettles == <>[](\A e \in Emits : emit[e].pc # "waiting")

\* A publisher that was up and was not closed is up again once faults cease, if they
\* were fewer than the attempts of a loop (after as many a recovery stops for good),
\* unless its loops overlapped, it never came up or the model has no link left.
PublisherRecovers ==
    <>[](ended \/ tangled \/ breaks >= Tries \/ conn # 0 \/ ~\E l, k \in Conns : conns[l].state = "unused"
                                                        /\ conns[k].state # "unused")
=============================================================================
