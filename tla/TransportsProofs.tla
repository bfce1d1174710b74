-------------------------- MODULE TransportsProofs ---------------------------
(*****************************************************************************)
(* Theorems about Transports, whichever adapter a deployment has, for any    *)
(* number of calls, links, topics, queues, messages and receivers: first the *)
(* four subscribers, then the publishers, then what every adapter owes.      *)
(*****************************************************************************)
EXTENDS Transports, FiniteSetTheorems, TLAPS

------------------------------------------------------------------------------
(* RabbitSubscriber: a subscriber that was not disturbed by two overlapping  *)
(* loops knows every open link, and a delivery tag is settled on its own     *)
(* channel.                                                                  *)

Bringing(p) == procs[p].pc \in {"setup", "dropping"}
OnLink(p)   == Bringing(p) \/ Restoring(procs[p])
Bare(l)     == \A g \in Groups : links[l].consumers[g] = 0

\* Where a process may be, and what it has in hand there.
Placed(p) ==
    /\ p \in Loops => procs[p].pc \notin {"waiting", "resolved", "rejected"}
    /\ p \in Subs => procs[p].pc \notin {"connecting", "setup", "dropping", "delay"}
    /\ procs[p].pc = "delay" => procs[p].attempt < Attempts
    /\ Restoring(procs[p]) => procs[p].sub # {}
    /\ procs[p].pc \in {"bind", "attach"} => procs[p].obj \in Objects

OnLinkInv(p) == OnLink(p) => procs[p].link \in Links /\ links[procs[p].link].state # "unused"

\* The link a loop brings up, or drops, is its own, and has no consumers yet.
BringingInv(p) == Bringing(p) =>
    /\ \A q \in Procs : OnLink(q) /\ procs[q].link = procs[p].link => q = p
    /\ procs[p].link \notin {current, closer.link, canceller.link}
    /\ Bare(procs[p].link)
    /\ Open(procs[p].link) => links[procs[p].link].heard

ProcsInv == \A p \in Procs : Placed(p) /\ OnLinkInv(p) /\ BringingInv(p)

\* The current link is open and heard; those close() and a cancel take down are not.
HeldLinksInv ==
    /\ current # 0 => Open(current) /\ links[current].heard /\ ~disposed
    /\ closer \in [pc : {"idle", "closing", "done"}, link : 0 .. MaxLinks]
    /\ closer.pc # "closing" => closer.link = 0
    /\ closer.pc = "closing" => disposed
    /\ closer.link # 0 => links[closer.link].state # "unused" /\ ~links[closer.link].heard
    /\ canceller \in [pc : {"idle", "closing"}, link : 0 .. MaxLinks]
    /\ canceller.pc = "idle" => canceller.link = 0
    /\ canceller.link # 0 =>
          links[canceller.link].state # "unused" /\ ~links[canceller.link].heard

\* A delivery is owed over an open link under one of the tags given out there.
DeliveryInv ==
    /\ IsFiniteSet(unacked)
    /\ \A u \in unacked : /\ u.link \in Links /\ u.msg \in Msgs /\ u.tag \in Nat
                          /\ Open(u.link) /\ u.tag <= links[u.link].tags
    /\ \A r \in runs : /\ r.via \in Links /\ r.msg \in Msgs /\ r.tag \in Nat
                       /\ links[r.via].state # "unused"

\* One loop at a time, with no other link in use but the one it restores.
OneLoop ==
    /\ \A p, q \in Loops : Running(p) /\ Running(q) => p = q
    /\ \A p \in Loops : Running(p) /\ current # 0 =>
          Restoring(procs[p]) /\ procs[p].link = current
    /\ canceller.link # 0 /\ Open(canceller.link) =>
          /\ current = 0
          /\ \A p \in Loops : Running(p) =>
                Restoring(procs[p]) /\ procs[p].link = canceller.link

Known(l) == \/ l = current \/ l = closer.link \/ l = canceller.link
            \/ \E p \in Loops : Bringing(p) /\ procs[p].link = l
KnownInv == \A l \in Links : Open(l) => Known(l)

\* The tag of a run is, on the link it will settle on, that of its own delivery.
MatchInv == \A r \in runs : Open(r.via) =>
    /\ r.tag <= links[r.via].tags
    /\ \A u \in unacked : u.link = r.via /\ u.tag = r.tag => u.msg = r.msg

AckInv == \A m \in Msgs : queue[m] = "acked" => m \in handled

\* What holds while no loop began beside the other, or beside a link in use.
Undisturbed == ~crossed => OneLoop /\ KnownInv /\ MatchInv /\ AckInv

RabbitInv == TypeOK /\ ProcsInv /\ HeldLinksInv /\ DeliveryInv /\ Undisturbed

\* The initial states satisfy RabbitInv.
LEMMA RabbitInitInv == Init => RabbitInv
<1>. SUFFICES ASSUME Init PROVE RabbitInv
  OBVIOUS
<1>. USE RabbitAssumption DEF Init
<1>1. Idle \in Proc
  BY DEF Idle, Proc
<1>2. Unused \in Link
  BY DEF Unused, Link
<1>0. queue \in [Msgs -> {"none", "ready"}]
  OBVIOUS
<1>3. TypeOK
  <2>1. /\ 0 \in 0 .. MaxLinks /\ queue \in [Msgs -> {"none", "ready", "out", "acked", "dropped"}]
        /\ links \in [Links -> Link] /\ procs \in [Procs -> Proc]
    BY <1>0, <1>1, <1>2
  <2>. QED
    BY <2>1 DEF TypeOK
<1>4. ProcsInv
  BY DEF ProcsInv, Placed, OnLinkInv, BringingInv, OnLink, Bringing, Restoring, Procs, Idle
<1>5. HeldLinksInv
  BY DEF HeldLinksInv
<1>6. DeliveryInv
  BY FS_EmptySet DEF DeliveryInv
<1>7. Undisturbed
  BY <1>0 DEF Undisturbed, OneLoop, KnownInv, MatchInv, AckInv, Open, Unused, Running, Procs, Idle
<1>. QED
  BY <1>3, <1>4, <1>5, <1>6, <1>7 DEF RabbitInv

------------------------------------------------------------------------------
(* What a process is, and may become                                       *)

\* The states a procedure starts and waits in.
LEMMA ProcStates ==
    /\ Loops \subseteq Procs /\ Subs \subseteq Procs /\ Loops \cap Subs = {}
    /\ \A p \in Procs : p \in Loops \/ p \in Subs
    /\ Idle \in Proc /\ Idle.pc = "idle" /\ Idle.link = 0
    /\ \A n \in 0 .. Attempts : Connecting(n) \in Proc /\ Connecting(n).pc = "connecting"
    /\ \A n \in 0 .. Attempts : /\ [Idle EXCEPT !.pc = "delay", !.attempt = n] \in Proc
                                /\ [Idle EXCEPT !.pc = "delay", !.attempt = n].pc = "delay"
                                /\ [Idle EXCEPT !.pc = "delay", !.attempt = n].attempt = n
    /\ 0 \in 0 .. MaxLinks /\ 0 \in 0 .. Attempts /\ 1 \in 0 .. Attempts
    /\ \A l \in Links : l # 0 /\ l \in 0 .. MaxLinks
    /\ \A l \in 0 .. MaxLinks : l # 0 => l \in Links
<1>1. Loops \subseteq Procs /\ Subs \subseteq Procs /\ Loops \cap Subs = {}
      /\ \A p \in Procs : p \in Loops \/ p \in Subs
  BY RabbitAssumption DEF Loops, Procs
<1>2. 0 \in 0 .. MaxLinks /\ 0 \in 0 .. Attempts /\ 1 \in 0 .. Attempts
  BY RabbitAssumption
<1>3. Idle \in Proc /\ Idle.pc = "idle" /\ Idle.link = 0
  BY <1>2 DEF Idle, Proc
<1>4. \A n \in 0 .. Attempts : Connecting(n) \in Proc /\ Connecting(n).pc = "connecting"
  BY <1>3 DEF Connecting, Proc
<1>5. \A n \in 0 .. Attempts : /\ [Idle EXCEPT !.pc = "delay", !.attempt = n] \in Proc
                               /\ [Idle EXCEPT !.pc = "delay", !.attempt = n].pc = "delay"
                               /\ [Idle EXCEPT !.pc = "delay", !.attempt = n].attempt = n
  BY <1>3 DEF Proc
<1>6. (\A l \in Links : l # 0 /\ l \in 0 .. MaxLinks) /\ \A l \in 0 .. MaxLinks : l # 0 => l \in Links
  BY RabbitAssumption DEF Links
<1>. QED
  BY <1>1, <1>2, <1>3, <1>4, <1>5, <1>6

\* A process that begins to restore a subscription.
LEMMA BeginsState ==
    ASSUME NEW proc \in Proc, NEW s \in Subs, NEW gs \in [Groups -> Objects \cup {NoGroup}]
    PROVE  /\ Begins(proc, s, gs) \in Proc
           /\ Restoring(Begins(proc, s, gs))
           /\ Begins(proc, s, gs).pc \in {"queue", "bind"}
           /\ Begins(proc, s, gs).sub # {}
           /\ Begins(proc, s, gs).pc = "bind" => Begins(proc, s, gs).obj \in Objects
           /\ Begins(proc, s, gs).link = proc.link
<1>1. GroupOf[s] \in Groups
  BY RabbitAssumption
<1>2. gs[GroupOf[s]] \in Objects \cup {NoGroup}
  BY <1>1
<1>. DEFINE b == [proc EXCEPT !.sub = {s}, !.visited = proc.visited \cup {s},
                              !.obj = gs[GroupOf[s]]]
<1>3. b \in Proc /\ b.sub = {s} /\ b.obj = gs[GroupOf[s]] /\ b.link = proc.link
  BY <1>2 DEF Proc
<1>4. Begins(proc, s, gs) = [b EXCEPT !.pc = IF gs[GroupOf[s]] = NoGroup THEN "queue" ELSE "bind"]
  BY DEF Begins
<1>. HIDE DEF b
<1>5. CASE gs[GroupOf[s]] = NoGroup
  <2>1. Begins(proc, s, gs) = [b EXCEPT !.pc = "queue"]
    BY <1>4, <1>5
  <2>. QED
    BY <1>3, <2>1 DEF Proc, Restoring
<1>6. CASE gs[GroupOf[s]] # NoGroup
  <2>1. Begins(proc, s, gs) = [b EXCEPT !.pc = "bind"]
    BY <1>4, <1>6
  <2>. QED
    BY <1>2, <1>3, <1>6, <2>1 DEF Proc, Restoring
<1>. QED
  BY <1>5, <1>6

\* Where a process goes in a step: to no link, on over its own, or to the current one.
Moves(p) ==
    \/ ~OnLink(p)'
    \/ OnLink(p) /\ procs'[p].link = procs[p].link /\ (Bringing(p)' => Bringing(p))
    \/ current # 0 /\ procs'[p].link = current /\ ~Bringing(p)'

\* Nothing of what a loop's own link is asked for is lost with this link.
Bears(l) == (Bare(l) => Bare(l)') /\ (Open(l)' => Open(l) /\ links'[l].heard = links[l].heard)

\* A link that is held was held before, or it was brought up by a process that goes on.
Holds(l) == \/ l \in {0, current, closer.link, canceller.link}
            \/ \E p \in Procs : Bringing(p) /\ ~Bringing(p)' /\ procs[p].link = l

\* ProcsInv holds after a step that places and moves every procedure as it asks.
LEMMA ProcsKept ==
    ASSUME ProcsInv, current \in 0 .. MaxLinks,
           \A p \in Procs : Placed(p)' /\ Moves(p),
           \A l \in Links : links[l].state # "unused" => links'[l].state # "unused",
           \A p \in Procs, l \in Links : Bringing(p) /\ procs[p].link = l => Bears(l),
           Holds(current'), Holds(closer'.link), Holds(canceller'.link),
           current # 0 => links[current].state # "unused"
    PROVE  ProcsInv'
<1>. USE DEF ProcsInv
<1>1. ASSUME NEW p \in Procs PROVE OnLinkInv(p)'
  <2>1. SUFFICES ASSUME OnLink(p)'
                 PROVE  procs'[p].link \in Links /\ links'[procs'[p].link].state # "unused"
    BY DEF OnLinkInv
  <2>2. CASE OnLink(p) /\ procs'[p].link = procs[p].link
    BY <2>2 DEF OnLinkInv
  <2>3. CASE current # 0 /\ procs'[p].link = current
    BY <2>3, ProcStates
  <2>. QED
    BY <2>1, <2>2, <2>3 DEF Moves
<1>2. ASSUME NEW p \in Procs, Bringing(p)' PROVE Bringing(p) /\ procs'[p].link = procs[p].link
  BY <1>2 DEF Moves, OnLink
<1>3. ASSUME NEW p \in Procs, Bringing(p)'
      PROVE  /\ \A q \in Procs : OnLink(q)' /\ procs'[q].link = procs'[p].link => q = p
             /\ procs'[p].link \notin {current', closer'.link, canceller'.link}
             /\ Bare(procs[p].link)'
             /\ Open(procs[p].link)' => links'[procs'[p].link].heard
  <2>1. Bringing(p) /\ procs'[p].link = procs[p].link /\ OnLink(p) /\ procs[p].link # 0
    BY <1>2, <1>3, ProcStates DEF OnLink, OnLinkInv
  <2>2. BringingInv(p)
    BY <2>1
  <2>3. ASSUME NEW q \in Procs, OnLink(q)', procs'[q].link = procs'[p].link PROVE q = p
    BY <2>1, <2>2, <2>3 DEF Moves, BringingInv
  <2>4. ASSUME NEW l, Holds(l) PROVE procs[p].link # l
    BY <1>3, <2>1, <2>2, <2>4 DEF Holds, BringingInv, OnLink
  <2>5. ASSUME NEW l \in Links, procs[p].link = l
        PROVE  Bare(l)' /\ (Open(l)' => links'[l].heard)
    BY <2>1, <2>2, <2>5 DEF BringingInv, Bears
  <2>6. PICK l \in Links : procs[p].link = l /\ procs'[p].link = l
    BY <2>1 DEF OnLinkInv
  <2>7. Bare(procs[p].link)' /\ (Open(procs[p].link)' => links'[procs'[p].link].heard)
    BY <2>5, <2>6 DEF Bare, Open
  <2>. QED
    BY <2>1, <2>3, <2>4, <2>7
<1>4. ASSUME NEW p \in Procs PROVE BringingInv(p)'
  BY <1>2, <1>3 DEF BringingInv
<1>. QED
  BY <1>1, <1>4

\* A call that is, and stays, without a link: it waits, or is told of what it waited for.
Aside(p) == p \in Subs /\ ~OnLink(p)' /\ Placed(p)'

\* A procedure that stands still, or leaves for the side, is placed.
LEMMA UnmovedProc ==
    ASSUME ProcsInv, NEW p \in Procs, procs'[p] = procs[p] \/ Aside(p)
    PROVE  Placed(p)' /\ Moves(p)
BY DEF ProcsInv, Placed, Moves, Aside, OnLink, Bringing

\* What the end of a connection loop leaves.
LEMMA LoopEndsState ==
    ASSUME RabbitInv, NEW task \in Loops, NEW o \in {"resolved", "rejected"}, LoopEnds(task, o)
    PROVE  /\ procs' \in [Procs -> Proc]
           /\ procs'[task].pc = "idle"
           /\ \A p \in Procs \ {task} : procs'[p] = procs[p] \/ Aside(p)
           /\ \A p \in Loops \ {task} : procs'[p] = procs[p]
           /\ \A p \in Procs : Placed(p)' /\ Moves(p)
<1>. DEFINE stops == [procs EXCEPT ![task] = Idle]
<1>1. procs \in [Procs -> Proc] /\ ProcsInv
  BY DEF RabbitInv, TypeOK
<1>2. stops \in [Procs -> Proc] /\ stops[task] = Idle /\ \A p \in Procs \ {task} : stops[p] = procs[p]
  BY <1>1, ProcStates
<1>3. /\ procs' \in [Procs -> Proc]
      /\ procs'[task].pc = "idle"
      /\ \A p \in Procs \ {task} :
            \/ procs'[p] = procs[p]
            \/ procs[p].pc = "waiting" /\ procs'[p].pc = o
  <2>. HIDE DEF stops
  <2>1. CASE procs' = stops
    BY <1>2, <2>1, ProcStates
  <2>2. CASE procs' = Resumed(stops, o)
    <3>1. \A p \in Procs : procs'[p] = IF stops[p].pc = "waiting" THEN [stops[p] EXCEPT !.pc = o]
                                       ELSE stops[p]
      BY <2>2 DEF Resumed
    <3>2. \A p \in Procs : /\ procs'[p] \in Proc
                           /\ stops[p].pc = "waiting" => procs'[p].pc = o
                           /\ stops[p].pc # "waiting" => procs'[p] = stops[p]
      BY <1>2, <3>1 DEF Proc
    <3>3. procs' \in [Procs -> Proc]
      <4>1. procs' = [p \in Procs |-> procs'[p]]
        BY <2>2 DEF Resumed
      <4>. QED
        BY <3>2, <4>1
    <3>4. procs'[task].pc = "idle"
      BY <1>2, <3>2, ProcStates
    <3>5. \A p \in Procs \ {task} :
             \/ procs'[p] = procs[p]
             \/ procs[p].pc = "waiting" /\ procs'[p].pc = o
      BY <1>2, <3>2
    <3>. QED
      BY <3>3, <3>4, <3>5
  <2>. QED
    BY <2>1, <2>2 DEF LoopEnds, stops
<1>4. ASSUME NEW p \in Procs \ {task} PROVE procs'[p] = procs[p] \/ Aside(p)
  <2>1. CASE procs[p].pc = "waiting" /\ procs'[p].pc = o
    <3>1. p \in Subs /\ p \notin Loops
      BY <1>1, <2>1, ProcStates DEF ProcsInv, Placed
    <3>. QED
      BY <2>1, <3>1 DEF Aside, OnLink, Bringing, Restoring, Placed
  <2>. QED
    BY <1>3, <2>1
<1>5. \A p \in Loops \ {task} : procs'[p] = procs[p]
  BY <1>4, ProcStates DEF Aside
<1>6. Placed(task)' /\ Moves(task)
  BY <1>3, ProcStates DEF Placed, Moves, OnLink, Bringing, Restoring
<1>7. \A p \in Procs \ {task} : Placed(p)' /\ Moves(p)
  BY <1>1, <1>4, UnmovedProc
<1>. QED
  BY <1>3, <1>4, <1>5, <1>6, <1>7

\* One process goes on in its own place.
LEMMA ProcState ==
    ASSUME RabbitInv, NEW p \in Procs, NEW s \in Proc, procs' = [procs EXCEPT ![p] = s]
    PROVE  /\ procs' \in [Procs -> Proc]
           /\ procs'[p] = s
           /\ \A q \in Procs \ {p} : procs'[q] = procs[q]
           /\ Placed(p)' /\ Moves(p) => \A q \in Procs : Placed(q)' /\ Moves(q)
<1>1. procs \in [Procs -> Proc] /\ ProcsInv
  BY DEF RabbitInv, TypeOK
<1>2. /\ procs' \in [Procs -> Proc]
      /\ procs'[p] = s
      /\ \A q \in Procs \ {p} : procs'[q] = procs[q]
  BY <1>1
<1>. QED
  BY <1>1, <1>2, UnmovedProc

------------------------------------------------------------------------------
(* One loop at a time                                                      *)

\* A loop goes on as it was, restores on over the same link, or is done.
LEMMA OneLoopKept ==
    ASSUME OneLoop,
           \A p \in Loops : \/ procs'[p] = procs[p]
                            \/ ~Running(p)'
                            \/ /\ Restoring(procs[p]) /\ Restoring(procs[p])'
                               /\ procs'[p].link = procs[p].link,
           current' \in {0, current},
           \/ canceller'.link = 0
           \/ canceller'.link = canceller.link /\ (Open(canceller.link)' => Open(canceller.link))
    PROVE  OneLoop'
<1>1. \A p \in Loops : Running(p)' => /\ Running(p)
                                     /\ (Restoring(procs[p]) => Restoring(procs[p])')
                                     /\ procs'[p].link = procs[p].link
  BY DEF Running, Restoring
<1>2. \A p, q \in Loops : Running(p)' /\ Running(q)' => p = q
  BY <1>1 DEF OneLoop
<1>3. \A p \in Loops : Running(p)' /\ current' # 0 =>
         Restoring(procs[p])' /\ procs'[p].link = current'
  BY <1>1 DEF OneLoop
<1>4. canceller'.link # 0 /\ (Open(canceller.link))' => canceller.link # 0 /\ Open(canceller.link)
  OBVIOUS
<1>. QED
  BY <1>1, <1>2, <1>3, <1>4 DEF OneLoop

\* A loop runs alone, with no link in use beside it.
LEMMA OneLoopAlone ==
    ASSUME NEW p \in Loops, \A q \in Loops \ {p} : ~Running(q)',
           current' = 0,
           \/ canceller'.link = 0
           \/ ~Open(canceller.link)' /\ canceller'.link = canceller.link
    PROVE  OneLoop'
BY DEF OneLoop, Open

\* What a loop that does not restore yet knows of the rest.
LEMMA RunsAlone ==
    ASSUME OneLoop, NEW p \in Loops, Running(p), ~Restoring(procs[p])
    PROVE  /\ \A q \in Loops \ {p} : ~Running(q)
           /\ current = 0
           /\ canceller.link = 0 \/ ~Open(canceller.link)
BY DEF OneLoop

------------------------------------------------------------------------------
(* Steps of the processes that leave the links as they are                 *)

\* A step of the procedures that leaves links and broker alone keeps RabbitInv.
LEMMA ProcStepInv ==
    ASSUME RabbitInv,
           procs' \in [Procs -> Proc],
           \A p \in Procs : Placed(p)' /\ Moves(p),
           subscriptions' \subseteq Subs,
           groups' \in [Groups -> Objects \cup {NoGroup}],
           UNCHANGED <<current, links, closeVars, brokerVars, handlerVars>>,
           crossed' \in BOOLEAN, disposed' \in BOOLEAN,
           faults' = faults \/ Faulty,
           \/ disposed' = disposed
           \/ closer.pc # "closing" /\ ~disposed',
           ~crossed' => ~crossed /\ OneLoop',
           \A p \in Loops : Bringing(p) /\ Open(procs[p].link) =>
              Bringing(p)' /\ procs'[p].link = procs[p].link
    PROVE  RabbitInv'
<1>. USE DEF RabbitInv, closeVars, brokerVars, handlerVars
<1>1. TypeOK'
  BY DEF TypeOK
<1>2. ProcsInv'
  <2>1. \A l \in Links : Bears(l)
    BY DEF Bears, Bare, Open
  <2>2. current # 0 => links[current].state # "unused"
    BY DEF HeldLinksInv, Open
  <2>3. Holds(current') /\ Holds(closer'.link) /\ Holds(canceller'.link)
    BY DEF Holds
  <2>. QED
    BY <2>1, <2>2, <2>3, ProcsKept DEF TypeOK
<1>3. HeldLinksInv' /\ DeliveryInv'
  BY DEF HeldLinksInv, DeliveryInv, Open
<1>4. Undisturbed'
  <2>1. SUFFICES ASSUME ~crossed' PROVE KnownInv' /\ MatchInv' /\ AckInv'
    BY DEF Undisturbed
  <2>2. KnownInv /\ MatchInv /\ AckInv
    BY <2>1 DEF Undisturbed
  <2>3. KnownInv'
    <3>. SUFFICES ASSUME NEW l \in Links, Open(l)' PROVE Known(l)'
      BY DEF KnownInv
    <3>1. Open(l) /\ Known(l)
      BY <2>2 DEF KnownInv, Open
    <3>2. ASSUME NEW p \in Loops, Bringing(p), procs[p].link = l
          PROVE  Bringing(p)' /\ procs'[p].link = l
      BY <3>1, <3>2
    <3>. QED
      BY <3>1, <3>2 DEF Known
  <2>. QED
    BY <2>2, <2>3 DEF MatchInv, AckInv, Open
<1>. QED
  BY <1>1, <1>2, <1>3, <1>4

\* The processes go on, and a loop that runs does so over the link it had, or stays as it is.
Carries ==
    /\ procs' \in [Procs -> Proc]
    /\ \A p \in Procs : Placed(p)' /\ Moves(p)
    /\ \A p \in Loops : \/ procs'[p] = procs[p]
                        \/ ~Running(p)'
                        \/ /\ Restoring(procs[p]) /\ Restoring(procs[p])'
                           /\ procs'[p].link = procs[p].link
    /\ \A p \in Loops : Bringing(p) /\ Open(procs[p].link) =>
          Bringing(p)' /\ procs'[p].link = procs[p].link

\* A step after which the loops carry what they held keeps RabbitInv.
LEMMA CarriesInv ==
    ASSUME RabbitInv, Carries,
           subscriptions' \subseteq Subs,
           groups' \in [Groups -> Objects \cup {NoGroup}],
           UNCHANGED <<disposed, crossed, current, links, closeVars, brokerVars, handlerVars>>,
           faults' = faults \/ Faulty
    PROVE  RabbitInv'
<1>1. ~crossed' => ~crossed /\ OneLoop'
  <2>1. SUFFICES ASSUME ~crossed PROVE OneLoop'
    OBVIOUS
  <2>2. OneLoop
    BY <2>1 DEF RabbitInv, Undisturbed
  <2>3. current' = current /\ canceller'.link = canceller.link
        /\ (Open(canceller.link)' => Open(canceller.link))
    BY DEF closeVars, Open
  <2>. QED
    BY <2>2, <2>3, OneLoopKept DEF Carries
<1>2. crossed \in BOOLEAN /\ disposed \in BOOLEAN
  BY DEF RabbitInv, TypeOK
<1>. QED
  BY <1>1, <1>2, ProcStepInv DEF Carries

\* The process restores on.
LEMMA RestoresOn ==
    ASSUME RabbitInv, NEW p \in Procs, NEW s \in Proc, procs' = [procs EXCEPT ![p] = s],
           Restoring(procs[p]), Restoring(s), s.link = procs[p].link, s.sub # {},
           s.pc \in {"bind", "attach"} => s.obj \in Objects
    PROVE  Carries
<1>1. /\ procs' \in [Procs -> Proc] /\ procs'[p] = s
      /\ \A q \in Procs \ {p} : procs'[q] = procs[q]
      /\ Placed(p)' /\ Moves(p) => \A q \in Procs : Placed(q)' /\ Moves(q)
  BY ProcState
<1>2. Placed(p)' /\ Moves(p)
  BY <1>1 DEF Placed, Moves, OnLink, Bringing, Restoring
<1>3. \A q \in Loops : q \in Procs /\ (q = p \/ procs'[q] = procs[q])
  BY <1>1, ProcStates
<1>4. Restoring(procs[p])' /\ ~Bringing(p)
  BY <1>1 DEF Restoring, Bringing
<1>5. \A q \in Loops : \/ procs'[q] = procs[q]
                      \/ /\ Restoring(procs[q]) /\ Restoring(procs[q])'
                         /\ procs'[q].link = procs[q].link
  BY <1>1, <1>3, <1>4
<1>6. \A q \in Loops : Bringing(q) => Bringing(q)' /\ procs'[q].link = procs[q].link
  BY <1>3, <1>4 DEF Bringing
<1>. QED
  BY <1>1, <1>2, <1>5, <1>6 DEF Carries

\* A call takes a link, or leaves the one it had.
LEMMA CallStep ==
    ASSUME RabbitInv, NEW s \in Subs, NEW x \in Proc, procs' = [procs EXCEPT ![s] = x],
           \/ x.pc = "idle"
           \/ /\ current # 0 /\ x.link = current /\ x.sub # {}
              /\ x.pc \in {"queue", "bind"} /\ (x.pc = "bind" => x.obj \in Objects)
    PROVE  Carries
<1>1. /\ procs' \in [Procs -> Proc] /\ procs'[s] = x /\ s \in Procs /\ s \notin Loops
      /\ \A q \in Procs \ {s} : procs'[q] = procs[q]
      /\ Placed(s)' /\ Moves(s) => \A q \in Procs : Placed(q)' /\ Moves(q)
  BY ProcState, ProcStates
<1>2. Placed(s)' /\ Moves(s)
  BY <1>1 DEF Placed, Moves, OnLink, Bringing, Restoring
<1>3. \A q \in Loops : procs'[q] = procs[q]
  BY <1>1, ProcStates
<1>. QED
  BY <1>1, <1>2, <1>3 DEF Carries, Bringing

\* A loop is done.
LEMMA LoopEndsCarries ==
    ASSUME RabbitInv, NEW task \in Loops, NEW o \in {"resolved", "rejected"}, LoopEnds(task, o),
           Bringing(task) => ~Open(procs[task].link)
    PROVE  Carries
<1>1. /\ procs' \in [Procs -> Proc] /\ procs'[task].pc = "idle"
      /\ \A p \in Loops \ {task} : procs'[p] = procs[p]
      /\ \A p \in Procs : Placed(p)' /\ Moves(p)
  BY LoopEndsState
<1>2. ~Running(task)'
  BY <1>1 DEF Running
<1>3. \A q \in Loops : q = task \/ procs'[q] = procs[q]
  BY <1>1
<1>4. \A q \in Loops : procs'[q] = procs[q] \/ ~Running(q)'
  BY <1>2, <1>3
<1>5. \A q \in Loops : Bringing(q) /\ Open(procs[q].link) =>
         Bringing(q)' /\ procs'[q].link = procs[q].link
  BY <1>3 DEF Bringing
<1>. QED
  BY <1>1, <1>4, <1>5 DEF Carries

\* A loop takes up the next subscription, or is done.
LEMMA RestoresNextState ==
    ASSUME RabbitInv, NEW task \in Loops, NEW gs \in [Groups -> Objects \cup {NoGroup}],
           RestoresNext(task, procs[task], gs)
    PROVE  \/ LoopEnds(task, "resolved")
           \/ \E s \in Proc : /\ procs' = [procs EXCEPT ![task] = s]
                              /\ Restoring(s) /\ s.link = procs[task].link /\ s.sub # {}
                              /\ s.pc \in {"bind", "attach"} => s.obj \in Objects
<1>1. SUFFICES ASSUME ~LoopEnds(task, "resolved")
               PROVE  \E s \in Proc : /\ procs' = [procs EXCEPT ![task] = s]
                                      /\ Restoring(s) /\ s.link = procs[task].link /\ s.sub # {}
                                      /\ s.pc \in {"bind", "attach"} => s.obj \in Objects
  OBVIOUS
<1>2. PICK t \in subscriptions : procs' = [procs EXCEPT ![task] = Begins(procs[task], t, gs)]
  BY <1>1 DEF RestoresNext
<1>3. t \in Subs /\ procs[task] \in Proc
  BY ProcStates DEF RabbitInv, TypeOK
<1>4. /\ Begins(procs[task], t, gs) \in Proc /\ Restoring(Begins(procs[task], t, gs))
      /\ Begins(procs[task], t, gs).pc \in {"queue", "bind"}
      /\ Begins(procs[task], t, gs).sub # {}
      /\ Begins(procs[task], t, gs).pc = "bind" => Begins(procs[task], t, gs).obj \in Objects
      /\ Begins(procs[task], t, gs).link = procs[task].link
  BY <1>3, BeginsState
<1>. QED
  BY <1>2, <1>4

\* A restored consumer is carried by the link of the loop.
LEMMA RestoredCarries ==
    ASSUME RabbitInv, NEW p \in Procs, Restoring(procs[p]), Restored(p)
    PROVE  Carries
<1>1. CASE p \in Loops
  <2>1. RestoresNext(p, procs[p], groups) /\ groups \in [Groups -> Objects \cup {NoGroup}]
    BY <1>1 DEF Restored, RabbitInv, TypeOK
  <2>2. ~Bringing(p)
    BY DEF Restoring, Bringing
  <2>. QED
    BY <1>1, <2>1, <2>2, RestoresNextState, LoopEndsCarries, RestoresOn
<1>2. CASE p \notin Loops
  <2>1. p \in Subs /\ procs' = [procs EXCEPT ![p] = Idle]
    BY <1>2, ProcStates DEF Restored
  <2>. QED
    BY <2>1, ProcStates, CallStep
<1>. QED
  BY <1>1, <1>2

\* The subscription a procedure works on.
LEMMA SubOfState ==
    ASSUME NEW proc \in Proc, proc.sub # {}
    PROVE  SubOf(proc) \in Subs /\ GroupOf[SubOf(proc)] \in Groups
<1>1. SubOf(proc) \in proc.sub
  BY DEF SubOf
<1>2. proc.sub \subseteq Subs
  BY DEF Proc
<1>. QED
  BY <1>1, <1>2, RabbitAssumption

\* QueueAsserted keeps RabbitInv.
LEMMA QueueAssertedInv == ASSUME RabbitInv, NEW p \in Procs, QueueAsserted(p) PROVE RabbitInv'
<1>. DEFINE g == GroupOf[SubOf(procs[p])]
            obj == <<p, procs[p].link, g>>
<1>0. /\ procs \in [Procs -> Proc] /\ procs[p] \in Proc /\ procs[p].pc = "queue"
      /\ groups \in [Groups -> Objects \cup {NoGroup}] /\ subscriptions \subseteq Subs
  BY DEF RabbitInv, TypeOK, QueueAsserted
<1>1. procs[p].sub # {} /\ procs[p].link \in Links /\ Restoring(procs[p])
  BY <1>0 DEF RabbitInv, ProcsInv, Placed, OnLinkInv, OnLink, Restoring
<1>2. g \in Groups /\ obj \in Objects
  BY <1>0, <1>1, SubOfState DEF Objects
<1>3. /\ groups' = [groups EXCEPT ![g] = obj]
      /\ procs' = [procs EXCEPT ![p].pc = "bind", ![p].obj = obj]
      /\ UNCHANGED <<disposed, current, links, crossed, subscriptions, closeVars,
                     brokerVars, handlerVars, faults>>
  BY DEF QueueAsserted
<1>. HIDE DEF obj, g
<1>. DEFINE s == [procs[p] EXCEPT !.pc = "bind", !.obj = obj]
<1>4. procs' = [procs EXCEPT ![p] = s]
  BY <1>0, <1>3
<1>5. s \in Proc /\ s.pc = "bind" /\ s.obj = obj /\ s.link = procs[p].link /\ s.sub = procs[p].sub
  BY <1>0, <1>2 DEF Proc
<1>. HIDE DEF s
<1>6. Carries
  BY <1>1, <1>2, <1>4, <1>5, RestoresOn DEF Restoring
<1>7. groups' \in [Groups -> Objects \cup {NoGroup}]
  BY <1>0, <1>2, <1>3
<1>. QED
  BY <1>0, <1>3, <1>6, <1>7, CarriesInv

\* QueueBound keeps RabbitInv.
LEMMA QueueBoundInv == ASSUME RabbitInv, NEW p \in Procs, QueueBound(p) PROVE RabbitInv'
<1>0. /\ procs \in [Procs -> Proc] /\ procs[p] \in Proc /\ procs[p].pc = "bind"
      /\ groups \in [Groups -> Objects \cup {NoGroup}] /\ subscriptions \subseteq Subs
      /\ UNCHANGED <<connectionVars, subscriptions, closeVars, brokerVars, handlerVars, faults>>
  BY DEF RabbitInv, TypeOK, QueueBound
<1>1. procs[p].sub # {} /\ procs[p].obj \in Objects /\ Restoring(procs[p])
  BY <1>0 DEF RabbitInv, ProcsInv, Placed, Restoring
<1>2. Carries
  <2>1. CASE Restored(p)
    BY <1>1, <2>1, RestoredCarries
  <2>2. CASE procs' = [procs EXCEPT ![p].pc = "attach"]
    <3>. DEFINE s == [procs[p] EXCEPT !.pc = "attach"]
    <3>1. procs' = [procs EXCEPT ![p] = s]
      BY <2>2
    <3>2. s \in Proc /\ s.pc = "attach" /\ s.obj = procs[p].obj /\ s.link = procs[p].link
          /\ s.sub = procs[p].sub
      BY <1>0 DEF Proc
    <3>. HIDE DEF s
    <3>. QED
      BY <1>1, <3>1, <3>2, RestoresOn DEF Restoring
  <2>. QED
    BY <2>1, <2>2 DEF QueueBound
<1>. QED
  BY <1>0, <1>2, CarriesInv DEF connectionVars

------------------------------------------------------------------------------
(* The retry loops                                                         *)

\* A loop that runs goes on without a link: alone, as it was.
LEMMA LoopWaitsInv ==
    ASSUME RabbitInv, NEW task \in Loops, NEW s \in Proc, procs' = [procs EXCEPT ![task] = s],
           \/ s.pc = "connecting"
           \/ s.pc = "delay" /\ s.attempt < Attempts,
           Running(task),
           ~Restoring(procs[task]) \/ ~Open(procs[task].link),
           Bringing(task) => ~Open(procs[task].link),
           UNCHANGED <<connectionVars, subscriptions, closeVars, brokerVars, handlerVars>>,
           faults' = faults \/ Faulty
    PROVE  RabbitInv'
<1>1. /\ procs' \in [Procs -> Proc] /\ procs'[task] = s /\ task \in Procs /\ task \notin Subs
      /\ \A q \in Procs \ {task} : procs'[q] = procs[q]
      /\ Placed(task)' /\ Moves(task) => \A q \in Procs : Placed(q)' /\ Moves(q)
  BY ProcState, ProcStates
<1>2. Placed(task)' /\ Moves(task)
  BY <1>1 DEF Placed, Moves, OnLink, Bringing, Restoring
<1>3. \A q \in Loops \ {task} : procs'[q] = procs[q]
  BY <1>1, ProcStates
<1>4. ~crossed' => ~crossed /\ OneLoop'
  <2>1. SUFFICES ASSUME ~crossed PROVE OneLoop'
    BY DEF connectionVars
  <2>2. OneLoop /\ (current # 0 => Open(current))
    BY <2>1 DEF RabbitInv, Undisturbed, HeldLinksInv
  <2>3. /\ \A q \in Loops \ {task} : ~Running(q)
        /\ current = 0
        /\ canceller.link = 0 \/ ~Open(canceller.link)
    <3>1. CASE ~Restoring(procs[task])
      BY <2>2, <3>1, RunsAlone
    <3>2. CASE ~Open(procs[task].link)
      BY <2>2, <3>2 DEF OneLoop
    <3>. QED
      BY <3>1, <3>2
  <2>4. \A q \in Loops \ {task} : ~Running(q)'
    BY <1>3, <2>3 DEF Running
  <2>5. current' = 0 /\ canceller'.link = canceller.link
        /\ (canceller.link = 0 \/ ~Open(canceller.link)')
    BY <2>3 DEF connectionVars, closeVars, Open
  <2>. QED
    BY <2>4, <2>5, OneLoopAlone
<1>5. \A p \in Loops : Bringing(p) /\ Open(procs[p].link) =>
         Bringing(p)' /\ procs'[p].link = procs[p].link
  BY <1>3 DEF Bringing
<1>6. /\ crossed' \in BOOLEAN /\ disposed' \in BOOLEAN /\ disposed' = disposed
      /\ subscriptions' \subseteq Subs /\ groups' \in [Groups -> Objects \cup {NoGroup}]
  BY DEF RabbitInv, TypeOK, connectionVars
<1>. QED
  BY <1>1, <1>2, <1>4, <1>5, <1>6, ProcStepInv DEF connectionVars

\* The end of a loop keeps RabbitInv, whatever it was for.
LEMMA LoopEndsInv ==
    ASSUME RabbitInv, NEW task \in Loops, NEW o \in {"resolved", "rejected"}, LoopEnds(task, o),
           Bringing(task) => ~Open(procs[task].link),
           UNCHANGED <<connectionVars, subscriptions, closeVars, brokerVars, handlerVars>>,
           faults' = faults \/ Faulty
    PROVE  RabbitInv'
<1>1. subscriptions' \subseteq Subs /\ groups' \in [Groups -> Objects \cup {NoGroup}]
  BY DEF RabbitInv, TypeOK, connectionVars
<1>. QED
  BY <1>1, LoopEndsCarries, CarriesInv DEF connectionVars

\* An attempt that throws keeps RabbitInv.
LEMMA ThrowsInv ==
    ASSUME RabbitInv, NEW task \in Loops, AttemptThrows(task), Running(task),
           ~Restoring(procs[task]) \/ ~Open(procs[task].link),
           Bringing(task) => ~Open(procs[task].link),
           UNCHANGED <<connectionVars, subscriptions, closeVars, brokerVars, handlerVars>>,
           faults' = faults \/ Faulty
    PROVE  RabbitInv'
<1>1. CASE LoopEnds(task, "rejected")
  BY <1>1, LoopEndsInv
<1>2. CASE ~LoopEnds(task, "rejected")
  <2>1. procs[task].attempt \in 0 .. Attempts
    BY ProcStates DEF RabbitInv, TypeOK, Proc
  <2>. DEFINE s == [Idle EXCEPT !.pc = "delay", !.attempt = procs[task].attempt]
  <2>2. procs' = [procs EXCEPT ![task] = s] /\ procs[task].attempt # Attempts
    BY <1>2 DEF AttemptThrows
  <2>3. s \in Proc /\ s.pc = "delay" /\ s.attempt = procs[task].attempt
    BY <2>1, ProcStates
  <2>4. procs[task].attempt < Attempts
    BY <2>1, <2>2, RabbitAssumption
  <2>. HIDE DEF s
  <2>. QED
    BY <2>2, <2>3, <2>4, LoopWaitsInv
<1>. QED
  BY <1>1, <1>2

\* Refusals, failures and retries of a loop keep RabbitInv.
LEMMA LoopStepInv ==
    ASSUME RabbitInv, NEW task \in Loops,
           ConnectionRefused(task) \/ AttemptFails(task) \/ Retry(task)
    PROVE  RabbitInv'
<1>1. CASE ConnectionRefused(task)
  BY <1>1, ThrowsInv DEF ConnectionRefused, Running, Restoring, Bringing
<1>2. CASE AttemptFails(task)
  <2>1. ~Open(procs[task].link) /\ Running(task) /\ AttemptThrows(task)
        /\ UNCHANGED <<connectionVars, subscriptions, closeVars, brokerVars, handlerVars, faults>>
    BY <1>2 DEF AttemptFails, Doomed, Running, Restoring
  <2>. QED
    BY <2>1, ThrowsInv
<1>3. CASE Retry(task)
  <2>1. procs[task].pc = "delay" /\ Running(task) /\ ~Restoring(procs[task]) /\ ~Bringing(task)
        /\ UNCHANGED <<connectionVars, subscriptions, closeVars, brokerVars, handlerVars, faults>>
    BY <1>3 DEF Retry, Running, Restoring, Bringing
  <2>2. procs[task].attempt + 1 \in 0 .. Attempts
    <3>1. procs[task].attempt \in 0 .. Attempts /\ procs[task].attempt < Attempts
      BY <2>1, ProcStates DEF RabbitInv, TypeOK, Proc, ProcsInv, Placed
    <3>. QED
      BY <3>1, RabbitAssumption
  <2>3. CASE LoopEnds(task, "rejected")
    BY <2>1, <2>3, LoopEndsInv
  <2>4. CASE procs' = [procs EXCEPT ![task] = Connecting(procs[task].attempt + 1)]
    BY <2>1, <2>2, <2>4, ProcStates, LoopWaitsInv
  <2>. QED
    BY <1>3, <2>3, <2>4 DEF Retry
<1>. QED
  BY <1>1, <1>2, <1>3

------------------------------------------------------------------------------
(* initialize() and consume()                                              *)

\* A caller that starts or joins the initialization keeps RabbitInv.
LEMMA InitializesInv ==
    ASSUME RabbitInv, NEW ps \in [Procs -> Proc],
           \A q \in Loops : ps[q] = procs[q],
           \A q \in Subs : ps[q] = procs[q] \/ ps[q].pc = "waiting",
           Initializes(ps), CallerActs, current = 0, subscriptions' \subseteq Subs,
           UNCHANGED <<current, groups, links, closeVars, brokerVars, handlerVars, faults>>
    PROVE  RabbitInv'
<1>1. crossed \in BOOLEAN /\ disposed \in BOOLEAN /\ groups' \in [Groups -> Objects \cup {NoGroup}]
      /\ ProcsInv /\ "initialize" \in Loops
  BY DEF RabbitInv, TypeOK, Loops
<1>3. ASSUME NEW q \in Subs, procs'[q] = ps[q] PROVE Placed(q)' /\ Moves(q)
  <2>1. CASE procs'[q] = procs[q]
    BY <1>1, <2>1, ProcStates, UnmovedProc
  <2>2. CASE procs'[q].pc = "waiting"
    BY <2>2, ProcStates DEF Placed, Moves, OnLink, Bringing, Restoring
  <2>. QED
    BY <1>3, <2>1, <2>2
<1>4. CASE Running("initialize")
  <2>1. procs' = ps /\ UNCHANGED <<disposed, crossed>>
    BY <1>4 DEF Initializes
  <2>2. \A q \in Loops : procs'[q] = procs[q]
    BY <2>1
  <2>3. \A q \in Loops : Placed(q)' /\ Moves(q)
    BY <1>1, <2>2, ProcStates, UnmovedProc
  <2>4. Carries
    BY <1>3, <2>1, <2>2, <2>3, ProcStates DEF Carries, Bringing
  <2>. QED
    BY <1>1, <2>1, <2>4, CarriesInv
<1>5. CASE ~Running("initialize")
  <2>1. /\ ~disposed'
        /\ procs' = [ps EXCEPT !["initialize"] = Connecting(1)]
        /\ crossed' = (crossed \/ Running("recovery") \/ canceller.pc = "closing")
    BY <1>5 DEF Initializes
  <2>2. /\ procs' \in [Procs -> Proc] /\ procs'["initialize"].pc = "connecting"
        /\ \A q \in Procs \ {"initialize"} : procs'[q] = ps[q]
    BY <1>1, <2>1, ProcStates
  <2>3. \A q \in Loops \ {"initialize"} : procs'[q] = procs[q]
    BY <2>2, ProcStates
  <2>4. Placed("initialize")' /\ Moves("initialize")
    BY <1>1, <2>2, ProcStates DEF Placed, Moves, OnLink, Bringing, Restoring
  <2>5. \A q \in Procs : Placed(q)' /\ Moves(q)
    <3>1. \A q \in Loops \ {"initialize"} : Placed(q)' /\ Moves(q)
      BY <1>1, <2>3, ProcStates, UnmovedProc
    <3>2. \A q \in Subs : procs'[q] = ps[q]
      BY <1>1, <2>2, ProcStates
    <3>. QED
      BY <1>3, <2>4, <3>1, <3>2, ProcStates
  <2>6. ~crossed' => ~crossed /\ OneLoop'
    <3>1. SUFFICES ASSUME ~crossed' PROVE OneLoop'
      BY <2>1
    <3>2. ~Running("recovery") /\ canceller.pc # "closing"
      BY <2>1, <3>1
    <3>3. canceller'.link = 0
      BY <3>2 DEF RabbitInv, HeldLinksInv, closeVars
    <3>4. \A q \in Loops \ {"initialize"} : ~Running(q)'
      BY <2>3, <3>2 DEF Running, Loops
    <3>. QED
      BY <1>1, <3>3, <3>4, OneLoopAlone
  <2>7. \A p \in Loops : Bringing(p) /\ Open(procs[p].link) =>
           Bringing(p)' /\ procs'[p].link = procs[p].link
    BY <1>5, <2>3 DEF Bringing, Running
  <2>8. closer.pc # "closing" /\ disposed' \in BOOLEAN /\ crossed' \in BOOLEAN
    BY <1>1, <2>1 DEF CallerActs, Initializes
  <2>. QED
    BY <1>1, <2>1, <2>2, <2>5, <2>6, <2>7, <2>8, ProcStepInv
<1>. QED
  BY <1>4, <1>5

\* The calls initialize and consume keep RabbitInv.
LEMMA CallersInv ==
    ASSUME RabbitInv, Initialize \/ \E s \in Subs : ConsumeStep(s) PROVE RabbitInv'
<1>0. /\ procs \in [Procs -> Proc] /\ groups \in [Groups -> Objects \cup {NoGroup}]
      /\ subscriptions \subseteq Subs /\ current \in 0 .. MaxLinks
  BY DEF RabbitInv, TypeOK
<1>1. CASE Initialize
  BY <1>0, <1>1, InitializesInv DEF Initialize
<1>. DEFINE fresh == [Idle EXCEPT !.link = current]
<1>2. fresh \in Proc /\ fresh.link = current
  BY <1>0, ProcStates DEF Proc
<1>. HIDE DEF fresh
<1>3. ASSUME NEW s \in Subs, current # 0, procs' = [procs EXCEPT ![s] = Begins(fresh, s, groups)]
      PROVE  Carries
  <2>1. /\ Begins(fresh, s, groups) \in Proc
        /\ Begins(fresh, s, groups).pc \in {"queue", "bind"}
        /\ Begins(fresh, s, groups).sub # {}
        /\ Begins(fresh, s, groups).pc = "bind" => Begins(fresh, s, groups).obj \in Objects
        /\ Begins(fresh, s, groups).link = current
    BY <1>0, <1>2, BeginsState
  <2>. QED
    BY <1>3, <2>1, CallStep
<1>4. ASSUME NEW s \in Subs, procs' = [procs EXCEPT ![s] = Idle] PROVE Carries
  BY <1>4, ProcStates, CallStep
<1>5. ASSUME NEW s \in Subs, Consume(s) PROVE RabbitInv'
  <2>1. subscriptions' \subseteq Subs /\ CallerActs
        /\ UNCHANGED <<current, groups, links, closeVars, brokerVars, handlerVars, faults>>
    BY <1>0, <1>5 DEF Consume
  <2>2. CASE current = 0
    <3>. DEFINE w == [Idle EXCEPT !.pc = "waiting"]
                ps == [procs EXCEPT ![s] = w]
    <3>1. w \in Proc /\ w.pc = "waiting"
      BY ProcStates DEF Proc
    <3>2. Initializes(ps)
      BY <1>5, <2>2 DEF Consume
    <3>. HIDE DEF w
    <3>3. ps \in [Procs -> Proc] /\ ps[s] = w /\ \A q \in Procs \ {s} : ps[q] = procs[q]
      BY <1>0, <3>1, ProcStates
    <3>4. (\A q \in Loops : ps[q] = procs[q]) /\ \A q \in Subs : ps[q] = procs[q] \/ ps[q].pc = "waiting"
      BY <3>1, <3>3, ProcStates
    <3>. HIDE DEF ps
    <3>. QED
      BY <2>1, <2>2, <3>2, <3>3, <3>4, InitializesInv
  <2>3. CASE current # 0
    <3>1. procs' = [procs EXCEPT ![s] = Begins(fresh, s, groups)] /\ UNCHANGED <<disposed, crossed>>
      BY <1>5, <2>3 DEF Consume, fresh
    <3>. QED
      BY <1>0, <1>3, <2>1, <2>3, <3>1, CarriesInv
  <2>. QED
    BY <2>2, <2>3
<1>6. ASSUME NEW s \in Subs, ConsumeResumes(s) \/ ConsumeFails(s) PROVE RabbitInv'
  <2>1. subscriptions' \subseteq Subs /\ groups' = groups
        /\ UNCHANGED <<connectionVars, closeVars, brokerVars, handlerVars, faults>>
    BY <1>0, <1>6 DEF ConsumeResumes, ConsumeFails, ConsumeRejects, connectionVars
  <2>2. \/ procs' = [procs EXCEPT ![s] = Idle]
        \/ current # 0 /\ procs' = [procs EXCEPT ![s] = Begins(fresh, s, groups)]
    BY <1>6 DEF ConsumeResumes, ConsumeFails, ConsumeRejects, fresh
  <2>3. Carries
    BY <1>3, <1>4, <2>2
  <2>. QED
    BY <1>0, <2>1, <2>3, CarriesInv DEF connectionVars
<1>. QED
  BY <1>1, <1>5, <1>6 DEF ConsumeStep

------------------------------------------------------------------------------
(* Links close                                                             *)

\* What the loss of links leaves of the links and the queue.
LEMMA CloseLinksState ==
    ASSUME RabbitInv, NEW lost, CloseLinks(lost)
    PROVE  /\ links' \in [Links -> Link]
           /\ queue' \in [Msgs -> {"none", "ready", "out", "acked", "dropped"}]
           /\ unacked' = {u \in unacked : u.link \notin lost}
           /\ \A l \in Links :
                 /\ links'[l].state = "open" <=> links[l].state = "open" /\ l \notin lost
                 /\ links'[l].state = "unused" <=> links[l].state = "unused"
                 /\ links'[l].state = "open" => links'[l] = links[l]
                 /\ links'[l].heard => links[l].heard
                 /\ Bare(l) => Bare(l)'
           /\ \A m \in Msgs : queue'[m] = "acked" => queue[m] = "acked"
<1>0. /\ links \in [Links -> Link] /\ queue \in [Msgs -> {"none", "ready", "out", "acked", "dropped"}]
      /\ unacked' = {u \in unacked : u.link \notin lost}
      /\ links' = [l \in Links |-> IF l \in lost /\ Open(l) THEN ClosedLink(l) ELSE links[l]]
      /\ queue' = [m \in Msgs |-> IF \E u \in unacked : u.msg = m /\ u.link \in lost
                                 THEN "ready" ELSE queue[m]]
  BY DEF RabbitInv, TypeOK, CloseLinks
<1>1. ASSUME NEW l \in Links
      PROVE  /\ ClosedLink(l) \in Link /\ ClosedLink(l).state = "closed" /\ ~ClosedLink(l).heard
             /\ \A g \in Groups : ClosedLink(l).consumers[g] = 0
  <2>1. Unused \in Link /\ ~Unused.heard /\ \A g \in Groups : Unused.consumers[g] = 0
    BY RabbitAssumption DEF Unused, Link
  <2>2. links[l].tagged \cap InUse(l) \in SUBSET Objects
    BY <1>0 DEF Link
  <2>. QED
    BY <2>1, <2>2 DEF ClosedLink, Link
<1>2. ASSUME NEW l \in Links
      PROVE  /\ links'[l] \in Link
             /\ links'[l].state = "open" <=> links[l].state = "open" /\ l \notin lost
             /\ links'[l].state = "unused" <=> links[l].state = "unused"
             /\ links'[l].state = "open" => links'[l] = links[l]
             /\ links'[l].heard => links[l].heard
             /\ Bare(l) => Bare(l)'
  <2>1. links'[l] = IF l \in lost /\ Open(l) THEN ClosedLink(l) ELSE links[l]
    BY <1>0
  <2>2. Open(l) <=> links[l].state = "open"
    BY ProcStates DEF Open
  <2>3. CASE l \in lost /\ Open(l)
    BY <1>0, <1>1, <2>1, <2>2, <2>3 DEF Bare
  <2>4. CASE ~(l \in lost /\ Open(l))
    BY <1>0, <2>1, <2>2, <2>4 DEF Bare
  <2>. QED
    BY <2>3, <2>4
<1>3. links' \in [Links -> Link]
  BY <1>0, <1>2
<1>4. queue' \in [Msgs -> {"none", "ready", "out", "acked", "dropped"}]
      /\ \A m \in Msgs : queue'[m] = "acked" => queue[m] = "acked"
  BY <1>0
<1>. QED
  BY <1>0, <1>2, <1>3, <1>4

\* Links that close leave everything else as it was, or with what they were held by.
LEMMA LinksCloseInv ==
    ASSUME RabbitInv, NEW lost, CloseLinks(lost),
           procs' \in [Procs -> Proc],
           \A p \in Procs : Placed(p)' /\ Moves(p),
           \/ current' = current /\ current \notin lost
           \/ current' = 0 /\ current \in lost \cup {0},
           \/ closer' = closer
           \/ closer' = [pc |-> "done", link |-> 0] /\ closer.link \in lost,
           \/ canceller' = canceller
           \/ canceller' = [pc |-> "idle", link |-> 0] /\ canceller.link \in lost,
           groups' \in [Groups -> Objects \cup {NoGroup}],
           UNCHANGED <<subscriptions, disposed>>,
           crossed' \in BOOLEAN,
           faults' = faults \/ Faulty,
           runs' \subseteq runs, handled \subseteq handled', handled' \subseteq Msgs,
           ~crossed' => ~crossed /\ OneLoop',
           \A p \in Loops : Bringing(p) /\ Open(procs[p].link) =>
              \/ procs[p].link \in lost
              \/ Bringing(p)' /\ procs'[p].link = procs[p].link
    PROVE  RabbitInv'
<1>. USE DEF RabbitInv
<1>0. /\ links' \in [Links -> Link]
      /\ queue' \in [Msgs -> {"none", "ready", "out", "acked", "dropped"}]
      /\ unacked' = {u \in unacked : u.link \notin lost}
      /\ \A l \in Links :
            /\ links'[l].state = "open" <=> links[l].state = "open" /\ l \notin lost
            /\ links'[l].state = "unused" <=> links[l].state = "unused"
            /\ links'[l].state = "open" => links'[l] = links[l]
            /\ links'[l].heard => links[l].heard
            /\ Bare(l) => Bare(l)'
      /\ \A m \in Msgs : queue'[m] = "acked" => queue[m] = "acked"
  BY CloseLinksState
<1>1. TypeOK'
  <2>1. current' \in 0 .. MaxLinks
    BY ProcStates DEF TypeOK
  <2>2. \A u \in unacked' : u.link \in Links /\ u.msg \in Msgs
    BY <1>0 DEF TypeOK
  <2>. QED
    BY <1>0, <2>1, <2>2 DEF TypeOK
<1>2. ProcsInv'
  <2>1. \A l \in Links : Bears(l)
    BY <1>0 DEF Bears, Open
  <2>2. current # 0 => links[current].state # "unused"
    BY DEF HeldLinksInv, Open
  <2>3. Holds(current') /\ Holds(closer'.link) /\ Holds(canceller'.link)
    BY DEF Holds
  <2>. QED
    BY <1>0, <2>1, <2>2, <2>3, ProcsKept DEF TypeOK
<1>3. HeldLinksInv'
  <2>1. current' # 0 => Open(current)' /\ links'[current'].heard /\ ~disposed'
    <3>1. SUFFICES ASSUME current' # 0
                   PROVE  links'[current].state = "open" /\ links'[current].heard /\ ~disposed
      BY DEF Open
    <3>2. current \in Links /\ current \notin lost /\ links[current].state = "open"
          /\ links[current].heard /\ ~disposed
      BY <3>1, ProcStates DEF HeldLinksInv, TypeOK, Open
    <3>. QED
      BY <1>0, <3>2
  <2>2. /\ closer' \in [pc : {"idle", "closing", "done"}, link : 0 .. MaxLinks]
        /\ closer'.pc # "closing" => closer'.link = 0
        /\ closer'.pc = "closing" => disposed'
        /\ closer'.link # 0 => closer' = closer
    <3>1. 0 \in 0 .. MaxLinks
      BY ProcStates
    <3>2. CASE closer' = closer
      BY <3>2 DEF HeldLinksInv
    <3>3. CASE closer' = [pc |-> "done", link |-> 0]
      BY <3>1, <3>3
    <3>. QED
      BY <3>2, <3>3
  <2>3. closer.link # 0 => links'[closer.link].state # "unused" /\ ~links'[closer.link].heard
    <3>1. closer.link # 0 => closer.link \in Links
      BY ProcStates DEF HeldLinksInv
    <3>. QED
      BY <1>0, <3>1 DEF HeldLinksInv
  <2>4. /\ canceller' \in [pc : {"idle", "closing"}, link : 0 .. MaxLinks]
        /\ canceller'.pc = "idle" => canceller'.link = 0
        /\ canceller'.link # 0 => canceller' = canceller
    <3>1. 0 \in 0 .. MaxLinks
      BY ProcStates
    <3>2. CASE canceller' = canceller
      BY <3>2 DEF HeldLinksInv
    <3>3. CASE canceller' = [pc |-> "idle", link |-> 0]
      BY <3>1, <3>3
    <3>. QED
      BY <3>2, <3>3
  <2>5. canceller.link # 0 => links'[canceller.link].state # "unused" /\ ~links'[canceller.link].heard
    <3>1. canceller.link # 0 => canceller.link \in Links
      BY ProcStates DEF HeldLinksInv
    <3>. QED
      BY <1>0, <3>1 DEF HeldLinksInv
  <2>. QED
    BY <2>1, <2>2, <2>3, <2>4, <2>5 DEF HeldLinksInv
<1>4. DeliveryInv'
  <2>1. IsFiniteSet(unacked')
    BY <1>0, FS_Subset DEF DeliveryInv
  <2>2. ASSUME NEW u \in unacked'
        PROVE  /\ u.link \in Links /\ u.msg \in Msgs /\ u.tag \in Nat
               /\ Open(u.link)' /\ u.tag <= links'[u.link].tags
    <3>1. /\ u \in unacked /\ u.link \notin lost /\ u.link \in Links /\ u.msg \in Msgs /\ u.tag \in Nat
          /\ links[u.link].state = "open" /\ u.link # 0 /\ u.tag <= links[u.link].tags
      BY <1>0, <2>2 DEF DeliveryInv, Open
    <3>2. links'[u.link].state = "open" /\ links'[u.link] = links[u.link]
      BY <1>0, <3>1
    <3>. QED
      BY <3>1, <3>2 DEF Open
  <2>3. \A r \in runs' : /\ r.via \in Links /\ r.msg \in Msgs /\ r.tag \in Nat
                         /\ links'[r.via].state # "unused"
    BY <1>0 DEF DeliveryInv
  <2>. QED
    BY <2>1, <2>2, <2>3 DEF DeliveryInv
<1>5. Undisturbed'
  <2>1. SUFFICES ASSUME ~crossed' PROVE KnownInv' /\ MatchInv' /\ AckInv'
    BY DEF Undisturbed
  <2>2. KnownInv /\ MatchInv /\ AckInv
    BY <2>1 DEF Undisturbed
  <2>3. KnownInv'
    <3>. SUFFICES ASSUME NEW l \in Links, Open(l)' PROVE Known(l)'
      BY DEF KnownInv
    <3>1. Open(l) /\ Known(l) /\ l \notin lost /\ l # 0
      BY <1>0, <2>2 DEF KnownInv, Open
    <3>2. ASSUME NEW p \in Loops, Bringing(p), procs[p].link = l
          PROVE  Bringing(p)' /\ procs'[p].link = l
      BY <3>1, <3>2
    <3>. QED
      BY <3>1, <3>2 DEF Known
  <2>4. MatchInv'
    <3>. SUFFICES ASSUME NEW r \in runs', Open(r.via)'
                  PROVE  /\ r.tag <= links'[r.via].tags
                         /\ \A u \in unacked' : u.link = r.via /\ u.tag = r.tag => u.msg = r.msg
      BY DEF MatchInv
    <3>1. r \in runs /\ r.via \in Links
      BY DEF DeliveryInv
    <3>2. Open(r.via) /\ links'[r.via] = links[r.via]
      BY <1>0, <3>1 DEF Open
    <3>. QED
      BY <1>0, <2>2, <3>1, <3>2 DEF MatchInv
  <2>5. AckInv'
    BY <1>0, <2>2 DEF AckInv
  <2>. QED
    BY <2>3, <2>4, <2>5
<1>. QED
  BY <1>1, <1>2, <1>3, <1>4, <1>5

\* A recovery begins, or nothing changes.
LEMMA ScheduleState ==
    ASSUME RabbitInv, procs' = ScheduleRecovery(procs)
    PROVE  /\ procs' \in [Procs -> Proc]
           /\ \A p \in Procs : Placed(p)' /\ Moves(p)
           /\ \/ procs' = procs
              \/ procs' # procs /\ ~Running("recovery")
           /\ \A p \in Loops \ {"recovery"} : procs'[p] = procs[p]
           /\ \A p \in Loops : Bringing(p) => Bringing(p)' /\ procs'[p].link = procs[p].link
<1>1. procs \in [Procs -> Proc] /\ ProcsInv /\ "recovery" \in Loops
  BY DEF RabbitInv, TypeOK, Loops
<1>2. CASE procs' = procs
  BY <1>1, <1>2, UnmovedProc DEF Bringing
<1>3. CASE procs' # procs
  <2>1. procs' = [procs EXCEPT !["recovery"] = Connecting(1)] /\ procs["recovery"].pc = "idle"
        /\ ~Running("recovery")
    BY <1>3 DEF ScheduleRecovery, Running
  <2>2. /\ procs' \in [Procs -> Proc] /\ procs'["recovery"] = Connecting(1)
        /\ \A q \in Procs \ {"recovery"} : procs'[q] = procs[q]
        /\ Placed("recovery")' /\ Moves("recovery") => \A q \in Procs : Placed(q)' /\ Moves(q)
    <3>1. "recovery" \in Procs /\ Connecting(1) \in Proc
      BY <1>1, ProcStates
    <3>. QED
      BY <2>1, <3>1, ProcState
  <2>3. Placed("recovery")' /\ Moves("recovery")
    BY <1>1, <2>2, ProcStates DEF Placed, Moves, OnLink, Bringing, Restoring
  <2>4. \A p \in Loops \ {"recovery"} : procs'[p] = procs[p]
    BY <2>2, ProcStates
  <2>5. \A p \in Loops : Bringing(p) => p # "recovery"
    BY <2>1 DEF Bringing
  <2>. QED
    BY <1>3, <2>1, <2>2, <2>3, <2>4, <2>5 DEF Bringing
<1>. QED
  BY <1>2, <1>3

\* The close of a link that is heard finds no link in use beside it.
LEMMA HeardLink ==
    ASSUME RabbitInv, ~crossed, NEW l \in Links, Open(l), links[l].heard
    PROVE  canceller.link = 0 \/ ~Open(canceller.link)
<1>. SUFFICES ASSUME canceller.link # 0, Open(canceller.link) PROVE FALSE
  OBVIOUS
<1>1. OneLoop /\ Known(l) /\ HeldLinksInv /\ l # 0
  BY ProcStates DEF RabbitInv, Undisturbed, KnownInv
<1>2. current = 0 /\ \A p \in Loops : ~Bringing(p)
  BY <1>1 DEF OneLoop, Bringing, Restoring, Running
<1>. QED
  BY <1>1, <1>2 DEF Known, HeldLinksInv

\* The loss of a link keeps RabbitInv.
LEMMA LinkClosesInv ==
    ASSUME RabbitInv, NEW l \in Links, Open(l), LinkCloses(l),
           UNCHANGED <<disposed, subscriptions, closeVars>>,
           faults' = faults \/ Faulty,
           runs' \subseteq runs, handled \subseteq handled', handled' \subseteq Msgs
    PROVE  RabbitInv'
<1>0. /\ crossed \in BOOLEAN /\ current \in 0 .. MaxLinks
      /\ procs \in [Procs -> Proc] /\ groups \in [Groups -> Objects \cup {NoGroup}]
      /\ HeldLinksInv /\ ProcsInv
      /\ closer' = closer /\ canceller' = canceller
  BY DEF RabbitInv, TypeOK, closeVars
<1>1. CASE links[l].heard
  <2>1. /\ CloseLinks({l, current}) /\ current' = 0
        /\ groups' = [g \in Groups |-> NoGroup]
        /\ procs' = ScheduleRecovery(procs)
        /\ crossed' = (crossed \/ (procs' # procs /\ Running("initialize")))
    BY <1>1 DEF LinkCloses
  <2>2. ~crossed' => ~crossed /\ OneLoop'
    <3>1. SUFFICES ASSUME ~crossed' PROVE OneLoop'
      BY <2>1
    <3>2. ~crossed /\ OneLoop
      BY <2>1, <3>1 DEF RabbitInv, Undisturbed
    <3>3. canceller.link = 0 \/ ~Open(canceller.link)
      BY <1>1, <3>2, HeardLink
    <3>4. canceller.link # 0 => canceller.link \in Links
      BY <1>0, ProcStates DEF HeldLinksInv
    <3>5. Open(canceller.link)' => Open(canceller.link)
      BY <1>0, <2>1, <3>4, CloseLinksState DEF Open
    <3>6. CASE procs' = procs
      BY <1>0, <2>1, <3>2, <3>5, <3>6, OneLoopKept
    <3>7. CASE procs' # procs
      <4>1. ~Running("initialize") /\ "recovery" \in Loops
        BY <2>1, <3>1, <3>7 DEF Loops
      <4>2. \A q \in Loops \ {"recovery"} : ~Running(q)'
        BY <2>1, <4>1, ScheduleState DEF Running, Loops
      <4>3. canceller'.link = canceller.link /\ (canceller.link = 0 \/ ~Open(canceller.link)')
        BY <1>0, <3>3, <3>5
      <4>. QED
        BY <2>1, <4>1, <4>2, <4>3, OneLoopAlone
    <3>. QED
      BY <3>6, <3>7
  <2>3. groups' \in [Groups -> Objects \cup {NoGroup}] /\ crossed' \in BOOLEAN
    BY <1>0, <2>1
  <2>. QED
    BY <1>0, <2>1, <2>2, <2>3, ScheduleState, LinksCloseInv
<1>2. CASE ~links[l].heard
  <2>1. CloseLinks({l}) /\ UNCHANGED <<current, groups, procs, crossed>>
    BY <1>2 DEF LinkCloses
  <2>2. current \notin {l}
    BY <1>2, ProcStates, <1>0 DEF HeldLinksInv
  <2>3. ~crossed' => ~crossed /\ OneLoop'
    <3>1. SUFFICES ASSUME ~crossed PROVE OneLoop'
      BY <2>1
    <3>2. OneLoop
      BY <3>1 DEF RabbitInv, Undisturbed
    <3>4. canceller.link # 0 => canceller.link \in Links
      BY <1>0, ProcStates DEF HeldLinksInv
    <3>5. Open(canceller.link)' => Open(canceller.link)
      BY <1>0, <2>1, <3>4, CloseLinksState DEF Open
    <3>. QED
      BY <1>0, <2>1, <3>2, <3>5, OneLoopKept
  <2>4. \A p \in Procs : Placed(p)' /\ Moves(p)
    BY <1>0, <2>1, UnmovedProc
  <2>5. \A p \in Loops : Bringing(p) => Bringing(p)' /\ procs'[p].link = procs[p].link
    BY <2>1 DEF Bringing
  <2>6. procs' \in [Procs -> Proc] /\ groups' \in [Groups -> Objects \cup {NoGroup}] /\ crossed' \in BOOLEAN
    BY <1>0, <2>1
  <2>. QED
    BY <1>0, <2>1, <2>2, <2>3, <2>4, <2>5, <2>6, LinksCloseInv
<1>. QED
  BY <1>1, <1>2

\* LinkLost keeps RabbitInv.
LEMMA LinkLostInv == ASSUME RabbitInv, NEW l \in Links, LinkLost(l) PROVE RabbitInv'
<1>1. runs' = runs /\ handled' = handled /\ handled \subseteq Msgs
  BY DEF LinkLost, handlerVars, RabbitInv, TypeOK
<1>. QED
  BY <1>1, LinkClosesInv DEF LinkLost

\* LinkDropped keeps RabbitInv.
LEMMA LinkDroppedInv == ASSUME RabbitInv, NEW task \in Loops, LinkDropped(task) PROVE RabbitInv'
<1>0. /\ procs[task].pc = "dropping" /\ CloseLinks({procs[task].link, current})
      /\ current' = 0 /\ groups' = [g \in Groups |-> NoGroup]
      /\ LoopEnds(task, "resolved")
      /\ UNCHANGED <<disposed, crossed, subscriptions, faults>>
      /\ closer' = closer /\ canceller' = canceller /\ runs' = runs /\ handled' = handled
  BY DEF LinkDropped, closeVars, handlerVars
<1>1. crossed \in BOOLEAN /\ handled \subseteq Msgs /\ HeldLinksInv
  BY DEF RabbitInv, TypeOK
<1>2. /\ procs' \in [Procs -> Proc] /\ procs'[task].pc = "idle"
      /\ \A p \in Loops \ {task} : procs'[p] = procs[p]
      /\ \A p \in Procs : Placed(p)' /\ Moves(p)
  BY <1>0, LoopEndsState
<1>3. ~crossed' => ~crossed /\ OneLoop'
  <2>1. SUFFICES ASSUME ~crossed PROVE OneLoop'
    BY <1>0
  <2>2. OneLoop
    BY <2>1 DEF RabbitInv, Undisturbed
  <2>3. canceller.link # 0 => canceller.link \in Links
    BY <1>1, ProcStates DEF HeldLinksInv
  <2>4. Open(canceller.link)' => Open(canceller.link)
    BY <1>0, <2>3, CloseLinksState DEF Open
  <2>5. \A p \in Loops : procs'[p] = procs[p] \/ ~Running(p)'
    BY <1>2 DEF Running
  <2>. QED
    BY <1>0, <2>2, <2>4, <2>5, OneLoopKept
<1>4. \A p \in Loops : Bringing(p) =>
         \/ procs[p].link \in {procs[task].link, current}
         \/ Bringing(p)' /\ procs'[p].link = procs[p].link
  BY <1>2 DEF Bringing
<1>5. groups' \in [Groups -> Objects \cup {NoGroup}]
  BY <1>0
<1>. QED
  BY <1>0, <1>1, <1>2, <1>3, <1>4, <1>5, LinksCloseInv

\* close() closing the link it took keeps RabbitInv.
LEMMA ClosesLinkInv == ASSUME RabbitInv, ClosesLink PROVE RabbitInv'
<1>0. /\ closer.pc = "closing" /\ CloseLinks({closer.link})
      /\ closer' = [pc |-> "done", link |-> 0]
      /\ UNCHANGED <<disposed, current, groups, crossed, procs, subscriptions, canceller, faults>>
      /\ runs' = runs /\ handled' = handled
  BY DEF ClosesLink, handlerVars
<1>1. /\ crossed \in BOOLEAN /\ handled \subseteq Msgs /\ HeldLinksInv /\ ProcsInv
      /\ procs \in [Procs -> Proc] /\ groups \in [Groups -> Objects \cup {NoGroup}]
  BY DEF RabbitInv, TypeOK
<1>2. current = 0
  BY <1>0, <1>1 DEF HeldLinksInv
<1>3. ~crossed' => ~crossed /\ OneLoop'
  <2>1. SUFFICES ASSUME ~crossed PROVE OneLoop'
    BY <1>0
  <2>2. OneLoop
    BY <2>1 DEF RabbitInv, Undisturbed
  <2>3. canceller.link # 0 => canceller.link \in Links
    BY <1>1, ProcStates DEF HeldLinksInv
  <2>4. Open(canceller.link)' => Open(canceller.link)
    BY <1>0, <2>3, CloseLinksState DEF Open
  <2>. QED
    BY <1>0, <2>2, <2>4, OneLoopKept
<1>4. \A p \in Procs : Placed(p)' /\ Moves(p)
  BY <1>0, <1>1, UnmovedProc
<1>5. \A p \in Loops : Bringing(p) => Bringing(p)' /\ procs'[p].link = procs[p].link
  BY <1>0 DEF Bringing
<1>. QED
  BY <1>0, <1>1, <1>2, <1>3, <1>4, <1>5, LinksCloseInv

\* CancelRecovers keeps RabbitInv.
LEMMA CancelRecoversInv == ASSUME RabbitInv, CancelRecovers PROVE RabbitInv'
<1>0. /\ canceller.pc = "closing" /\ CloseLinks({canceller.link})
      /\ canceller' = [pc |-> "idle", link |-> 0]
      /\ procs' = ScheduleRecovery(procs)
      /\ crossed' = (crossed \/ (procs' # procs /\ (current # 0 \/ Running("initialize"))))
      /\ UNCHANGED <<disposed, current, groups, subscriptions, closer, faults>>
      /\ runs' = runs /\ handled' = handled
  BY DEF CancelRecovers, handlerVars
<1>1. /\ crossed \in BOOLEAN /\ handled \subseteq Msgs /\ HeldLinksInv
      /\ groups \in [Groups -> Objects \cup {NoGroup}]
  BY DEF RabbitInv, TypeOK
<1>2. current # 0 => current # canceller.link
  BY <1>1 DEF HeldLinksInv
<1>3. ~crossed' => ~crossed /\ OneLoop'
  <2>1. SUFFICES ASSUME ~crossed' PROVE OneLoop'
    BY <1>0
  <2>2. ~crossed /\ OneLoop /\ canceller'.link = 0
    BY <1>0, <2>1 DEF RabbitInv, Undisturbed
  <2>3. CASE procs' = procs
    BY <1>0, <2>2, <2>3, OneLoopKept
  <2>4. CASE procs' # procs
    <3>1. ~Running("initialize") /\ current = 0 /\ "recovery" \in Loops
      BY <1>0, <2>1, <2>4 DEF Loops
    <3>2. \A q \in Loops \ {"recovery"} : ~Running(q)'
      BY <1>0, <3>1, ScheduleState DEF Running, Loops
    <3>. QED
      BY <1>0, <2>2, <3>1, <3>2, OneLoopAlone
  <2>. QED
    BY <2>3, <2>4
<1>4. crossed' \in BOOLEAN /\ groups' \in [Groups -> Objects \cup {NoGroup}]
  BY <1>0, <1>1
<1>. QED
  BY <1>0, <1>1, <1>2, <1>3, <1>4, ScheduleState, LinksCloseInv

------------------------------------------------------------------------------
(* Links come into use and go out of it                                    *)

\* ConnectedLink keeps RabbitInv.
LEMMA ConnectedLinkInv ==
    ASSUME RabbitInv, NEW task \in Loops, NEW l \in Links, Connected(task, l) PROVE RabbitInv'
<1>. USE DEF RabbitInv
<1>0. /\ procs[task].pc = "connecting" /\ links[l].state = "unused"
      /\ links' = [links EXCEPT ![l] = Opened]
      /\ procs' = [procs EXCEPT ![task].pc = "setup", ![task].link = l]
      /\ UNCHANGED <<disposed, current, groups, crossed, subscriptions, closer, canceller,
                     queue, unacked, runs, handled, faults>>
  BY DEF Connected, closeVars, brokerVars, handlerVars
<1>1. /\ links \in [Links -> Link] /\ procs \in [Procs -> Proc] /\ task \in Procs
      /\ task \notin Subs /\ l # 0 /\ l \in 0 .. MaxLinks /\ procs[task] \in Proc
  BY ProcStates DEF TypeOK
<1>2. /\ Opened \in Link /\ Opened.state = "open" /\ Opened.heard
      /\ \A g \in Groups : Opened.consumers[g] = 0
  <2>1. Unused \in Link /\ \A g \in Groups : Unused.consumers[g] = 0
    BY RabbitAssumption DEF Unused, Link
  <2>. QED
    BY <2>1 DEF Opened, Link
<1>3. /\ links' \in [Links -> Link] /\ links'[l] = Opened
      /\ \A k \in Links \ {l} : links'[k] = links[k]
  BY <1>0, <1>1, <1>2
<1>. DEFINE s == [procs[task] EXCEPT !.pc = "setup", !.link = l]
<1>4. s \in Proc /\ s.pc = "setup" /\ s.link = l
  BY <1>1 DEF Proc
<1>5. procs' = [procs EXCEPT ![task] = s]
  BY <1>0, <1>1
<1>. HIDE DEF s
<1>6. /\ procs' \in [Procs -> Proc] /\ procs'[task].pc = "setup" /\ procs'[task].link = l
      /\ \A q \in Procs \ {task} : procs'[q] = procs[q]
  BY <1>1, <1>4, <1>5
<1>7. /\ \A q \in Procs : OnLink(q) => procs[q].link \in Links /\ procs[q].link # l
      /\ \A u \in unacked : u.link \in Links \ {l}
      /\ \A r \in runs : r.via \in Links \ {l}
      /\ current # l /\ closer.link # l /\ canceller.link # l
  <2>1. \A q \in Procs : OnLink(q) => procs[q].link \in Links /\ procs[q].link # l
    BY <1>0 DEF ProcsInv, OnLinkInv
  <2>2. (\A u \in unacked : u.link \in Links \ {l}) /\ \A r \in runs : r.via \in Links \ {l}
    BY <1>0 DEF DeliveryInv, Open
  <2>3. current # l /\ closer.link # l /\ canceller.link # l
    BY <1>0, <1>1 DEF HeldLinksInv, Open
  <2>. QED
    BY <2>1, <2>2, <2>3
<1>8. TypeOK'
  BY <1>0, <1>3, <1>6 DEF TypeOK
<1>9. ProcsInv'
  <2>1. ASSUME NEW q \in Procs \ {task} PROVE Placed(q)' /\ OnLinkInv(q)' /\ BringingInv(q)'
    <3>1. procs'[q] = procs[q] /\ Placed(q) /\ OnLinkInv(q) /\ BringingInv(q)
      BY <1>6 DEF ProcsInv
    <3>2. OnLink(q)' <=> OnLink(q)
      BY <3>1 DEF OnLink, Bringing, Restoring
    <3>3. Placed(q)'
      BY <3>1 DEF Placed, Restoring
    <3>4. OnLinkInv(q)'
      BY <1>3, <1>7, <3>1, <3>2 DEF OnLinkInv
    <3>5. BringingInv(q)'
      <4>1. SUFFICES ASSUME Bringing(q)'
                     PROVE  /\ \A r \in Procs : OnLink(r)' /\ procs'[r].link = procs'[q].link => r = q
                            /\ procs'[q].link \notin {current', closer'.link, canceller'.link}
                            /\ Bare(procs[q].link)'
                            /\ Open(procs[q].link)' => links'[procs'[q].link].heard
        BY DEF BringingInv
      <4>2. Bringing(q) /\ OnLink(q) /\ procs[q].link \in Links \ {l}
        BY <1>7, <3>1, <4>1 DEF Bringing, OnLink
      <4>3. \A r \in Procs : OnLink(r)' /\ procs'[r].link = procs'[q].link => r = q
        BY <1>6, <3>1, <4>2 DEF BringingInv, OnLink, Bringing, Restoring
      <4>4. links'[procs[q].link] = links[procs[q].link]
        BY <1>3, <4>2
      <4>5. Bare(procs[q].link)' /\ (Open(procs[q].link)' => links'[procs'[q].link].heard)
        BY <3>1, <4>2, <4>4 DEF BringingInv, Bare, Open
      <4>6. procs'[q].link \notin {current', closer'.link, canceller'.link}
        BY <1>0, <3>1, <4>2 DEF BringingInv
      <4>. QED
        BY <4>3, <4>5, <4>6
    <3>. QED
      BY <3>3, <3>4, <3>5
  <2>2. Placed(task)'
    BY <1>1, <1>6 DEF Placed, Restoring
  <2>3. OnLinkInv(task)'
    BY <1>2, <1>3, <1>6 DEF OnLinkInv
  <2>4. BringingInv(task)'
    <3>1. \A r \in Procs : OnLink(r)' /\ procs'[r].link = l => r = task
      BY <1>6, <1>7 DEF OnLink, Bringing, Restoring
    <3>2. l \notin {current', closer'.link, canceller'.link}
      BY <1>0, <1>7
    <3>3. links'[procs'[task].link].heard
      BY <1>2, <1>3, <1>6
    <3>4. Bare(procs[task].link)'
      BY <1>2, <1>3, <1>6 DEF Bare
    <3>. QED
      BY <1>6, <3>1, <3>2, <3>3, <3>4 DEF BringingInv
  <2>. QED
    BY <2>1, <2>2, <2>3, <2>4 DEF ProcsInv
<1>10. HeldLinksInv'
  <2>1. current # 0 => current \in Links \ {l}
    BY <1>7, ProcStates DEF TypeOK
  <2>2. closer.link # 0 => closer.link \in Links \ {l}
    BY <1>7, ProcStates DEF HeldLinksInv
  <2>3. canceller.link # 0 => canceller.link \in Links \ {l}
    BY <1>7, ProcStates DEF HeldLinksInv
  <2>. QED
    BY <1>0, <1>3, <2>1, <2>2, <2>3 DEF HeldLinksInv, Open
<1>11. DeliveryInv'
  BY <1>0, <1>3, <1>7 DEF DeliveryInv, Open
<1>12. Undisturbed'
  <2>1. SUFFICES ASSUME ~crossed PROVE OneLoop' /\ KnownInv' /\ MatchInv' /\ AckInv'
    BY <1>0 DEF Undisturbed
  <2>2. OneLoop /\ KnownInv /\ MatchInv /\ AckInv
    BY <2>1 DEF Undisturbed
  <2>3. /\ \A q \in Loops \ {task} : ~Running(q)
        /\ current = 0
        /\ canceller.link = 0 \/ ~Open(canceller.link)
    BY <1>0, <2>2, RunsAlone DEF Running, Restoring
  <2>4. OneLoop'
    <3>1. \A q \in Loops \ {task} : ~Running(q)'
      <4>1. \A q \in Loops \ {task} : procs'[q] = procs[q]
        BY <1>6, ProcStates
      <4>. QED
        BY <2>3, <4>1 DEF Running
    <3>2. canceller'.link = canceller.link /\ (canceller.link = 0 \/ ~Open(canceller.link)')
      <4>1. canceller.link # 0 => canceller.link \in Links \ {l}
        BY <1>7, ProcStates DEF HeldLinksInv
      <4>. QED
        BY <1>0, <1>3, <2>3, <4>1 DEF Open
    <3>. QED
      BY <1>0, <2>3, <3>1, <3>2, OneLoopAlone
  <2>5. KnownInv'
    <3>. SUFFICES ASSUME NEW k \in Links, Open(k)' PROVE Known(k)'
      BY DEF KnownInv
    <3>1. CASE k = l
      BY <1>6, <3>1 DEF Known, Bringing
    <3>2. CASE k # l
      <4>1. Known(k)
        BY <1>3, <2>2, <3>2 DEF KnownInv, Open
      <4>2. \A p \in Loops : Bringing(p) => p # task /\ p \in Procs
        BY <1>0, ProcStates DEF Bringing
      <4>3. \A p \in Loops : Bringing(p) => Bringing(p)' /\ procs'[p].link = procs[p].link
        BY <1>6, <4>2 DEF Bringing
      <4>. QED
        BY <1>0, <4>1, <4>3 DEF Known
    <3>. QED
      BY <3>1, <3>2
  <2>6. MatchInv'
    BY <1>0, <1>3, <1>7, <2>2 DEF MatchInv, Open
  <2>. QED
    BY <1>0, <2>2, <2>4, <2>5, <2>6 DEF AckInv
<1>. QED
  BY <1>8, <1>9, <1>10, <1>11, <1>12

\* LinkSetUp keeps RabbitInv.
LEMMA LinkSetUpInv == ASSUME RabbitInv, NEW task \in Loops, LinkSetUp(task) PROVE RabbitInv'
<1>0. /\ procs \in [Procs -> Proc] /\ procs[task] \in Proc /\ procs[task].pc = "setup"
      /\ task \in Procs /\ task \notin Subs /\ Bringing(task) /\ OnLink(task) /\ Running(task)
      /\ ~Restoring(procs[task]) /\ Open(procs[task].link)
      /\ UNCHANGED <<disposed, links, crossed, subscriptions, closer, canceller, queue, unacked,
                     runs, handled, faults>>
  BY ProcStates DEF RabbitInv, TypeOK, LinkSetUp, Bringing, OnLink, Running, Restoring, Urgent,
                    Doomed, closeVars, brokerVars, handlerVars
<1>1. /\ crossed \in BOOLEAN /\ disposed \in BOOLEAN /\ subscriptions \subseteq Subs
      /\ groups \in [Groups -> Objects \cup {NoGroup}] /\ current \in 0 .. MaxLinks
      /\ procs[task].link \in Links /\ links[procs[task].link].heard
  BY <1>0 DEF RabbitInv, TypeOK, ProcsInv, OnLinkInv, BringingInv
<1>2. ~crossed => /\ \A q \in Loops \ {task} : ~Running(q)
                  /\ current = 0
                  /\ canceller.link = 0 \/ ~Open(canceller.link)
  BY <1>0, RunsAlone DEF RabbitInv, Undisturbed
<1>3. CASE disposed
  <2>1. procs' = [procs EXCEPT ![task].pc = "dropping"] /\ UNCHANGED <<current, groups>>
    BY <1>3 DEF LinkSetUp
  <2>. DEFINE s == [procs[task] EXCEPT !.pc = "dropping"]
  <2>2. s \in Proc /\ s.pc = "dropping" /\ s.link = procs[task].link
    BY <1>0 DEF Proc
  <2>3. procs' = [procs EXCEPT ![task] = s]
    BY <1>0, <2>1
  <2>. HIDE DEF s
  <2>4. /\ procs' \in [Procs -> Proc] /\ procs'[task] = s
        /\ \A q \in Procs \ {task} : procs'[q] = procs[q]
        /\ Placed(task)' /\ Moves(task) => \A q \in Procs : Placed(q)' /\ Moves(q)
    BY <1>0, <2>2, <2>3, ProcState
  <2>5. Placed(task)' /\ Moves(task)
    BY <1>0, <2>2, <2>4 DEF Placed, Moves, Restoring
  <2>6. \A q \in Loops \ {task} : procs'[q] = procs[q]
    BY <2>4, ProcStates
  <2>7. ~crossed' => ~crossed /\ OneLoop'
    <3>1. SUFFICES ASSUME ~crossed PROVE OneLoop'
      BY <1>0
    <3>2. \A q \in Loops \ {task} : ~Running(q)'
      BY <1>2, <2>6, <3>1 DEF Running
    <3>3. current' = 0 /\ canceller'.link = canceller.link
          /\ (canceller.link = 0 \/ ~Open(canceller.link)')
      BY <1>0, <1>2, <2>1, <3>1 DEF Open
    <3>. QED
      BY <3>2, <3>3, OneLoopAlone
  <2>8. \A p \in Loops : Bringing(p) /\ Open(procs[p].link) =>
           Bringing(p)' /\ procs'[p].link = procs[p].link
    BY <2>2, <2>4, <2>6 DEF Bringing
  <2>. QED
    BY <1>0, <1>1, <2>1, <2>4, <2>5, <2>7, <2>8, ProcStepInv DEF closeVars, brokerVars, handlerVars
<1>4. CASE ~disposed
  <2>. USE DEF RabbitInv
  <2>1. current' = procs[task].link /\ groups' = [g \in Groups |-> NoGroup]
        /\ RestoresNext(task, procs[task], groups')
    BY <1>4 DEF LinkSetUp
  <2>2. groups' \in [Groups -> Objects \cup {NoGroup}]
    BY <2>1
  <2>3. /\ procs' \in [Procs -> Proc]
        /\ \A p \in Procs : Placed(p)' /\ Moves(p)
        /\ \A q \in Loops \ {task} : procs'[q] = procs[q]
        /\ ~Bringing(task)'
        /\ Running(task)' => Restoring(procs[task])' /\ procs'[task].link = procs[task].link
    <3>1. CASE LoopEnds(task, "resolved")
      BY <3>1, LoopEndsState DEF Bringing, Running
    <3>2. CASE ~LoopEnds(task, "resolved")
      <4>1. PICK s \in Proc : /\ procs' = [procs EXCEPT ![task] = s]
                              /\ Restoring(s) /\ s.link = procs[task].link /\ s.sub # {}
                              /\ s.pc \in {"bind", "attach"} => s.obj \in Objects
        BY <2>1, <2>2, <3>2, RestoresNextState
      <4>2. /\ procs' \in [Procs -> Proc] /\ procs'[task] = s
            /\ \A q \in Procs \ {task} : procs'[q] = procs[q]
            /\ Placed(task)' /\ Moves(task) => \A q \in Procs : Placed(q)' /\ Moves(q)
        BY <1>0, <4>1, ProcState
      <4>3. Placed(task)' /\ Moves(task)
        BY <1>0, <4>1, <4>2 DEF Placed, Moves, Restoring, OnLink, Bringing
      <4>4. ~Bringing(task)' /\ Restoring(procs[task])' /\ procs'[task].link = procs[task].link
        BY <4>1, <4>2 DEF Restoring, Bringing
      <4>. QED
        BY <4>2, <4>3, <4>4, ProcStates
    <3>. QED
      BY <3>1, <3>2
  <2>4. TypeOK'
    BY <1>0, <1>1, <2>1, <2>2, <2>3, ProcStates DEF TypeOK
  <2>5. ProcsInv'
    <3>1. \A l \in Links : Bears(l)
      BY <1>0 DEF Bears, Bare, Open
    <3>2. current # 0 => links[current].state # "unused"
      BY DEF HeldLinksInv, Open
    <3>3. Holds(current') /\ Holds(closer'.link) /\ Holds(canceller'.link)
      BY <1>0, <2>1, <2>3 DEF Holds
    <3>. QED
      BY <1>0, <1>1, <2>3, <3>1, <3>2, <3>3, ProcsKept
  <2>6. HeldLinksInv'
    BY <1>0, <1>1, <1>4, <2>1 DEF HeldLinksInv, Open
  <2>7. DeliveryInv'
    BY <1>0 DEF DeliveryInv, Open
  <2>8. Undisturbed'
    <3>1. SUFFICES ASSUME ~crossed PROVE OneLoop' /\ KnownInv' /\ MatchInv' /\ AckInv'
      BY <1>0 DEF Undisturbed
    <3>2. KnownInv /\ MatchInv /\ AckInv
      BY <3>1 DEF Undisturbed
    <3>3. \A q \in Loops \ {task} : ~Running(q)'
      BY <1>2, <2>3, <3>1 DEF Running
    <3>4. ~(canceller'.link # 0 /\ Open(canceller.link)')
      BY <1>0, <1>2, <3>1 DEF Open
    <3>5. OneLoop'
      BY <2>1, <2>3, <3>3, <3>4 DEF OneLoop
    <3>6. KnownInv'
      <4>. SUFFICES ASSUME NEW l \in Links, Open(l)' PROVE Known(l)'
        BY DEF KnownInv
      <4>1. Known(l) /\ current = 0 /\ l # 0
        BY <1>0, <1>2, <3>1, <3>2, ProcStates DEF KnownInv, Open
      <4>2. ASSUME NEW p \in Loops, Bringing(p), p # task
            PROVE  Bringing(p)' /\ procs'[p].link = procs[p].link
        <5>1. procs'[p] = procs[p]
          BY <2>3, <4>2
        <5>. QED
          BY <4>2, <5>1 DEF Bringing
      <4>. QED
        BY <1>0, <2>1, <4>1, <4>2 DEF Known
    <3>. QED
      BY <1>0, <3>2, <3>5, <3>6 DEF MatchInv, AckInv, Open
  <2>. QED
    BY <2>4, <2>5, <2>6, <2>7, <2>8
<1>. QED
  BY <1>3, <1>4

\* The processes go on over links that only gain or lose consumers.
LEMMA ConsumersInv ==
    ASSUME RabbitInv, Carries, links' \in [Links -> Link],
           \A l \in Links : /\ links'[l].state = links[l].state
                            /\ links'[l].heard = links[l].heard
                            /\ links'[l].tags = links[l].tags,
           \A p \in Procs, l \in Links : Bringing(p) /\ procs[p].link = l => links'[l] = links[l],
           UNCHANGED <<disposed, current, groups, crossed, subscriptions, closeVars,
                       brokerVars, handlerVars, faults>>
    PROVE  RabbitInv'
<1>. USE DEF RabbitInv, closeVars, brokerVars, handlerVars
<1>1. TypeOK'
  BY DEF TypeOK, Carries
<1>2. \A l \in 0 .. MaxLinks : Open(l)' <=> Open(l)
  BY ProcStates DEF Open
<1>3. /\ current \in 0 .. MaxLinks /\ closer.link \in 0 .. MaxLinks /\ canceller.link \in 0 .. MaxLinks
      /\ \A l \in Links : l \in 0 .. MaxLinks
  BY ProcStates DEF TypeOK, HeldLinksInv
<1>4. ProcsInv'
  <2>1. \A p \in Procs, l \in Links : Bringing(p) /\ procs[p].link = l => Bears(l)
    BY DEF Bears, Bare, Open
  <2>2. current # 0 => links[current].state # "unused"
    BY DEF HeldLinksInv, Open
  <2>3. Holds(current') /\ Holds(closer'.link) /\ Holds(canceller'.link)
    BY DEF Holds
  <2>. QED
    BY <1>3, <2>1, <2>2, <2>3, ProcsKept DEF Carries
<1>5. HeldLinksInv'
  <2>1. \A l \in 0 .. MaxLinks : l # 0 => links'[l].state = links[l].state /\ links'[l].heard = links[l].heard
    BY ProcStates
  <2>. QED
    BY <1>2, <1>3, <2>1 DEF HeldLinksInv
<1>6. DeliveryInv'
  BY <1>2, <1>3 DEF DeliveryInv
<1>7. Undisturbed'
  <2>1. SUFFICES ASSUME ~crossed PROVE OneLoop' /\ KnownInv' /\ MatchInv' /\ AckInv'
    BY DEF Undisturbed
  <2>2. OneLoop /\ KnownInv /\ MatchInv /\ AckInv
    BY <2>1 DEF Undisturbed
  <2>3. OneLoop'
    <3>1. canceller'.link = canceller.link /\ (Open(canceller.link)' => Open(canceller.link))
      BY <1>2, <1>3
    <3>. QED
      BY <2>2, <3>1, OneLoopKept DEF Carries
  <2>4. KnownInv'
    <3>. SUFFICES ASSUME NEW l \in Links, Open(l)' PROVE Known(l)'
      BY DEF KnownInv
    <3>1. Open(l) /\ Known(l)
      BY <1>2, <1>3, <2>2 DEF KnownInv
    <3>2. \A p \in Loops : Bringing(p) /\ procs[p].link = l => Bringing(p)' /\ procs'[p].link = l
      BY <3>1 DEF Carries
    <3>. QED
      BY <3>1, <3>2 DEF Known
  <2>5. MatchInv' /\ AckInv'
    BY <1>2, <1>3, <2>2 DEF MatchInv, AckInv, DeliveryInv
  <2>. QED
    BY <2>3, <2>4, <2>5
<1>. QED
  BY <1>1, <1>4, <1>5, <1>6, <1>7

\* Attached keeps RabbitInv.
LEMMA AttachedInv == ASSUME RabbitInv, NEW p \in Procs, Attached(p) PROVE RabbitInv'
<1>. DEFINE L == procs[p].link
            g == GroupOf[SubOf(procs[p])]
<1>0. /\ procs[p].pc = "attach" /\ procs[p] \in Proc /\ Restored(p) /\ links \in [Links -> Link]
      /\ links' = [links EXCEPT ![L].consumers[g] = @ + 1, ![L].tagged = @ \cup {procs[p].obj}]
      /\ UNCHANGED <<disposed, current, groups, crossed, subscriptions, closeVars,
                     brokerVars, handlerVars, faults>>
  BY DEF Attached, RabbitInv, TypeOK
<1>1. Restoring(procs[p]) /\ OnLink(p)
  BY <1>0 DEF Restoring, OnLink
<1>2. procs[p].sub # {} /\ procs[p].obj \in Objects /\ L \in Links /\ ~Bringing(p)
  BY <1>0, <1>1 DEF RabbitInv, ProcsInv, Placed, OnLinkInv, Bringing
<1>3. g \in Groups /\ links[L] \in Link
  BY <1>0, <1>2, SubOfState
<1>. HIDE DEF g, L
<1>. DEFINE c == [links[L].consumers EXCEPT ![g] = links[L].consumers[g] + 1]
            t == links[L].tagged \cup {procs[p].obj}
            n == [links[L] EXCEPT !.consumers = c, !.tagged = t]
<1>4. n \in Link /\ n.state = links[L].state /\ n.heard = links[L].heard /\ n.tags = links[L].tags
  <2>1. c \in [Groups -> Nat] /\ t \in SUBSET Objects
    BY <1>2, <1>3 DEF Link
  <2>. HIDE DEF c, t
  <2>. QED
    BY <1>3, <2>1 DEF Link
<1>5. links' = [links EXCEPT ![L] = n]
  BY <1>0, <1>2
<1>. HIDE DEF n
<1>6. /\ links' \in [Links -> Link]
      /\ \A l \in Links : /\ links'[l].state = links[l].state
                          /\ links'[l].heard = links[l].heard
                          /\ links'[l].tags = links[l].tags
      /\ \A l \in Links \ {L} : links'[l] = links[l]
  BY <1>0, <1>2, <1>4, <1>5
<1>7. \A q \in Procs, l \in Links : Bringing(q) /\ procs[q].link = l => links'[l] = links[l]
  <2>1. \A q \in Procs : Bringing(q) => procs[q].link # L
    BY <1>1, <1>2 DEF RabbitInv, ProcsInv, BringingInv, L
  <2>. QED
    BY <1>6, <2>1
<1>8. Carries
  BY <1>0, <1>1, RestoredCarries
<1>. QED
  BY <1>0, <1>6, <1>7, <1>8, ConsumersInv

\* close() and a consumer cancel detach the current link from the class.
LEMMA DetachesInv ==
    ASSUME RabbitInv, links' \in [Links -> Link],
           \A l \in Links : /\ links'[l].state = links[l].state
                            /\ links'[l].tags = links[l].tags
                            /\ links'[l].heard = (links[l].heard /\ l # current)
                            /\ Bare(l) => Bare(l)',
           current' = 0, groups' = [g \in Groups |-> NoGroup],
           \/ /\ closer.pc = "idle" /\ closer' = [pc |-> "closing", link |-> current]
              /\ disposed' = TRUE /\ canceller' = canceller
           \/ /\ canceller.pc = "idle" /\ canceller' = [pc |-> "closing", link |-> current]
              /\ disposed' = disposed /\ closer' = closer,
           UNCHANGED <<procs, crossed, subscriptions, brokerVars, handlerVars>>,
           faults' = faults \/ Faulty
    PROVE  RabbitInv'
<1>. USE DEF RabbitInv, brokerVars, handlerVars
<1>1. /\ current \in 0 .. MaxLinks /\ closer.link \in 0 .. MaxLinks /\ canceller.link \in 0 .. MaxLinks
      /\ \A l \in Links : l \in 0 .. MaxLinks
      /\ 0 \in 0 .. MaxLinks
  BY ProcStates DEF TypeOK, HeldLinksInv
<1>2. \A l \in 0 .. MaxLinks : Open(l)' <=> Open(l)
  BY ProcStates DEF Open
<1>3. \A l \in 0 .. MaxLinks : l # 0 => /\ links'[l].state = links[l].state
                                       /\ links'[l].heard = (links[l].heard /\ l # current)
  BY ProcStates
<1>4. /\ closer'.link \in {current, closer.link}
      /\ canceller'.link \in {current, canceller.link}
      /\ closer'.link = closer.link \/ closer.link = 0
      /\ canceller'.link = canceller.link \/ canceller.link = 0
      /\ current \in {closer'.link, canceller'.link}
  BY DEF HeldLinksInv
<1>5. TypeOK'
  BY <1>1 DEF TypeOK
<1>6. ProcsInv'
  <2>1. ASSUME NEW p \in Procs, NEW l \in Links, Bringing(p), procs[p].link = l PROVE Bears(l)
    <3>1. l # current /\ links[l].heard \in BOOLEAN
      BY <2>1 DEF ProcsInv, BringingInv, TypeOK, Link
    <3>2. links'[l].heard = links[l].heard
      BY <3>1
    <3>. QED
      BY <1>1, <1>2, <3>2 DEF Bears
  <2>2. current # 0 => links[current].state # "unused"
    BY DEF HeldLinksInv, Open
  <2>3. Holds(current') /\ Holds(closer'.link) /\ Holds(canceller'.link)
    BY <1>4 DEF Holds
  <2>4. \A p \in Procs : Placed(p)' /\ Moves(p)
    BY UnmovedProc
  <2>5. \A l \in Links : links[l].state # "unused" => links'[l].state # "unused"
    OBVIOUS
  <2>. QED
    BY <1>1, <2>1, <2>2, <2>3, <2>4, <2>5, ProcsKept
<1>7. HeldLinksInv'
  <2>1. current # 0 => links[current].state # "unused"
    BY DEF HeldLinksInv, Open
  <2>2. /\ closer' \in [pc : {"idle", "closing", "done"}, link : 0 .. MaxLinks]
        /\ closer'.pc # "closing" => closer'.link = 0
        /\ closer'.pc = "closing" => disposed'
    <3>1. CASE closer' = closer /\ disposed' = disposed
      BY <3>1 DEF HeldLinksInv
    <3>2. CASE closer' = [pc |-> "closing", link |-> current] /\ disposed' = TRUE
      BY <1>1, <3>2
    <3>. QED
      BY <3>1, <3>2
  <2>3. /\ canceller' \in [pc : {"idle", "closing"}, link : 0 .. MaxLinks]
        /\ canceller'.pc = "idle" => canceller'.link = 0
    <3>1. CASE canceller' = canceller
      BY <3>1 DEF HeldLinksInv
    <3>2. CASE canceller' = [pc |-> "closing", link |-> current]
      BY <1>1, <3>2
    <3>. QED
      BY <3>1, <3>2
  <2>4. \A l \in {current, closer.link, canceller.link} :
           l # 0 => links'[l].state # "unused" /\ ~links'[l].heard
    <3>1. current # 0 => links'[current].state # "unused" /\ ~links'[current].heard
      BY <1>1, <1>3, <2>1
    <3>2. closer.link # 0 => links'[closer.link].state # "unused" /\ ~links'[closer.link].heard
      BY <1>1, <1>3 DEF HeldLinksInv
    <3>3. canceller.link # 0 =>
             links'[canceller.link].state # "unused" /\ ~links'[canceller.link].heard
      BY <1>1, <1>3 DEF HeldLinksInv
    <3>. QED
      BY <3>1, <3>2, <3>3
  <2>. QED
    BY <1>4, <2>2, <2>3, <2>4 DEF HeldLinksInv
<1>8. DeliveryInv'
  BY <1>1, <1>2 DEF DeliveryInv
<1>9. Undisturbed'
  <2>1. SUFFICES ASSUME ~crossed PROVE OneLoop' /\ KnownInv' /\ MatchInv' /\ AckInv'
    BY DEF Undisturbed
  <2>2. OneLoop /\ KnownInv /\ MatchInv /\ AckInv
    BY <2>1 DEF Undisturbed
  <2>3. OneLoop'
    <3>1. \A p, q \in Loops : Running(p)' /\ Running(q)' => p = q
      BY <2>2 DEF OneLoop, Running
    <3>2. ASSUME canceller'.link # 0, Open(canceller.link)', NEW p \in Loops, Running(p)'
          PROVE  Restoring(procs[p])' /\ procs'[p].link = canceller'.link
      <4>1. Running(p)
        BY <3>2 DEF Running
      <4>2. CASE canceller'.link = current
        BY <2>2, <3>2, <4>1, <4>2 DEF OneLoop, Restoring
      <4>3. CASE canceller'.link = canceller.link
        <5>1. Open(canceller.link)
          BY <1>1, <1>2, <3>2, <4>3 DEF Open
        <5>. QED
          BY <2>2, <3>2, <4>1, <4>3, <5>1 DEF OneLoop, Restoring
      <4>. QED
        BY <1>4, <4>2, <4>3
    <3>. QED
      BY <3>1, <3>2 DEF OneLoop
  <2>4. KnownInv'
    <3>. SUFFICES ASSUME NEW l \in Links, Open(l)' PROVE Known(l)'
      BY DEF KnownInv
    <3>1. Known(l) /\ l # 0
      BY <1>1, <1>2, <2>2, ProcStates DEF KnownInv
    <3>2. \A p \in Loops : Bringing(p)' <=> Bringing(p)
      BY DEF Bringing
    <3>. QED
      BY <1>4, <3>1, <3>2 DEF Known
  <2>5. MatchInv' /\ AckInv'
    BY <1>1, <1>2, <2>2 DEF MatchInv, AckInv, DeliveryInv
  <2>. QED
    BY <2>3, <2>4, <2>5
<1>. QED
  BY <1>5, <1>6, <1>7, <1>8, <1>9

\* Close keeps RabbitInv.
LEMMA CloseInv == ASSUME RabbitInv, Close PROVE RabbitInv'
<1>0. /\ links' = [l \in Links |-> IF l = current THEN [links[l] EXCEPT !.heard = FALSE]
                                    ELSE links[l]]
      /\ links \in [Links -> Link]
  BY DEF Close, RabbitInv, TypeOK
<1>1. ASSUME NEW l \in Links
      PROVE  /\ links'[l] \in Link
             /\ links'[l].state = links[l].state
             /\ links'[l].tags = links[l].tags
             /\ links'[l].consumers = links[l].consumers
             /\ links'[l].heard = (links[l].heard /\ l # current)
  <2>. DEFINE n == [links[l] EXCEPT !.heard = FALSE]
  <2>1. /\ n \in Link /\ n.heard = FALSE /\ n.state = links[l].state /\ n.tags = links[l].tags
        /\ n.consumers = links[l].consumers
    BY <1>0 DEF Link
  <2>2. links'[l] = IF l = current THEN n ELSE links[l]
    BY <1>0
  <2>3. links[l] \in Link /\ links[l].heard \in BOOLEAN
    BY <1>0 DEF Link
  <2>. HIDE DEF n
  <2>. QED
    BY <2>1, <2>2, <2>3
<1>2. links' \in [Links -> Link]
  BY <1>0, <1>1
<1>3. \A l \in Links : Bare(l) => Bare(l)'
  BY <1>1 DEF Bare
<1>. QED
  BY <1>1, <1>2, <1>3, DetachesInv DEF Close

\* ConsumerCancelled keeps RabbitInv.
LEMMA ConsumerCancelledInv ==
    ASSUME RabbitInv, NEW l \in Links, NEW g \in Groups, ConsumerCancelled(l, g) PROVE RabbitInv'
<1>0. /\ links' = [k \in Links |->
                   [links[k] EXCEPT !.heard = @ /\ k # current,
                                    !.consumers[g] = IF k = l THEN @ - 1 ELSE @]]
      /\ links \in [Links -> Link] /\ links[l].consumers[g] > 0
  BY DEF ConsumerCancelled, RabbitInv, TypeOK
<1>2. links[l].consumers[g] \in Nat /\ links[l].consumers[g] > 0
  <2>1. links[l].consumers \in [Groups -> Nat]
    BY <1>0 DEF Link
  <2>. QED
    BY <1>0, <2>1
<1>1. ASSUME NEW k \in Links
      PROVE  /\ links'[k] \in Link
             /\ links'[k].state = links[k].state
             /\ links'[k].tags = links[k].tags
             /\ links'[k].heard = (links[k].heard /\ k # current)
             /\ Bare(k) => Bare(k)'
  <2>. DEFINE n == [links[k] EXCEPT !.heard = @ /\ k # current,
                                    !.consumers[g] = IF k = l THEN @ - 1 ELSE @]
  <2>0. links'[k] = n /\ links[k] \in Link /\ links[k].consumers \in [Groups -> Nat]
    BY <1>0 DEF Link
  <2>1. /\ n.state = links[k].state /\ n.tags = links[k].tags
        /\ n.heard = (links[k].heard /\ k # current)
        /\ n.consumers = [links[k].consumers EXCEPT ![g] = IF k = l THEN @ - 1 ELSE @]
    BY <2>0 DEF Link
  <2>2. n.consumers \in [Groups -> Nat] /\ (k # l => n.consumers = links[k].consumers)
    <3>. HIDE DEF n
    <3>1. CASE k = l
      <4>1. links[k].consumers[g] - 1 \in Nat
        BY <1>2, <3>1
      <4>. QED
        BY <2>0, <2>1, <3>1, <4>1
    <3>2. CASE k # l
      BY <2>0, <2>1, <3>2
    <3>. QED
      BY <3>1, <3>2
  <2>3. n \in Link
    BY <2>0, <2>1, <2>2 DEF Link
  <2>4. Bare(k) => k # l
    <3>1. links[l].consumers[g] # 0
      BY <1>2
    <3>. QED
      BY <3>1 DEF Bare
  <2>. HIDE DEF n
  <2>5. Bare(k) => Bare(k)'
    BY <2>0, <2>2, <2>4 DEF Bare
  <2>. QED
    BY <2>0, <2>1, <2>3, <2>5
<1>3. links' \in [Links -> Link]
  BY <1>0, <1>1
<1>. QED
  BY <1>1, <1>3, DetachesInv DEF ConsumerCancelled

------------------------------------------------------------------------------
(* Deliveries and their settlements                                        *)

\* Deliver keeps RabbitInv.
LEMMA DeliverInv ==
    ASSUME RabbitInv, NEW l \in Links, NEW m \in Msgs, Deliver(l, m) PROVE RabbitInv'
<1>. USE DEF RabbitInv
<1>. DEFINE g    == GroupOf[TopicOf[m]]
            tag  == links[l].tags + 1
            sent == [link |-> l, tag |-> tag, msg |-> m]
            run  == [msg |-> m, tag |-> tag, via |-> current, matched |-> TopicOf[m] \in subscriptions]
            owed == {u \in unacked : u.link = l /\ GroupOf[TopicOf[u.msg]] = g}
<1>0. /\ Open(l) /\ tag <= MaxTags /\ Cardinality(owed) < links[l].consumers[g]
      /\ links' = [links EXCEPT ![l].tags = tag]
      /\ unacked' = unacked \cup {sent}
      /\ queue' = [queue EXCEPT ![m] = "out"]
      /\ runs' = IF current = 0 THEN runs ELSE runs \cup {run}
      /\ UNCHANGED <<disposed, current, groups, procs, crossed, subscriptions, closer, canceller,
                     handled, faults>>
  BY DEF Deliver, closeVars
<1>1. /\ links \in [Links -> Link] /\ links[l] \in Link /\ links[l].tags \in Nat
      /\ links[l].consumers \in [Groups -> Nat] /\ g \in Groups /\ l \in 0 .. MaxLinks /\ l # 0
      /\ current \in 0 .. MaxLinks /\ closer.link \in 0 .. MaxLinks /\ canceller.link \in 0 .. MaxLinks
      /\ queue \in [Msgs -> {"none", "ready", "out", "acked", "dropped"}]
      /\ \A k \in Links : links[k].tags \in Nat
  <2>1. links \in [Links -> Link] /\ queue \in [Msgs -> {"none", "ready", "out", "acked", "dropped"}]
        /\ current \in 0 .. MaxLinks /\ closer.link \in 0 .. MaxLinks /\ canceller.link \in 0 .. MaxLinks
    BY DEF TypeOK, HeldLinksInv
  <2>2. \A k \in Links : links[k] \in Link /\ links[k].tags \in Nat
    BY <2>1 DEF Link
  <2>3. links[l].consumers \in [Groups -> Nat]
    BY <2>2 DEF Link
  <2>. QED
    BY <2>1, <2>2, <2>3, RabbitAssumption, ProcStates
<1>2. ~Bare(l)
  <2>1. IsFiniteSet(owed)
    BY FS_Subset DEF DeliveryInv
  <2>2. Cardinality(owed) \in Nat
    BY <2>1, FS_CardinalityType
  <2>. HIDE DEF owed, g
  <2>3. links[l].consumers[g] > 0
    BY <1>0, <1>1, <2>2
  <2>. QED
    BY <1>1, <2>3 DEF Bare
<1>. HIDE DEF owed
<1>3. tag \in Nat /\ tag \in 0 .. MaxTags /\ tag > links[l].tags
  BY <1>0, <1>1, RabbitAssumption
<1>4. sent.link = l /\ sent.tag = tag /\ sent.msg = m
      /\ run.via = current /\ run.tag = tag /\ run.msg = m
  OBVIOUS
<1>. HIDE DEF tag, g
<1>. DEFINE n == [links[l] EXCEPT !.tags = tag]
<1>5. /\ n \in Link /\ n.state = links[l].state /\ n.heard = links[l].heard /\ n.tags = tag
      /\ n.consumers = links[l].consumers
  BY <1>1, <1>3 DEF Link
<1>6. links' = [links EXCEPT ![l] = n]
  BY <1>0, <1>1
<1>. HIDE DEF n, sent, run
<1>7. /\ links' \in [Links -> Link] /\ links'[l].tags = tag
      /\ \A k \in Links : /\ links'[k].state = links[k].state
                          /\ links'[k].heard = links[k].heard
                          /\ links'[k].consumers = links[k].consumers
                          /\ k # l => links'[k] = links[k]
                          /\ links[k].tags <= links'[k].tags
                          /\ links'[k].tags \in Nat
  <2>1. links' \in [Links -> Link] /\ links'[l] = n /\ \A k \in Links \ {l} : links'[k] = links[k]
    BY <1>1, <1>5, <1>6
  <2>2. ASSUME NEW k \in Links
        PROVE  /\ links'[k].state = links[k].state
               /\ links'[k].heard = links[k].heard
               /\ links'[k].consumers = links[k].consumers
               /\ k # l => links'[k] = links[k]
               /\ links[k].tags <= links'[k].tags
               /\ links'[k].tags \in Nat
    <3>0. links[k].tags \in Nat
      BY <1>1
    <3>1. CASE k = l
      BY <1>3, <1>5, <2>1, <3>0, <3>1
    <3>2. CASE k # l
      <4>1. links'[k] = links[k]
        BY <2>1, <3>2
      <4>. QED
        BY <3>0, <3>2, <4>1
    <3>. QED
      BY <3>1, <3>2
  <2>. QED
    BY <1>5, <2>1, <2>2
<1>8. \A k \in 0 .. MaxLinks : Open(k)' <=> Open(k)
  BY <1>7, ProcStates DEF Open
<1>9. current # 0 => current \in Links /\ links[current].state # "unused"
  BY <1>1, ProcStates DEF HeldLinksInv, Open
<1>10. TypeOK'
  <2>1. queue' \in [Msgs -> {"none", "ready", "out", "acked", "dropped"}]
    BY <1>0, <1>1
  <2>2. \A u \in unacked' : u.link \in Links /\ u.msg \in Msgs
    BY <1>0, <1>4 DEF TypeOK
  <2>3. \A r \in runs' : r.via \in Links /\ r.msg \in Msgs
    BY <1>0, <1>4, <1>9 DEF TypeOK
  <2>. QED
    BY <1>0, <1>7, <2>1, <2>2, <2>3 DEF TypeOK
<1>11. ProcsInv'
  <2>1. \A k \in Links : Bears(k)
    BY <1>7, <1>8, ProcStates DEF Bears, Bare
  <2>2. \A p \in Procs : Placed(p)' /\ Moves(p)
    BY <1>0, UnmovedProc
  <2>3. Holds(current') /\ Holds(closer'.link) /\ Holds(canceller'.link)
    BY <1>0 DEF Holds
  <2>4. \A k \in Links : links[k].state # "unused" => links'[k].state # "unused"
    BY <1>7
  <2>. QED
    BY <1>1, <1>9, <2>1, <2>2, <2>3, <2>4, ProcsKept
<1>12. HeldLinksInv'
  <2>1. \A k \in 0 .. MaxLinks : k # 0 => /\ links'[k].state = links[k].state
                                         /\ links'[k].heard = links[k].heard
    BY <1>7, ProcStates
  <2>. QED
    BY <1>0, <1>1, <1>8, <2>1 DEF HeldLinksInv
<1>13. DeliveryInv'
  <2>1. IsFiniteSet(unacked')
    BY <1>0, FS_AddElement DEF DeliveryInv
  <2>2. ASSUME NEW u \in unacked
        PROVE  /\ u.link \in Links /\ u.msg \in Msgs /\ u.tag \in Nat
               /\ Open(u.link)' /\ u.tag <= links'[u.link].tags
    <3>1. /\ u.link \in Links /\ u.msg \in Msgs /\ u.tag \in Nat
          /\ Open(u.link) /\ u.tag <= links[u.link].tags
      BY <2>2 DEF DeliveryInv
    <3>2. links[u.link].tags \in Nat /\ links'[u.link].tags \in Nat
          /\ links[u.link].tags <= links'[u.link].tags
      BY <1>1, <1>7, <3>1
    <3>3. Open(u.link)'
      BY <1>7, <3>1 DEF Open
    <3>. QED
      BY <3>1, <3>2, <3>3
  <2>3. /\ sent.link \in Links /\ sent.msg \in Msgs /\ sent.tag \in Nat
        /\ Open(l)' /\ sent.tag <= links'[l].tags
    BY <1>0, <1>1, <1>3, <1>4, <1>7, <1>8
  <2>4. \A u \in unacked' : /\ u.link \in Links /\ u.msg \in Msgs /\ u.tag \in Nat
                            /\ Open(u.link)' /\ u.tag <= links'[u.link].tags
    BY <1>0, <1>4, <2>2, <2>3
  <2>5. \A r \in runs' : /\ r.via \in Links /\ r.msg \in Msgs /\ r.tag \in Nat
                         /\ links'[r.via].state # "unused"
    <3>1. \A r \in runs : /\ r.via \in Links /\ r.msg \in Msgs /\ r.tag \in Nat
                          /\ links'[r.via].state # "unused"
      BY <1>7 DEF DeliveryInv
    <3>2. current # 0 => /\ run.via \in Links /\ run.msg \in Msgs /\ run.tag \in Nat
                         /\ links'[run.via].state # "unused"
      BY <1>3, <1>4, <1>7, <1>9
    <3>. QED
      BY <1>0, <3>1, <3>2
  <2>. QED
    BY <2>1, <2>4, <2>5 DEF DeliveryInv
<1>14. Undisturbed'
  <2>1. SUFFICES ASSUME ~crossed PROVE OneLoop' /\ KnownInv' /\ MatchInv' /\ AckInv'
    BY <1>0 DEF Undisturbed
  <2>2. OneLoop /\ KnownInv /\ MatchInv /\ AckInv
    BY <2>1 DEF Undisturbed
  <2>3. OneLoop'
    <3>1. /\ \A p \in Loops : procs'[p] = procs[p]
          /\ current' \in {0, current}
          /\ canceller'.link = canceller.link /\ (Open(canceller.link)' => Open(canceller.link))
      BY <1>0, <1>1, <1>8
    <3>. QED
      BY <2>2, <3>1, OneLoopKept
  <2>4. KnownInv'
    <3>. SUFFICES ASSUME NEW k \in Links, Open(k)' PROVE Known(k)'
      BY DEF KnownInv
    <3>1. Known(k)
      BY <1>8, <2>2, ProcStates DEF KnownInv
    <3>2. \A p \in Loops : Bringing(p)' <=> Bringing(p)
      BY <1>0 DEF Bringing
    <3>. QED
      BY <1>0, <3>1, <3>2 DEF Known
  <2>5. current # 0 => current = l
    <3>1. SUFFICES ASSUME current # 0 PROVE current = l
      OBVIOUS
    <3>2. Known(l) /\ l # 0
      BY <1>0, <1>1, <2>2 DEF KnownInv
    <3>3. closer.link = 0
      BY <3>1 DEF HeldLinksInv
    <3>4. l # canceller.link
      BY <1>0, <1>1, <2>2, <3>1 DEF OneLoop
    <3>5. ASSUME NEW p \in Loops, Bringing(p) PROVE procs[p].link # l
      <4>1. Bare(procs[p].link)
        BY <3>5, ProcStates DEF ProcsInv, BringingInv
      <4>. QED
        BY <1>2, <4>1 DEF Bare
    <3>. QED
      BY <3>2, <3>3, <3>4, <3>5 DEF Known
  <2>6. MatchInv'
    <3>. SUFFICES ASSUME NEW r \in runs', Open(r.via)'
                  PROVE  /\ r.tag <= links'[r.via].tags
                         /\ \A u \in unacked' : u.link = r.via /\ u.tag = r.tag => u.msg = r.msg
      BY DEF MatchInv
    <3>1. CASE r \in runs
      <4>1. r.via \in Links /\ r.tag \in Nat /\ Open(r.via)
        BY <1>8, <3>1, ProcStates DEF DeliveryInv, Open
      <4>2. r.tag <= links[r.via].tags
            /\ \A u \in unacked : u.link = r.via /\ u.tag = r.tag => u.msg = r.msg
        BY <2>2, <3>1, <4>1 DEF MatchInv
      <4>3. links[r.via].tags \in Nat /\ links'[r.via].tags \in Nat
            /\ links[r.via].tags <= links'[r.via].tags
        BY <1>1, <1>7, <4>1
      <4>4. ~(sent.link = r.via /\ sent.tag = r.tag)
        BY <1>3, <1>4, <4>1, <4>2, <4>3
      <4>. QED
        BY <1>0, <4>1, <4>2, <4>3, <4>4
    <3>2. CASE current # 0 /\ r = run
      <4>1. r.via = l /\ r.tag = tag /\ r.msg = m
        BY <1>4, <2>5, <3>2
      <4>2. \A u \in unacked : ~(u.link = l /\ u.tag = tag)
        BY <1>1, <1>3 DEF DeliveryInv
      <4>. QED
        BY <1>0, <1>3, <1>4, <1>7, <4>1, <4>2
    <3>. QED
      BY <1>0, <3>1, <3>2
  <2>7. AckInv'
    BY <1>0, <1>1, <2>2 DEF AckInv
  <2>. QED
    BY <2>3, <2>4, <2>6, <2>7
<1>. QED
  BY <1>10, <1>11, <1>12, <1>13, <1>14

\* Handlers end, and deliveries are settled.
LEMMA RunsStepInv ==
    ASSUME RabbitInv,
           UNCHANGED <<disposed, current, groups, links, procs, crossed, subscriptions, closeVars>>,
           faults' = faults \/ Faulty,
           runs' \subseteq runs, handled' \subseteq Msgs, unacked' \subseteq unacked,
           queue' \in [Msgs -> {"none", "ready", "out", "acked", "dropped"}],
           ~crossed => AckInv'
    PROVE  RabbitInv'
<1>. USE DEF RabbitInv, closeVars
<1>1. TypeOK'
  BY DEF TypeOK
<1>2. ProcsInv'
  <2>1. /\ \A l \in Links : Bears(l)
        /\ Holds(current') /\ Holds(closer'.link) /\ Holds(canceller'.link)
    BY DEF Bears, Bare, Open, Holds
  <2>2. \A p \in Procs : Placed(p)' /\ Moves(p)
    BY UnmovedProc
  <2>3. current # 0 => links[current].state # "unused"
    BY DEF HeldLinksInv, Open
  <2>. QED
    BY <2>1, <2>2, <2>3, ProcsKept DEF TypeOK
<1>3. HeldLinksInv'
  BY DEF HeldLinksInv, Open
<1>4. DeliveryInv'
  BY FS_Subset DEF DeliveryInv, Open
<1>5. Undisturbed'
  <2>1. SUFFICES ASSUME ~crossed PROVE OneLoop' /\ KnownInv' /\ MatchInv'
    BY DEF Undisturbed
  <2>2. OneLoop /\ KnownInv /\ MatchInv
    BY <2>1 DEF Undisturbed
  <2>. QED
    BY <2>2 DEF OneLoop, KnownInv, MatchInv, Running, Restoring, Open, Known, Bringing
<1>. QED
  BY <1>1, <1>2, <1>3, <1>4, <1>5

\* A settlement keeps RabbitInv.
LEMMA SettleInv ==
    ASSUME RabbitInv, NEW r \in runs, NEW outcome \in {"acked", "ready", "dropped"},
           runs' = runs \ {r}, Settle(r.via, r.tag, outcome),
           handled \subseteq handled', handled' \subseteq Msgs,
           outcome = "acked" => r.msg \in handled',
           UNCHANGED <<disposed, subscriptions, closeVars>>,
           faults' = faults \/ Faulty
    PROVE  RabbitInv'
<1>. DEFINE l    == r.via
            owed == {u \in unacked : u.link = l /\ u.tag = r.tag}
<1>0. l \in Links /\ queue \in [Msgs -> {"none", "ready", "out", "acked", "dropped"}]
  BY DEF RabbitInv, TypeOK
<1>1. CASE ~Open(l)
  <2>1. UNCHANGED <<queue, unacked, links, current, groups, procs, crossed>>
    BY <1>1 DEF Settle, brokerVars
  <2>2. ~crossed => AckInv'
    BY <2>1 DEF RabbitInv, Undisturbed, AckInv
  <2>. QED
    BY <1>0, <2>1, <2>2, RunsStepInv
<1>2. CASE Open(l) /\ owed = {}
  <2>1. LinkCloses(l)
    BY <1>2 DEF Settle
  <2>. QED
    BY <1>0, <1>2, <2>1, LinkClosesInv
<1>3. CASE Open(l) /\ owed # {}
  <2>1. /\ unacked' = unacked \ owed
        /\ queue' = [x \in Msgs |-> IF \E u \in owed : u.msg = x THEN outcome ELSE queue[x]]
        /\ UNCHANGED <<links, current, groups, procs, crossed>>
    BY <1>3 DEF Settle
  <2>2. queue' \in [Msgs -> {"none", "ready", "out", "acked", "dropped"}]
    BY <1>0, <2>1
  <2>3. ASSUME ~crossed PROVE AckInv'
    <3>1. AckInv /\ \A u \in owed : u.msg = r.msg
      BY <1>3, <2>3 DEF RabbitInv, Undisturbed, MatchInv
    <3>. HIDE DEF owed
    <3>. QED
      BY <2>1, <3>1 DEF AckInv
  <2>. QED
    BY <2>1, <2>2, <2>3, RunsStepInv
<1>. QED
  BY <1>1, <1>2, <1>3

\* Whatever becomes of a delivery keeps RabbitInv.
LEMMA DispatchInv == ASSUME RabbitInv, Dispatch PROVE RabbitInv'
<1>0. handled \subseteq Msgs /\ \A r \in runs : r.msg \in Msgs
  BY DEF RabbitInv, TypeOK
<1>1. ASSUME NEW r \in runs, Unmatched(r) PROVE RabbitInv'
  BY <1>0, <1>1, SettleInv DEF Unmatched
<1>2. ASSUME NEW r \in runs, HandlerResolves(r) PROVE RabbitInv'
  BY <1>0, <1>2, SettleInv DEF HandlerResolves
<1>3. ASSUME NEW r \in runs, HandlerRejects(r) PROVE RabbitInv'
  <2>1. PICK o \in {"ready", "dropped"} : Settle(r.via, r.tag, o)
    BY <1>3 DEF HandlerRejects
  <2>. QED
    BY <1>0, <1>3, <2>1, SettleInv DEF HandlerRejects
<1>. QED
  BY <1>1, <1>2, <1>3, DeliverInv, ConsumerCancelledInv, CancelRecoversInv DEF Dispatch

------------------------------------------------------------------------------
\* RabbitInv does not depend on the rest of the state.
LEMMA RabbitKeptInv == ASSUME RabbitInv, UNCHANGED vars PROVE RabbitInv'
<1>1. UNCHANGED <<disposed, current, groups, links, procs, crossed, subscriptions, closeVars>>
      /\ faults' = faults /\ runs' = runs /\ handled' = handled /\ unacked' = unacked
      /\ queue' = queue
  BY DEF vars, closeVars
<1>2. /\ handled \subseteq Msgs /\ queue \in [Msgs -> {"none", "ready", "out", "acked", "dropped"}]
      /\ ~crossed => AckInv'
  BY <1>1 DEF RabbitInv, TypeOK, Undisturbed, AckInv
<1>. QED
  BY <1>1, <1>2, RunsStepInv

\* Every step keeps RabbitInv.
LEMMA RabbitNextInv == ASSUME RabbitInv, Next PROVE RabbitInv'
<1>1. ASSUME NEW task \in Loops, ConnectStep(task) PROVE RabbitInv'
  BY <1>1, ConnectedLinkInv, LinkSetUpInv, LinkDroppedInv, LoopStepInv DEF ConnectStep
<1>2. ASSUME NEW p \in Procs, RestoreStep(p) PROVE RabbitInv'
  BY <1>2, QueueAssertedInv, QueueBoundInv, AttachedInv DEF RestoreStep
<1>3. CASE Quiet
  BY <1>3, RabbitKeptInv DEF Quiet
<1>. QED
  BY <1>1, <1>2, <1>3, CallersInv, CloseInv, ClosesLinkInv, LinkLostInv, DispatchInv DEF Next

\* What RabbitInv says of the checked invariants.
LEMMA RabbitInvImplies == RabbitInv => AckedWasHandled /\ LinksAccounted
<1>. SUFFICES ASSUME RabbitInv, ~crossed PROVE AckedWasHandled /\ LinksAccounted
  BY DEF AckedWasHandled, LinksAccounted
<1>1. KnownInv /\ AckInv /\ HeldLinksInv
  BY DEF RabbitInv, Undisturbed
<1>2. LinksAccounted
  BY <1>1 DEF LinksAccounted, KnownInv, Known, Bringing, HeldLinksInv
<1>. QED
  BY <1>1, <1>2 DEF AckedWasHandled, AckInv

------------------------------------------------------------------------------
(* KafkaSubscriber                                                           *)

\* A delivery in flight is of a message, under a consumer.
FlightInv == \A c \in Calls :
    IF flight[c].pc = "none" THEN flight[c] = NoDelivery
    ELSE /\ flight[c].topic \in Topics /\ flight[c].offset \in Offsets
         /\ flight[c].via \in Calls

Done(t, o) == <<t, o>> \in consumed \cup Malformed
Handling(c, t, o) ==
    flight[c].pc = "handling" /\ flight[c].topic = t /\ flight[c].offset = o

OffsetInv ==
    /\ CommittedWasConsumed
    /\ \A t \in Topics : owner[t] # None =>
          \A o \in 1 .. position[t] - 1 : Done(t, o) \/ Handling(owner[t], t, o)
    /\ \A c \in Calls : flight[c].pc # "none" =>
          \A o \in 1 .. flight[c].offset - 1 : Done(flight[c].topic, o)
    /\ \A c \in Calls : flight[c].pc = "committing" => Done(flight[c].topic, flight[c].offset)

\* The calls of a process.
Own(p) == {c \in Calls : home[c] = p}

\* They take turns, with each other and with close().
TurnsInv(p) == \A c \in Own(p) : Pending(c) =>
    closing[p] = {} /\ \A d \in Own(p) \ {c} : ~Pending(d)

\* The registered consumer is one of the process, on its way or serving, and subscribed
\* to every topic it has a handler for but those of the calls that subscribe.
RegistryInv(p) == LET d == registry[p] IN d # None =>
    /\ d \in Own(p)
    /\ consumer[d].state = "connected"
    /\ call[d].pc \in {"subscribe", "run", "resolved"}
    /\ call[d].pc # "resolved" => call[d].via = d
    /\ call[d].pc = "resolved" => consumer[d].running /\ consumer[d].polls
    /\ \A t \in consumer[d].handlers \ consumer[d].topics :
          \E c \in Own(p) : call[c].pc = "subscribe" /\ wanted[c] = t

\* Where a call stands.
ConnectInv(p) == \A c \in Own(p) : call[c].pc = "connect" => registry[p] = None
SubscribeInv(p) == \A c \in Own(p) : call[c].pc \in {"subscribe", "run"} =>
    LET d == call[c].via IN
    /\ d = registry[p] /\ d # None
    /\ wanted[c] \in consumer[d].handlers
    /\ d = c => consumer[d].handlers = {wanted[c]}
    /\ d # c => call[d].pc = "resolved"
    /\ call[c].pc = "subscribe" => /\ d = c <=> ~consumer[d].running
                                   /\ \A e \in Own(p) : call[e].pc = "resolved" =>
                                         wanted[e] # wanted[c]
    /\ call[c].pc = "run" => d = c /\ consumer[d].running /\ wanted[c] \in consumer[d].topics
CleanupInv(p) == \A c \in Own(p) : call[c].pc = "cleanup" =>
    call[c].via = c /\ registry[p] = None
ResolvedInv(p) == \A c \in Own(p) : call[c].pc = "resolved" => LET d == registry[p] IN
    /\ d # None /\ call[d].pc = "resolved"
    /\ wanted[c] \in consumer[d].handlers \cap consumer[d].topics

ClosingInv(p) == \A c \in closing[p] : c \in Own(p) /\ call[c].pc = "closed"
LeakInv(p) == \A c \in Own(p) : consumer[c].state = "connected" =>
    registry[p] = c \/ c \in closing[p] \/ call[c].pc = "cleanup"

ServedAt(p) ==
    /\ TurnsInv(p) /\ RegistryInv(p) /\ ConnectInv(p) /\ SubscribeInv(p) /\ CleanupInv(p)
    /\ ResolvedInv(p) /\ ClosingInv(p) /\ LeakInv(p)
ServedInv == ~raced => \A p \in Processes : ServedAt(p)

KafkaInv == KafkaTypeOK /\ FlightInv /\ OffsetInv /\ ServedInv

Flight == [topic : Topics \cup {None}, offset : 0 .. LogEnd,
           pc : {"none", "handling", "committing"}, via : Calls \cup {None}]
CallState == [pc : {"idle", "ensure", "connect", "subscribe", "run", "cleanup", "resolved",
                    "rejected", "closed"}, via : Calls \cup {None}]
ConsumerState == [state : {"none", "connected", "closed", "stranded"}, handlers : SUBSET Topics,
                  running : BOOLEAN, topics : SUBSET Topics, polls : BOOLEAN]

\* The initial states satisfy KafkaInv.
LEMMA KafkaInitInv == KafkaInit => KafkaInv
<1>. SUFFICES ASSUME KafkaInit PROVE KafkaInv
  OBVIOUS
<1>1. KafkaTypeOK
  <2>1. /\ home \in [Calls -> Processes] /\ wanted \in [Calls -> Topics]
        /\ LogEnd \in Nat /\ MaxMisses \in Nat
    BY KafkaAssumption DEF KafkaInit
  <2>2. 1 \in 1 .. LogEnd + 1 /\ 0 \in 0 .. LogEnd /\ 0 \in 0 .. MaxMisses
    BY <2>1
  <2>. QED
    BY <2>1, <2>2 DEF KafkaInit, KafkaTypeOK, NoConsumer, NoCall, NoDelivery
<1>2. FlightInv /\ OffsetInv
  BY DEF KafkaInit, FlightInv, OffsetInv, NoDelivery, CommittedWasConsumed
<1>3. ServedInv
  BY KafkaAssumption DEF KafkaInit, ServedInv, ServedAt, TurnsInv, RegistryInv, ConnectInv,
        SubscribeInv, CleanupInv, ResolvedInv, ClosingInv, LeakInv, NoConsumer, NoCall, Pending, Own
<1>. QED
  BY <1>1, <1>2, <1>3 DEF KafkaInv

\* What the deliveries owe the offsets is not disturbed by a partition that loses its
\* owner, nor by anything consume() does.
LEMMA OffsetsKept ==
    ASSUME FlightInv, OffsetInv, UNCHANGED <<position, committed, flight, consumed>>,
           \A t \in Topics : owner'[t] \in {owner[t], None}
    PROVE  FlightInv' /\ OffsetInv'
BY DEF FlightInv, OffsetInv, CommittedWasConsumed, Done, Handling

\* What the calls of a process owe each other is not disturbed by the others, nor by
\* deliveries.
LEMMA ElsewhereKept ==
    ASSUME NEW p, ServedAt(p), UNCHANGED <<home, wanted>>,
           registry'[p] = registry[p], closing'[p] = closing[p],
           \A c \in Own(p) : call'[c] = call[c] /\ consumer'[c] = consumer[c]
    PROVE  ServedAt(p)'
<1>. USE DEF ServedAt
<1>1. Own(p)' = Own(p)
  BY DEF Own
<1>2. registry[p] # None => registry[p] \in Own(p)
  BY DEF RegistryInv
<1>3. TurnsInv(p)'
  BY <1>1 DEF TurnsInv, Pending
<1>4. RegistryInv(p)'
  BY <1>1, <1>2 DEF RegistryInv
<1>5. ConnectInv(p)' /\ CleanupInv(p)' /\ LeakInv(p)'
  BY <1>1 DEF ConnectInv, CleanupInv, LeakInv
<1>6. SubscribeInv(p)'
  BY <1>1, <1>2 DEF SubscribeInv
<1>7. ResolvedInv(p)'
  BY <1>1, <1>2 DEF ResolvedInv
<1>8. ClosingInv(p)'
  BY <1>1 DEF ClosingInv
<1>. QED
  BY <1>3, <1>4, <1>5, <1>6, <1>7, <1>8

\* ServedInv does not depend on the rest of the state.
LEMMA ServiceKept ==
    ASSUME ServedInv, UNCHANGED <<home, wanted, registry, consumer, call, closing, raced>>
    PROVE  ServedInv'
BY ElsewhereKept DEF ServedInv

------------------------------------------------------------------------------
(* Deliveries                                                              *)

\* DispatchDelivery keeps KafkaInv.
LEMMA DispatchDeliveryInv ==
    ASSUME KafkaInv, NEW c \in Calls, NEW t \in Topics, DispatchDelivery(c, t)
    PROVE  KafkaInv'
<1>. USE DEF KafkaInv
<1>. DEFINE d == registry[home[c]]
            pc == IF <<t, position[t]>> \in Malformed THEN "committing" ELSE "handling"
            sent == [topic |-> t, offset |-> position[t], via |-> d, pc |-> pc]
<1>1. /\ flight' = [flight EXCEPT ![c] = sent]
      /\ position' = [position EXCEPT ![t] = @ + 1]
      /\ owner[t] = c /\ flight[c] = NoDelivery /\ position[t] <= LogEnd /\ d # None
      /\ UNCHANGED <<callers, registry, consumer, call, closing, owner, committed, consumed,
                     raced, misses>>
  BY DEF DispatchDelivery, Fetches
<1>2. position[t] \in Offsets /\ LogEnd \in Nat /\ d \in Calls
  BY <1>1, KafkaAssumption DEF KafkaTypeOK, Offsets
<1>3. sent \in Flight /\ flight \in [Calls -> Flight]
  BY <1>2 DEF KafkaTypeOK, Flight, Offsets
<1>4. KafkaTypeOK'
  <2>1. flight' \in [Calls -> Flight]
    BY <1>1, <1>3
  <2>2. position' \in [Topics -> 1 .. LogEnd + 1]
    BY <1>1, <1>2 DEF KafkaTypeOK, Offsets
  <2>. QED
    BY <1>1, <2>1, <2>2 DEF KafkaTypeOK, Flight, callers, Offsets
<1>5. FlightInv'
  BY <1>1, <1>2, <1>3 DEF FlightInv, Flight, Offsets
<1>6. OffsetInv'
  <2>1. \A o \in 1 .. position[t] - 1 : Done(t, o)
    BY <1>1, <1>2, KafkaAssumption DEF OffsetInv, Handling, NoDelivery
  <2>2. CommittedWasConsumed'
    BY <1>1 DEF OffsetInv, CommittedWasConsumed
  <2>3. ASSUME NEW u \in Topics, owner[u] # None, NEW o \in 1 .. position'[u] - 1
        PROVE  Done(u, o) \/ Handling(owner[u], u, o)'
    <3>1. owner[u] \in Calls
      BY <2>3 DEF KafkaTypeOK
    <3>2. CASE u = t
      <4>1. position'[t] = position[t] + 1
        BY <1>1, <1>2 DEF KafkaTypeOK
      <4>2. o \in 1 .. position[t] - 1 \/ o = position[t]
        BY <2>3, <3>2, <4>1, <1>2 DEF Offsets
      <4>3. CASE o = position[t]
        BY <1>1, <1>3, <3>2, <4>3 DEF Done, Handling, Flight
      <4>. QED
        BY <2>1, <3>2, <4>2, <4>3
    <3>3. CASE u # t
      <4>1. position'[u] = position[u]
        BY <1>1, <3>3 DEF KafkaTypeOK
      <4>2. Done(u, o) \/ Handling(owner[u], u, o)
        BY <2>3, <4>1 DEF OffsetInv
      <4>. QED
        BY <4>2, <1>1, <1>3, <3>1 DEF Handling, NoDelivery
    <3>. QED
      BY <3>2, <3>3
  <2>4. ASSUME NEW e \in Calls, flight'[e].pc # "none", NEW o \in 1 .. flight'[e].offset - 1
        PROVE  Done(flight'[e].topic, o)
    <3>1. CASE e = c
      BY <1>1, <1>3, <2>1, <2>4, <3>1
    <3>2. CASE e # c
      BY <1>1, <1>3, <2>4, <3>2 DEF OffsetInv
    <3>. QED
      BY <3>1, <3>2
  <2>5. ASSUME NEW e \in Calls, flight'[e].pc = "committing"
        PROVE  Done(flight'[e].topic, flight'[e].offset)
    BY <1>1, <1>3, <2>5 DEF OffsetInv, Done
  <2>. QED
    BY <1>1, <2>2, <2>3, <2>4, <2>5 DEF OffsetInv, Done
<1>. QED
  BY <1>1, <1>4, <1>5, <1>6, ServiceKept DEF callers

\* DeliveryHandled keeps KafkaInv.
LEMMA DeliveryHandledInv ==
    ASSUME KafkaInv, NEW c \in Calls, DeliveryHandled(c)
    PROVE  KafkaInv'
<1>. USE DEF KafkaInv
<1>1. /\ flight[c].pc = "handling"
      /\ flight' = [flight EXCEPT ![c].pc = "committing"]
      /\ consumed' = consumed \cup {<<flight[c].topic, flight[c].offset>>}
      /\ UNCHANGED <<callers, registry, consumer, call, closing, owner, position, committed,
                     raced, misses>>
  BY DEF DeliveryHandled
<1>2. flight \in [Calls -> Flight] /\ flight[c].topic \in Topics /\ flight[c].offset \in Offsets
  BY <1>1 DEF KafkaTypeOK, Flight, FlightInv
<1>3. flight' \in [Calls -> Flight]
  BY <1>1, <1>2 DEF Flight
<1>4. KafkaTypeOK'
  BY <1>1, <1>2, <1>3 DEF KafkaTypeOK, Flight, callers
<1>5. FlightInv'
  BY <1>1, <1>2 DEF FlightInv, Flight
<1>6. \A t, o : Done(t, o) => Done(t, o)'
  BY <1>1 DEF Done
<1>7. Done(flight[c].topic, flight[c].offset)'
  BY <1>1 DEF Done
<1>8. \A e \in Calls : /\ flight'[e].topic = flight[e].topic
                       /\ flight'[e].offset = flight[e].offset
                       /\ e # c => flight'[e] = flight[e]
  BY <1>1, <1>2 DEF Flight
<1>9. OffsetInv'
  <2>1. CommittedWasConsumed'
    BY <1>1, <1>6 DEF OffsetInv, CommittedWasConsumed, Done
  <2>2. ASSUME NEW u \in Topics, owner[u] # None, NEW o \in 1 .. position[u] - 1
        PROVE  Done(u, o)' \/ Handling(owner[u], u, o)'
    <3>1. owner[u] \in Calls
      BY <2>2 DEF KafkaTypeOK
    <3>. QED
      BY <2>2, <3>1, <1>1, <1>2, <1>6, <1>7, <1>8 DEF OffsetInv, Handling
  <2>. QED
    BY <1>1, <1>6, <1>7, <1>8, <2>1, <2>2 DEF OffsetInv
<1>. QED
  BY <1>1, <1>4, <1>5, <1>9, ServiceKept DEF callers

\* A delivery ends: its message was dealt with, or its partition, if still there, begins
\* anew with it.
LEMMA DeliveryEnds ==
    ASSUME KafkaInv, NEW c \in Calls, flight[c].pc # "none",
           flight' = [flight EXCEPT ![c] = NoDelivery],
           \/ /\ owner[flight[c].topic] = c
              /\ position' = [position EXCEPT ![flight[c].topic] = flight[c].offset]
           \/ /\ owner[flight[c].topic] # c \/ flight[c].pc = "committing"
              /\ position' = position,
           \/ committed' = committed
           \/ /\ flight[c].pc = "committing"
              /\ committed' = [committed EXCEPT ![flight[c].topic] = flight[c].offset + 1],
           UNCHANGED <<callers, registry, consumer, call, closing, owner, consumed, raced>>,
           misses' \in 0 .. MaxMisses
    PROVE  KafkaInv'
<1>. USE DEF KafkaInv
<1>. DEFINE t == flight[c].topic
            o == flight[c].offset
<1>1. flight \in [Calls -> Flight] /\ t \in Topics /\ o \in Offsets /\ LogEnd \in Nat
  BY KafkaAssumption DEF KafkaTypeOK, Flight, FlightInv
<1>2. flight' \in [Calls -> Flight]
  BY <1>1, KafkaAssumption DEF Flight, NoDelivery
<1>3. KafkaTypeOK'
  <2>1. position' \in [Topics -> 1 .. LogEnd + 1]
    BY <1>1 DEF KafkaTypeOK, Offsets
  <2>2. committed' \in [Topics -> 1 .. LogEnd + 1]
    BY <1>1 DEF KafkaTypeOK, Offsets
  <2>. QED
    BY <1>2, <2>1, <2>2 DEF KafkaTypeOK, Flight, callers
<1>4. FlightInv'
  BY <1>1 DEF FlightInv, NoDelivery
<1>5. OffsetInv'
  <2>1. \A q \in 1 .. o - 1 : Done(t, q)
    BY DEF OffsetInv
  <2>2. CommittedWasConsumed'
    <3>1. flight[c].pc = "committing" => \A q \in 1 .. (o + 1) - 1 : Done(t, q)
      BY <1>1, <2>1 DEF OffsetInv, Offsets
    <3>. QED
      BY <1>1, <3>1 DEF OffsetInv, CommittedWasConsumed, Done, KafkaTypeOK
  <2>3. ASSUME NEW u \in Topics, owner[u] # None, NEW q \in 1 .. position'[u] - 1
        PROVE  Done(u, q) \/ Handling(owner[u], u, q)'
    <3>1. owner[u] \in Calls
      BY <2>3 DEF KafkaTypeOK
    <3>2. CASE owner[u] # c
      <4>1. position'[u] = position[u]
        BY <1>1, <3>2 DEF KafkaTypeOK
      <4>. QED
        BY <2>3, <3>1, <3>2, <4>1, <1>1 DEF OffsetInv, Handling
    <3>3. CASE owner[u] = c /\ u = t /\ flight[c].pc # "committing"
      <4>1. position'[t] = o
        BY <1>1, <3>3 DEF KafkaTypeOK
      <4>. QED
        BY <2>1, <2>3, <3>3, <4>1
    <3>4. CASE owner[u] = c /\ u = t /\ flight[c].pc = "committing"
      <4>1. position'[t] = o \/ position'[u] = position[u]
        BY <1>1, <3>4 DEF KafkaTypeOK
      <4>2. ~Handling(c, u, q)
        BY <3>4 DEF Handling
      <4>. QED
        BY <2>1, <2>3, <3>4, <4>1, <4>2 DEF OffsetInv
    <3>5. CASE owner[u] = c /\ u # t
      <4>1. position'[u] = position[u]
        BY <1>1, <3>5 DEF KafkaTypeOK
      <4>2. ~Handling(c, u, q)
        BY <3>5 DEF Handling
      <4>. QED
        BY <2>3, <3>5, <4>1, <4>2 DEF OffsetInv
    <3>. QED
      BY <3>2, <3>3, <3>4, <3>5
  <2>. QED
    BY <1>1, <2>2, <2>3 DEF OffsetInv, Done, NoDelivery
<1>. QED
  BY <1>3, <1>4, <1>5, ServiceKept DEF callers

\* Reassign keeps KafkaInv.
LEMMA ReassignInv ==
    ASSUME KafkaInv, NEW t \in Topics, NEW c \in Calls, Assign(t, c), misses' \in 0 .. MaxMisses
    PROVE  KafkaInv'
<1>. USE DEF KafkaInv
<1>1. /\ owner' = [owner EXCEPT ![t] = c]
      /\ position' = [position EXCEPT ![t] = committed[t]]
      /\ UNCHANGED <<callers, registry, consumer, call, closing, committed, flight, consumed,
                     raced>>
  BY DEF Assign
<1>2. KafkaTypeOK'
  BY <1>1 DEF KafkaTypeOK, callers
<1>3. FlightInv'
  BY <1>1 DEF FlightInv
<1>4. OffsetInv'
  BY <1>1 DEF OffsetInv, CommittedWasConsumed, Done, Handling, KafkaTypeOK
<1>. QED
  BY <1>1, <1>2, <1>3, <1>4, ServiceKept DEF callers

------------------------------------------------------------------------------
(* consume() and close()                                                   *)

\* A step that is confined to the process p ...
ServiceChange(p) ==
    /\ \A q \in Processes \ {p} : registry'[q] = registry[q] /\ closing'[q] = closing[q]
    /\ \A c \in Calls \ Own(p) : call'[c] = call[c] /\ consumer'[c] = consumer[c]

\* ... and leaves the deliveries alone keeps the invariant if it does in p.
LEMMA ServiceStep ==
    ASSUME KafkaInv, NEW p \in Processes,
           UNCHANGED <<callers, offsetVars, flight, consumed>>,
           owner' \in [Topics -> Calls \cup {None}],
           \A t \in Topics : owner'[t] \in {owner[t], None},
           registry' \in [Processes -> Calls \cup {None}],
           consumer' \in [Calls -> ConsumerState], call' \in [Calls -> CallState],
           closing' \in [Processes -> SUBSET Calls], raced' \in BOOLEAN,
           misses' \in 0 .. MaxMisses,
           ~raced' => ~raced /\ ServiceChange(p) /\ ServedAt(p)'
    PROVE  KafkaInv'
<1>. USE DEF callers, offsetVars
<1>1. KafkaTypeOK'
  BY DEF KafkaInv, KafkaTypeOK, ConsumerState, CallState
<1>2. FlightInv' /\ OffsetInv'
  BY OffsetsKept DEF KafkaInv
<1>3. ServedInv'
  <2>. SUFFICES ASSUME ~raced', NEW q \in Processes \ {p} PROVE ServedAt(q)'
    BY DEF ServedInv
  <2>1. ServedAt(q)
    BY DEF KafkaInv, ServedInv
  <2>2. \A c \in Own(q) : c \in Calls \ Own(p)
    BY DEF Own
  <2>. QED
    BY <2>1, <2>2, ElsewhereKept DEF ServiceChange
<1>. QED
  BY <1>1, <1>2, <1>3 DEF KafkaInv

\* What a step of consume() may rely on, unless calls overlapped: it is alone.
Alone(p, c) ==
    /\ ServedAt(p) /\ c \in Own(p) /\ closing[p] = {}
    /\ \A d \in Own(p) \ {c} : call[d].pc \in {"idle", "resolved", "rejected", "closed"}
    /\ Own(p) \subseteq Calls /\ None \notin Calls

\* Without a race a pending call is the only one of its process.
LEMMA CallsAlone ==
    ASSUME KafkaInv, ~raced, NEW c \in Calls, Pending(c)
    PROVE  Alone(home[c], c)
BY KafkaAssumption
DEF Alone, KafkaInv, KafkaTypeOK, ServedInv, ServedAt, TurnsInv, Pending, Own

\* The types KafkaInv contains.
LEMMA KafkaTypes ==
    ASSUME KafkaInv
    PROVE  /\ call \in [Calls -> CallState] /\ consumer \in [Calls -> ConsumerState]
           /\ home \in [Calls -> Processes] /\ wanted \in [Calls -> Topics]
           /\ registry \in [Processes -> Calls \cup {None}]
           /\ closing \in [Processes -> SUBSET Calls]
           /\ owner \in [Topics -> Calls \cup {None}]
           /\ raced \in BOOLEAN /\ misses \in 0 .. MaxMisses /\ None \notin Calls
BY KafkaAssumption DEF KafkaInv, KafkaTypeOK, CallState, ConsumerState

\* KafkaConsume keeps KafkaInv.
LEMMA KafkaConsumeInv ==
    ASSUME KafkaInv, NEW c \in Calls, KafkaConsume(c)
    PROVE  KafkaInv'
<1>0. PICK p \in Processes : home[c] = p
  BY KafkaTypes
<1>1. /\ call[c].pc = "idle"
      /\ call' = [call EXCEPT ![c].pc = "ensure"]
      /\ raced' = (raced \/ closing[p] # {} \/ \E d \in Neighbours(c) : Pending(d))
      /\ UNCHANGED <<callers, registry, consumer, closing, deliveryVars, misses>>
  BY <1>0 DEF KafkaConsume
<1>2. /\ call' \in [Calls -> CallState]
      /\ call'[c].pc = "ensure" /\ \A d \in Calls \ {c} : call'[d] = call[d]
  BY <1>1, KafkaTypes DEF CallState
<1>3. ServiceChange(p)
  BY <1>0, <1>1, <1>2 DEF ServiceChange, Own
<1>4. ASSUME ~raced' PROVE ServedAt(p)'
  <2>1. /\ ~raced /\ closing[p] = {}
        /\ \A d \in Own(p) \ {c} : ~Pending(d)
        /\ Own(p)' = Own(p) /\ Own(p) \subseteq Calls
    BY <1>0, <1>1, <1>4 DEF Neighbours, Own, callers
  <2>2. ServedAt(p) /\ None \notin Calls /\ c \in Own(p)
    BY <1>0, <1>2, <2>1, KafkaAssumption DEF KafkaInv, ServedInv, Own
  <2>. USE <1>1, <1>2, <2>1, <2>2 DEF ServedAt, callers
  <2>3. TurnsInv(p)'
    BY DEF TurnsInv, Pending
  <2>4. RegistryInv(p)'
    BY DEF RegistryInv
  <2>5. ConnectInv(p)' /\ CleanupInv(p)' /\ LeakInv(p)' /\ ClosingInv(p)'
    BY DEF ConnectInv, CleanupInv, LeakInv, ClosingInv
  <2>6. SubscribeInv(p)'
    BY DEF SubscribeInv, Pending
  <2>7. ResolvedInv(p)'
    BY DEF ResolvedInv
  <2>. QED
    BY <2>3, <2>4, <2>5, <2>6, <2>7
<1>. QED
  BY <1>1, <1>2, <1>3, <1>4, ServiceStep, KafkaTypes DEF deliveryVars

\* TopicEnsured keeps KafkaInv.
LEMMA TopicEnsuredInv ==
    ASSUME KafkaInv, NEW c \in Calls, TopicEnsured(c)
    PROVE  KafkaInv'
<1>0. PICK p \in Processes, d \in Calls \cup {None} : home[c] = p /\ registry[p] = d
  BY KafkaTypes
<1>1. /\ call[c].pc = "ensure" /\ Pending(c)
      /\ UNCHANGED <<callers, registry, closing, deliveryVars, raced, misses>>
      /\ IF d = None
         THEN call' = [call EXCEPT ![c].pc = "connect"] /\ UNCHANGED consumer
         ELSE Registers(c, d, consumer)
  BY <1>0 DEF TopicEnsured, Pending
<1>2. call \in [Calls -> CallState] /\ consumer \in [Calls -> ConsumerState] /\ wanted[c] \in Topics
  BY KafkaTypes
<1>. SUFFICES /\ call' \in [Calls -> CallState] /\ consumer' \in [Calls -> ConsumerState]
              /\ ~raced => ServiceChange(p) /\ ServedAt(p)'
  BY <1>1, ServiceStep, KafkaTypes DEF deliveryVars
<1>4. CASE d = None
  <2>1. /\ call' \in [Calls -> CallState] /\ consumer' = consumer
        /\ call'[c].pc = "connect" /\ \A e \in Calls \ {c} : call'[e] = call[e]
    BY <1>1, <1>2, <1>4 DEF CallState
  <2>2. ServiceChange(p)
    BY <1>0, <1>1, <2>1 DEF ServiceChange, callers, Own
  <2>3. ASSUME ~raced PROVE ServedAt(p)'
    <3>1. Alone(p, c) /\ Own(p)' = Own(p)
      BY <1>0, <1>1, <2>3, CallsAlone DEF Own, callers
    <3>. USE <1>0, <1>1, <1>4, <2>1, <3>1 DEF ServedAt, Alone, callers
    <3>2. TurnsInv(p)' /\ RegistryInv(p)'
      BY DEF TurnsInv, RegistryInv, Pending
    <3>3. ConnectInv(p)' /\ CleanupInv(p)' /\ LeakInv(p)' /\ ClosingInv(p)'
      BY DEF ConnectInv, CleanupInv, LeakInv, ClosingInv
    <3>4. SubscribeInv(p)' /\ ResolvedInv(p)'
      BY DEF SubscribeInv, ResolvedInv
    <3>. QED
      BY <3>2, <3>3, <3>4
  <2>. QED
    BY <1>2, <2>1, <2>2, <2>3
<1>5. CASE d # None /\ wanted[c] \in consumer[d].handlers
  <2>1. /\ call' \in [Calls -> CallState] /\ consumer' = consumer
        /\ call'[c].pc = "resolved" /\ \A e \in Calls \ {c} : call'[e] = call[e]
    BY <1>1, <1>2, <1>5 DEF CallState, Registers
  <2>2. ServiceChange(p)
    BY <1>0, <1>1, <2>1 DEF ServiceChange, callers, Own
  <2>3. ASSUME ~raced PROVE ServedAt(p)'
    <3>1. Alone(p, c) /\ Own(p)' = Own(p)
      BY <1>0, <1>1, <2>3, CallsAlone DEF Own, callers
    <3>. USE <1>0, <1>1, <1>5, <2>1, <3>1 DEF ServedAt, Alone, callers
    <3>2. d \in Own(p) \ {c} /\ call[d].pc = "resolved" /\ wanted[c] \in consumer[d].topics
      BY DEF RegistryInv
    <3>3. TurnsInv(p)' /\ RegistryInv(p)'
      BY <3>2 DEF TurnsInv, RegistryInv, Pending
    <3>4. ConnectInv(p)' /\ CleanupInv(p)' /\ LeakInv(p)' /\ ClosingInv(p)'
      BY DEF ConnectInv, CleanupInv, LeakInv, ClosingInv
    <3>5. SubscribeInv(p)' /\ ResolvedInv(p)'
      BY <3>2 DEF SubscribeInv, ResolvedInv
    <3>. QED
      BY <3>3, <3>4, <3>5
  <2>. QED
    BY <1>2, <2>1, <2>2, <2>3
<1>6. CASE d # None /\ wanted[c] \notin consumer[d].handlers
  <2>1. /\ call' \in [Calls -> CallState]
        /\ call'[c].pc = "subscribe" /\ call'[c].via = d
        /\ \A e \in Calls \ {c} : call'[e] = call[e]
    BY <1>1, <1>2, <1>6 DEF CallState, Registers
  <2>2. /\ consumer' = [consumer EXCEPT ![d].handlers = @ \cup {wanted[c]}]
        /\ consumer' \in [Calls -> ConsumerState]
        /\ \A e \in Calls \ {d} : consumer'[e] = consumer[e]
    BY <1>1, <1>2, <1>6 DEF ConsumerState, Registers
  <2>3. /\ consumer'[d].handlers = consumer[d].handlers \cup {wanted[c]}
        /\ consumer'[d].topics = consumer[d].topics /\ consumer'[d].state = consumer[d].state
        /\ consumer'[d].running = consumer[d].running /\ consumer'[d].polls = consumer[d].polls
    BY <1>2, <1>6, <2>2 DEF ConsumerState
  <2>4. ASSUME ~raced PROVE ServiceChange(p) /\ ServedAt(p)'
    <3>1. Alone(p, c) /\ Own(p)' = Own(p)
      BY <1>0, <1>1, <2>4, CallsAlone DEF Own, callers
    <3>. USE <1>0, <1>1, <1>6, <2>1, <2>2, <2>3, <3>1 DEF ServedAt, Alone, callers
    <3>2. /\ d \in Own(p) \ {c} /\ call[d].pc = "resolved" /\ consumer[d].running
          /\ consumer[d].handlers \subseteq consumer[d].topics
      BY DEF RegistryInv
    <3>3. TurnsInv(p)' /\ RegistryInv(p)'
      BY <3>2 DEF TurnsInv, RegistryInv, Pending
    <3>4. ConnectInv(p)' /\ CleanupInv(p)' /\ ClosingInv(p)'
      BY DEF ConnectInv, CleanupInv, ClosingInv
    <3>5. LeakInv(p)'
      BY <3>2 DEF LeakInv
    <3>6. SubscribeInv(p)' /\ ResolvedInv(p)'
      BY <3>2 DEF SubscribeInv, ResolvedInv
    <3>7. ServiceChange(p)
      BY <3>2 DEF ServiceChange
    <3>. QED
      BY <3>3, <3>4, <3>5, <3>6, <3>7
  <2>. QED
    BY <2>1, <2>2, <2>4
<1>. QED
  BY <1>4, <1>5, <1>6

\* ConsumerConnected keeps KafkaInv.
LEMMA ConsumerConnectedInv ==
    ASSUME KafkaInv, NEW c \in Calls, ConsumerConnected(c)
    PROVE  KafkaInv'
<1>. DEFINE born == [NoConsumer EXCEPT !.state = "connected"]
<1>0. PICK p \in Processes : home[c] = p
  BY KafkaTypes
<1>1. /\ call[c].pc = "connect" /\ Pending(c)
      /\ registry' = [registry EXCEPT ![p] = c]
      /\ UNCHANGED <<callers, closing, deliveryVars, raced, misses>>
      /\ Registers(c, c, [consumer EXCEPT ![c] = born])
  BY <1>0 DEF ConsumerConnected, Pending
<1>2. call \in [Calls -> CallState] /\ consumer \in [Calls -> ConsumerState] /\ wanted[c] \in Topics
  BY KafkaTypes
<1>3. /\ born \in ConsumerState /\ born.handlers = {} /\ born.topics = {}
      /\ born.state = "connected" /\ ~born.running
  BY DEF ConsumerState, NoConsumer
<1>4. /\ call' = [call EXCEPT ![c] = [pc |-> "subscribe", via |-> c]]
      /\ consumer' = [[consumer EXCEPT ![c] = born] EXCEPT ![c].handlers = @ \cup {wanted[c]}]
  BY <1>1, <1>2, <1>3 DEF Registers
<1>5. /\ \A e \in Calls \ {c} : consumer'[e] = consumer[e] /\ call'[e] = call[e]
      /\ call'[c].pc = "subscribe" /\ call'[c].via = c
      /\ consumer'[c] \in ConsumerState
      /\ consumer'[c].handlers = {wanted[c]} /\ consumer'[c].topics = {}
      /\ consumer'[c].state = "connected" /\ ~consumer'[c].running
  BY <1>2, <1>3, <1>4 DEF ConsumerState
<1>6. call' \in [Calls -> CallState] /\ consumer' \in [Calls -> ConsumerState]
  BY <1>2, <1>4, <1>5 DEF CallState
<1>7. registry' \in [Processes -> Calls \cup {None}] /\ registry'[p] = c
  BY <1>1, KafkaTypes
<1>8. ServiceChange(p)
  BY <1>0, <1>1, <1>5, <1>7, KafkaTypes DEF ServiceChange, Own
<1>9. ASSUME ~raced PROVE ServedAt(p)'
  <2>1. Alone(p, c) /\ Own(p)' = Own(p)
    BY <1>0, <1>1, <1>9, CallsAlone DEF Own, callers
  <2>. USE <1>0, <1>1, <1>5, <1>7, <2>1 DEF ServedAt, Alone, callers
  <2>2. registry[p] = None
    BY DEF ConnectInv
  <2>3. \A e \in Own(p) \ {c} : call[e].pc # "resolved" /\ consumer[e].state # "connected"
    BY <2>2 DEF ResolvedInv, LeakInv
  <2>4. TurnsInv(p)' /\ RegistryInv(p)'
    BY DEF TurnsInv, RegistryInv, Pending
  <2>5. ConnectInv(p)' /\ CleanupInv(p)' /\ ClosingInv(p)'
    BY DEF ConnectInv, CleanupInv, ClosingInv
  <2>6. LeakInv(p)'
    BY <2>3 DEF LeakInv
  <2>7. SubscribeInv(p)' /\ ResolvedInv(p)'
    BY <2>3 DEF SubscribeInv, ResolvedInv
  <2>. QED
    BY <2>4, <2>5, <2>6, <2>7
<1>. QED
  BY <1>1, <1>6, <1>7, <1>8, <1>9, ServiceStep, KafkaTypes DEF deliveryVars

\* Subscribed keeps KafkaInv.
LEMMA SubscribedInv ==
    ASSUME KafkaInv, NEW c \in Calls, Subscribed(c)
    PROVE  KafkaInv'
<1>0. PICK p \in Processes, d \in Calls \cup {None} : home[c] = p /\ call[c].via = d
  BY KafkaTypes DEF CallState
<1>1. /\ call[c].pc = "subscribe" /\ Pending(c)
      /\ consumer[d].state = "connected"
      /\ consumer' = [consumer EXCEPT ![d].topics = @ \cup {wanted[c]}, ![d].running = TRUE]
      /\ call' = [call EXCEPT ![c].pc = IF consumer[d].running THEN "resolved" ELSE "run"]
      /\ UNCHANGED <<callers, registry, closing, deliveryVars, raced, misses>>
  BY <1>0 DEF Subscribed, Pending
<1>2. call \in [Calls -> CallState] /\ consumer \in [Calls -> ConsumerState] /\ wanted[c] \in Topics
  BY KafkaTypes
<1>3. /\ call' \in [Calls -> CallState]
      /\ \A e \in Calls \ {c} : call'[e] = call[e]
      /\ call'[c].via = d
      /\ call'[c].pc = IF consumer[d].running THEN "resolved" ELSE "run"
  <2>1. CASE consumer[d].running
    BY <1>0, <1>1, <1>2, <2>1 DEF CallState
  <2>2. CASE ~consumer[d].running
    BY <1>0, <1>1, <1>2, <2>2 DEF CallState
  <2>. QED
    BY <2>1, <2>2
<1>4. consumer' \in [Calls -> ConsumerState]
  BY <1>1, <1>2 DEF ConsumerState
<1>5. d \in Calls => /\ \A e \in Calls \ {d} : consumer'[e] = consumer[e]
                     /\ consumer'[d].topics = consumer[d].topics \cup {wanted[c]}
                     /\ consumer'[d].handlers = consumer[d].handlers
                     /\ consumer'[d].state = consumer[d].state
                     /\ consumer'[d].running = TRUE
                     /\ consumer'[d].polls = consumer[d].polls
  BY <1>1, <1>2 DEF ConsumerState
<1>6. ASSUME ~raced PROVE ServiceChange(p) /\ ServedAt(p)'
  <2>1. Alone(p, c) /\ Own(p)' = Own(p) /\ UNCHANGED <<wanted, registry, closing>>
    BY <1>0, <1>1, <1>6, CallsAlone DEF Own, callers
  <2>2. /\ d = registry[p] /\ d # None /\ d \in Own(p)
        /\ wanted[c] \in consumer[d].handlers
        /\ d # c => call[d].pc = "resolved"
        /\ d = c <=> ~consumer[d].running
        /\ \A t \in consumer[d].handlers \ consumer[d].topics : t = wanted[c]
    BY <1>0, <1>1, <2>1 DEF SubscribeInv, RegistryInv, ServedAt, Alone
  <2>3. d \in Calls
    BY <2>1, <2>2 DEF Alone
  <2>. USE <1>3, <1>5, <2>1, <2>2, <2>3 DEF ServedAt, Alone
  <2>4. TurnsInv(p)'
    BY DEF TurnsInv, Pending
  <2>5. RegistryInv(p)'
    <3>1. \A t \in consumer'[d].handlers : t \in consumer'[d].topics
      OBVIOUS
    <3>2. CASE d = c
      <4>1. call'[c].pc = "run" /\ consumer'[c].state = "connected"
        BY <1>1, <3>2
      <4>. QED
        BY <3>1, <3>2, <4>1 DEF RegistryInv
    <3>3. CASE d # c
      <4>1. call'[d].pc = "resolved" /\ consumer'[d].state = "connected" /\ consumer'[d].polls
        BY <1>1, <3>3 DEF RegistryInv
      <4>. QED
        BY <3>1, <4>1 DEF RegistryInv
    <3>. QED
      BY <3>2, <3>3
  <2>6. ConnectInv(p)' /\ CleanupInv(p)' /\ ClosingInv(p)'
    BY <1>1 DEF ConnectInv, CleanupInv, ClosingInv
  <2>7. LeakInv(p)'
    BY <1>1 DEF LeakInv
  <2>8. SubscribeInv(p)'
    <3>1. \A e \in Own(p) : e # c => call'[e].pc \notin {"subscribe", "run"}
      OBVIOUS
    <3>2. CASE d = c
      <4>1. call'[c].pc = "run" /\ call'[c].via = d /\ consumer'[c].handlers = {wanted[c]}
        <5>1. consumer[d].handlers = {wanted[c]}
          <6>1. SubscribeInv(p) /\ c \in Own(p) /\ call[c].pc = "subscribe" /\ call[c].via = c
            BY <1>0, <1>1, <3>2
          <6>. QED
            BY ONLY <3>2, <6>1 DEF SubscribeInv
        <5>2. ~consumer[d].running
          BY <3>2
        <5>. QED
          BY <3>2, <5>1, <5>2
      <4>2. consumer'[c].running /\ wanted'[c] \in consumer'[c].topics
        BY <3>2
      <4>3. registry'[p] = c /\ wanted'[c] \in consumer'[c].handlers /\ c # None
        BY <3>2, <4>1
      <4>4. \A e \in Own(p) : call'[e].pc \in {"subscribe", "run"} => e = c
        BY <3>1
      <4>. QED
        BY ONLY <3>2, <4>1, <4>2, <4>3, <4>4, Own(p)' = Own(p), wanted' = wanted DEF SubscribeInv
    <3>3. CASE d # c
      BY <3>1, <3>3 DEF SubscribeInv
    <3>. QED
      BY <3>2, <3>3
  <2>9. ResolvedInv(p)'
    <3>1. CASE d = c
      <4>1. \A e \in Own(p) : call'[e].pc # "resolved"
        BY <1>1, <3>1 DEF ResolvedInv
      <4>. QED
        BY <4>1 DEF ResolvedInv
    <3>2. CASE d # c
      BY <3>2 DEF ResolvedInv
    <3>. QED
      BY <3>1, <3>2
  <2>10. ServiceChange(p)
    BY DEF ServiceChange
  <2>. QED
    BY <2>4, <2>5, <2>6, <2>7, <2>8, <2>9, <2>10
<1>. QED
  BY <1>1, <1>3, <1>4, <1>6, ServiceStep, KafkaTypes DEF deliveryVars

\* ConsumerRuns keeps KafkaInv.
LEMMA ConsumerRunsInv ==
    ASSUME KafkaInv, NEW c \in Calls, ConsumerRuns(c)
    PROVE  KafkaInv'
<1>0. PICK p \in Processes, d \in Calls \cup {None} : home[c] = p /\ call[c].via = d
  BY KafkaTypes DEF CallState
<1>1. /\ call[c].pc = "run" /\ Pending(c)
      /\ consumer' = [consumer EXCEPT ![d].polls = TRUE]
      /\ call' = [call EXCEPT ![c].pc = "resolved"]
      /\ UNCHANGED <<callers, registry, closing, deliveryVars, raced, misses>>
  BY <1>0 DEF ConsumerRuns, Pending
<1>2. call \in [Calls -> CallState] /\ consumer \in [Calls -> ConsumerState]
  BY KafkaTypes
<1>3. /\ call' \in [Calls -> CallState]
      /\ \A e \in Calls \ {c} : call'[e] = call[e]
      /\ call'[c].via = d /\ call'[c].pc = "resolved"
  BY <1>0, <1>1, <1>2 DEF CallState
<1>4. consumer' \in [Calls -> ConsumerState]
  BY <1>1, <1>2 DEF ConsumerState
<1>5. d \in Calls => /\ \A e \in Calls \ {d} : consumer'[e] = consumer[e]
                     /\ consumer'[d].topics = consumer[d].topics
                     /\ consumer'[d].handlers = consumer[d].handlers
                     /\ consumer'[d].state = consumer[d].state
                     /\ consumer'[d].running = consumer[d].running
                     /\ consumer'[d].polls = TRUE
  BY <1>1, <1>2 DEF ConsumerState
<1>6. ASSUME ~raced PROVE ServiceChange(p) /\ ServedAt(p)'
  <2>1. Alone(p, c) /\ Own(p)' = Own(p) /\ UNCHANGED <<wanted, registry, closing>>
    BY <1>0, <1>1, <1>6, CallsAlone DEF Own, callers
  <2>2. /\ d = registry[p] /\ d = c /\ consumer[c].running
        /\ wanted[c] \in consumer[c].handlers \cap consumer[c].topics
    BY <1>0, <1>1, <2>1 DEF SubscribeInv, ServedAt, Alone
  <2>. USE <1>1, <1>3, <1>5, <2>1, <2>2 DEF ServedAt, Alone
  <2>4. TurnsInv(p)' /\ RegistryInv(p)'
    BY DEF TurnsInv, RegistryInv, Pending
  <2>5. ConnectInv(p)' /\ CleanupInv(p)' /\ ClosingInv(p)'
    BY DEF ConnectInv, CleanupInv, ClosingInv
  <2>6. LeakInv(p)'
    BY DEF LeakInv
  <2>7. SubscribeInv(p)' /\ ResolvedInv(p)'
    BY DEF SubscribeInv, ResolvedInv
  <2>8. ServiceChange(p)
    BY DEF ServiceChange
  <2>. QED
    BY <2>4, <2>5, <2>6, <2>7, <2>8
<1>. QED
  BY <1>1, <1>3, <1>4, <1>6, ServiceStep, KafkaTypes DEF deliveryVars

\* KafkaConsumeFails keeps KafkaInv.
LEMMA KafkaConsumeFailsInv ==
    ASSUME KafkaInv, NEW c \in Calls, KafkaConsumeFails(c)
    PROVE  KafkaInv'
<1>0. PICK p \in Processes, d \in Calls \cup {None} : home[c] = p /\ call[c].via = d
  BY KafkaTypes DEF CallState
<1>. DEFINE left == consumer[d].handlers \ {wanted[c]}
<1>1. /\ Pending(c) /\ call[c].pc # "cleanup"
      /\ UNCHANGED <<callers, closing, deliveryVars, raced>>
      /\ misses' \in 0 .. MaxMisses
      /\ IF call[c].pc \in {"ensure", "connect"}
         THEN /\ call' = [call EXCEPT ![c].pc = "rejected"]
              /\ UNCHANGED <<registry, consumer>>
         ELSE /\ consumer' = [consumer EXCEPT ![d].handlers = left]
              /\ registry' = IF left = {} THEN [registry EXCEPT ![p] = None] ELSE registry
              /\ call' = [call EXCEPT ![c].pc = IF left = {} THEN "cleanup" ELSE "rejected"]
  BY <1>0, KafkaTypes, KafkaAssumption DEF KafkaConsumeFails, ConsumeThrows, Misses
<1>2. call \in [Calls -> CallState] /\ consumer \in [Calls -> ConsumerState] /\ wanted[c] \in Topics
  BY KafkaTypes
<1>. SUFFICES /\ call' \in [Calls -> CallState] /\ consumer' \in [Calls -> ConsumerState]
              /\ registry' \in [Processes -> Calls \cup {None}]
              /\ ~raced => ServiceChange(p) /\ ServedAt(p)'
  BY <1>1, ServiceStep, KafkaTypes DEF deliveryVars
<1>3. CASE call[c].pc \in {"ensure", "connect"}
  <2>1. /\ call' \in [Calls -> CallState]
        /\ call'[c].pc = "rejected" /\ \A e \in Calls \ {c} : call'[e] = call[e]
    BY <1>1, <1>2, <1>3 DEF CallState
  <2>2. UNCHANGED <<registry, consumer, closing>>
    BY <1>1, <1>3
  <2>3. ASSUME ~raced PROVE ServiceChange(p) /\ ServedAt(p)'
    <3>1. Alone(p, c) /\ Own(p)' = Own(p) /\ UNCHANGED wanted
      BY <1>0, <1>1, <2>3, CallsAlone DEF Own, callers
    <3>. USE <1>3, <2>1, <2>2, <3>1 DEF ServedAt, Alone
    <3>2. TurnsInv(p)' /\ RegistryInv(p)'
      BY DEF TurnsInv, RegistryInv, Pending
    <3>3. ConnectInv(p)' /\ CleanupInv(p)' /\ LeakInv(p)' /\ ClosingInv(p)'
      BY DEF ConnectInv, CleanupInv, LeakInv, ClosingInv
    <3>4. SubscribeInv(p)'
      BY DEF SubscribeInv
    <3>6. ResolvedInv(p)'
      <4>1. registry[p] # None => registry[p] \in Calls
        BY DEF RegistryInv
      <4>2. \A e \in Own(p) : call'[e].pc = "resolved" => call[e].pc = "resolved"
        OBVIOUS
      <4>. QED
        BY <4>1, <4>2 DEF ResolvedInv
    <3>5. ServiceChange(p)
      BY DEF ServiceChange
    <3>. QED
      BY <3>2, <3>3, <3>4, <3>5, <3>6
  <2>. QED
    BY <1>2, <2>1, <2>2, <2>3, KafkaTypes
<1>4. CASE call[c].pc \in {"subscribe", "run"}
  <2>1. /\ call' \in [Calls -> CallState] /\ call'[c].via = d
        /\ call'[c].pc = IF left = {} THEN "cleanup" ELSE "rejected"
        /\ \A e \in Calls \ {c} : call'[e] = call[e]
    <3>1. call' = [call EXCEPT ![c].pc = IF left = {} THEN "cleanup" ELSE "rejected"]
      BY <1>1, <1>4
    <3>2. CASE left = {}
      BY <1>0, <1>2, <3>1, <3>2 DEF CallState
    <3>3. CASE left # {}
      BY <1>0, <1>2, <3>1, <3>3 DEF CallState
    <3>. QED
      BY <3>2, <3>3
  <2>2. /\ consumer' = [consumer EXCEPT ![d].handlers = left]
        /\ registry' = IF left = {} THEN [registry EXCEPT ![p] = None] ELSE registry
        /\ UNCHANGED closing
    BY <1>1, <1>4
  <2>3. /\ consumer' \in [Calls -> ConsumerState]
        /\ registry' \in [Processes -> Calls \cup {None}]
    BY <1>2, <2>2, KafkaTypes DEF ConsumerState
  <2>4. d \in Calls => /\ \A e \in Calls \ {d} : consumer'[e] = consumer[e]
                       /\ consumer'[d].handlers = left
                       /\ consumer'[d].topics = consumer[d].topics
                       /\ consumer'[d].state = consumer[d].state
                       /\ consumer'[d].running = consumer[d].running
                       /\ consumer'[d].polls = consumer[d].polls
    BY <1>2, <2>2 DEF ConsumerState
  <2>5. ASSUME ~raced PROVE ServiceChange(p) /\ ServedAt(p)'
    <3>1. Alone(p, c) /\ Own(p)' = Own(p) /\ UNCHANGED wanted
      BY <1>0, <1>1, <2>5, CallsAlone DEF Own, callers
    <3>2. /\ d = registry[p] /\ d # None /\ d \in Own(p) /\ d \in Calls
          /\ consumer[d].state = "connected"
          /\ d # c => call[d].pc = "resolved" /\ consumer[d].running /\ consumer[d].polls
          /\ \A t \in consumer[d].handlers \ consumer[d].topics : t = wanted[c]
      BY <1>0, <1>4, <3>1 DEF SubscribeInv, RegistryInv, ServedAt, Alone
    <3>3. CASE d = c
      <4>1. left = {}
        BY <1>0, <1>4, <3>1, <3>3 DEF SubscribeInv, ServedAt, Alone
      <4>2. call'[c].pc = "cleanup" /\ registry'[p] = None
            /\ \A q \in Processes \ {p} : registry'[q] = registry[q]
        BY <2>1, <2>2, <4>1, KafkaTypes
      <4>3. \A e \in Own(p) : call'[e].pc # "resolved"
        BY <1>4, <2>1, <3>1, <3>2, <3>3, <4>2 DEF ResolvedInv, ServedAt, Alone
      <4>. USE <2>1, <2>2, <2>4, <3>1, <3>2, <3>3, <4>2, <4>3 DEF ServedAt, Alone
      <4>4. TurnsInv(p)' /\ RegistryInv(p)'
        BY DEF TurnsInv, RegistryInv, Pending
      <4>5. ConnectInv(p)' /\ CleanupInv(p)' /\ ClosingInv(p)'
        BY DEF ConnectInv, CleanupInv, ClosingInv
      <4>6. LeakInv(p)'
        BY DEF LeakInv
      <4>7. SubscribeInv(p)' /\ ResolvedInv(p)'
        BY DEF SubscribeInv, ResolvedInv
      <4>8. ServiceChange(p)
        BY DEF ServiceChange
      <4>. QED
        BY <4>4, <4>5, <4>6, <4>7, <4>8
    <3>4. CASE d # c
      <4>1. /\ call[c].pc = "subscribe"
            /\ \A e \in Own(p) : call[e].pc = "resolved" => wanted[e] \in left
        BY <1>0, <1>4, <3>1, <3>2, <3>4 DEF SubscribeInv, ResolvedInv, ServedAt, Alone
      <4>2. left # {}
        BY <3>2, <3>4, <4>1
      <4>3. call'[c].pc = "rejected" /\ registry' = registry
        BY <2>1, <2>2, <4>2
      <4>4. \A t \in left : t \in consumer[d].topics
        BY <3>2
      <4>. HIDE DEF left
      <4>. USE <2>1, <2>2, <2>4, <3>1, <3>2, <3>4, <4>1, <4>3, <4>4 DEF ServedAt, Alone
      <4>5. TurnsInv(p)' /\ RegistryInv(p)'
        BY DEF TurnsInv, RegistryInv, Pending
      <4>6. ConnectInv(p)' /\ CleanupInv(p)' /\ ClosingInv(p)'
        BY DEF ConnectInv, CleanupInv, ClosingInv
      <4>7. LeakInv(p)'
        BY DEF LeakInv
      <4>10. \A e \in Own(p) : call'[e].pc \notin {"subscribe", "run"}
        OBVIOUS
      <4>11. SubscribeInv(p)'
        BY <4>10 DEF SubscribeInv
      <4>12. \A e \in Own(p) : call'[e].pc = "resolved" =>
                /\ call[e].pc = "resolved" /\ wanted[e] \in left
                /\ wanted[e] \in consumer[d].topics
        BY DEF ResolvedInv
      <4>8. ResolvedInv(p)'
        BY <4>12 DEF ResolvedInv
      <4>9. ServiceChange(p)
        BY DEF ServiceChange
      <4>. QED
        BY <4>5, <4>6, <4>7, <4>8, <4>9, <4>11
    <3>. QED
      BY <3>3, <3>4
  <2>. QED
    BY <2>1, <2>3, <2>5
<1>. QED
  BY <1>1, <1>2, <1>3, <1>4 DEF CallState, Pending

\* A consumer that was told to disconnect is connected no more, or stranded.
LEMMA DisconnectState ==
    ASSUME KafkaInv, NEW d \in Calls \cup {None}, Disconnects(d) \/ Strands(d)
    PROVE  /\ consumer' \in [Calls -> ConsumerState]
           /\ \A e \in Calls \ {d} : consumer'[e] = consumer[e]
           /\ d \in Calls => consumer'[d].state # "connected"
           /\ owner' \in [Topics -> Calls \cup {None}]
           /\ \A t \in Topics : owner'[t] \in {owner[t], None}
           /\ misses' \in 0 .. MaxMisses
<1>1. /\ consumer \in [Calls -> ConsumerState] /\ owner \in [Topics -> Calls \cup {None}]
      /\ misses \in 0 .. MaxMisses
  BY KafkaTypes
<1>2. PICK s \in {"closed", "stranded"} :
        \/ consumer' = [consumer EXCEPT ![d].state = s, ![d].polls = FALSE]
        \/ consumer' = [consumer EXCEPT ![d].state = s]
  BY DEF Disconnects, Strands
<1>3. /\ consumer' \in [Calls -> ConsumerState]
      /\ \A e \in Calls \ {d} : consumer'[e] = consumer[e]
      /\ d \in Calls => consumer'[d].state # "connected"
  <2>1. CASE consumer' = [consumer EXCEPT ![d].state = s, ![d].polls = FALSE]
    BY <1>1, <2>1 DEF ConsumerState
  <2>2. CASE consumer' = [consumer EXCEPT ![d].state = s]
    BY <1>1, <2>2 DEF ConsumerState
  <2>. QED
    BY <1>2, <2>1, <2>2
<1>4. \/ owner' = [t \in Topics |-> IF owner[t] \in {d} THEN None ELSE owner[t]]
      \/ owner' = owner
  BY DEF Disconnects, Strands, Leaves
<1>5. misses' \in 0 .. MaxMisses
  BY <1>1, KafkaAssumption DEF Disconnects, Strands, Misses
<1>. QED
  BY <1>1, <1>3, <1>4, <1>5

\* CleanedUp keeps KafkaInv.
LEMMA CleanedUpInv ==
    ASSUME KafkaInv, NEW c \in Calls, CleanedUp(c)
    PROVE  KafkaInv'
<1>0. PICK p \in Processes, d \in Calls \cup {None} : home[c] = p /\ call[c].via = d
  BY KafkaTypes DEF CallState
<1>1. /\ call[c].pc = "cleanup" /\ Pending(c)
      /\ Disconnects(d) \/ Strands(d)
      /\ call' = [call EXCEPT ![c].pc = "rejected"]
      /\ UNCHANGED <<callers, registry, closing, offsetVars, flight, consumed, raced>>
  BY <1>0 DEF CleanedUp, Pending
<1>2. call \in [Calls -> CallState] /\ consumer \in [Calls -> ConsumerState]
  BY KafkaTypes
<1>3. /\ call' \in [Calls -> CallState]
      /\ call'[c].pc = "rejected" /\ \A e \in Calls \ {c} : call'[e] = call[e]
  BY <1>1, <1>2 DEF CallState
<1>4. consumer' \in [Calls -> ConsumerState] /\ misses' \in 0 .. MaxMisses
  BY <1>1, DisconnectState
<1>5. d \in Calls => /\ \A e \in Calls \ {d} : consumer'[e] = consumer[e]
                     /\ consumer'[d].state # "connected"
  BY <1>1, DisconnectState
<1>6. /\ owner' \in [Topics -> Calls \cup {None}]
      /\ \A t \in Topics : owner'[t] \in {owner[t], None}
  BY <1>1, DisconnectState
<1>7. ASSUME ~raced PROVE ServiceChange(p) /\ ServedAt(p)'
  <2>1. Alone(p, c) /\ Own(p)' = Own(p) /\ UNCHANGED <<wanted, registry, closing>>
    BY <1>0, <1>1, <1>7, CallsAlone DEF Own, callers
  <2>2. d = c /\ registry[p] = None
    BY <1>0, <1>1, <2>1 DEF CleanupInv, ServedAt, Alone
  <2>3. \A e \in Own(p) : call[e].pc # "resolved"
    BY <2>1, <2>2 DEF ResolvedInv, ServedAt, Alone
  <2>. USE <1>1, <1>3, <1>5, <2>1, <2>2, <2>3 DEF ServedAt, Alone
  <2>4. TurnsInv(p)' /\ RegistryInv(p)'
    BY DEF TurnsInv, RegistryInv, Pending
  <2>5. ConnectInv(p)' /\ CleanupInv(p)' /\ ClosingInv(p)'
    BY DEF ConnectInv, CleanupInv, ClosingInv
  <2>6. LeakInv(p)'
    <3>1. ASSUME NEW e \in Own(p), consumer'[e].state = "connected"
          PROVE  FALSE
      <4>1. e # c /\ e \in Calls /\ consumer[e].state = "connected"
        BY <3>1
      <4>2. e \in closing[p] \/ registry[p] = e \/ call[e].pc = "cleanup"
        BY <4>1 DEF LeakInv
      <4>. QED
        BY <4>1, <4>2
    <3>. QED
      BY <3>1 DEF LeakInv
  <2>7. SubscribeInv(p)' /\ ResolvedInv(p)'
    BY DEF SubscribeInv, ResolvedInv
  <2>8. ServiceChange(p)
    BY DEF ServiceChange
  <2>. QED
    BY <2>4, <2>5, <2>6, <2>7, <2>8
<1>. QED
  BY <1>1, <1>3, <1>4, <1>6, <1>7, ServiceStep, KafkaTypes

\* KafkaClose keeps KafkaInv.
LEMMA KafkaCloseInv ==
    ASSUME KafkaInv, NEW p \in Processes, KafkaClose(p)
    PROVE  KafkaInv'
<1>0. PICK d \in Calls : d = registry[p]
  BY KafkaTypes DEF KafkaClose
<1>1. /\ closing[p] = {}
      /\ closing' = [closing EXCEPT ![p] = {d}]
      /\ registry' = [registry EXCEPT ![p] = None]
      /\ raced' = (raced \/ \E c \in Calls : home[c] = p /\ Pending(c))
      /\ call' = [c \in Calls |-> IF home[c] = p /\ call[c].pc = "resolved"
                                    THEN [call[c] EXCEPT !.pc = "closed"] ELSE call[c]]
      /\ UNCHANGED <<callers, consumer, deliveryVars, misses>>
  BY <1>0 DEF KafkaClose
<1>2. call \in [Calls -> CallState]
  BY KafkaTypes
<1>3. /\ call' \in [Calls -> CallState]
      /\ \A c \in Calls : call'[c].pc = IF home[c] = p /\ call[c].pc = "resolved"
                                        THEN "closed" ELSE call[c].pc
      /\ \A c \in Calls : home[c] # p => call'[c] = call[c]
  BY <1>1, <1>2 DEF CallState
<1>4. /\ closing' \in [Processes -> SUBSET Calls] /\ closing'[p] = {d}
      /\ registry' \in [Processes -> Calls \cup {None}] /\ registry'[p] = None
      /\ \A q \in Processes \ {p} : closing'[q] = closing[q] /\ registry'[q] = registry[q]
  BY <1>1, KafkaTypes
<1>5. ServiceChange(p)
  BY <1>1, <1>3, <1>4 DEF ServiceChange, Own
<1>6. ASSUME ~raced' PROVE ServedAt(p)'
  <2>1. ServedAt(p) /\ Own(p)' = Own(p) /\ UNCHANGED consumer /\ None \notin Calls
    BY <1>1, <1>6, KafkaTypes DEF KafkaInv, ServedInv, Own, callers
  <2>2. \A c \in Own(p) : call'[c].pc \in {"idle", "rejected", "closed"}
                          /\ (call[c].pc = "resolved" => call'[c].pc = "closed")
                          /\ call[c].pc # "cleanup"
    <3>1. \A c \in Own(p) : c \in Calls /\ home[c] = p /\ ~Pending(c)
      BY <1>1, <1>6 DEF Own
    <3>2. \A c \in Own(p) : call[c].pc \in {"idle", "resolved", "rejected", "closed"}
      BY <3>1 DEF Pending
    <3>3. \A c \in Own(p) : call'[c].pc = IF call[c].pc = "resolved" THEN "closed" ELSE call[c].pc
      BY <1>3, <3>1
    <3>. QED
      BY ONLY <3>2, <3>3
  <2>3. d \in Own(p) /\ call'[d].pc = "closed"
    <3>1. d # None /\ RegistryInv(p) /\ d = registry[p]
      BY <1>0, <2>1 DEF ServedAt
    <3>2. d \in Own(p) /\ call[d].pc \in {"subscribe", "run", "resolved"}
      BY ONLY <3>1 DEF RegistryInv
    <3>3. ~Pending(d) /\ home[d] = p
      BY <1>1, <1>6, <3>2 DEF Own
    <3>. QED
      BY <1>3, <3>2, <3>3 DEF Pending
  <2>. USE <1>0, <1>1, <1>4, <2>1, <2>2, <2>3 DEF ServedAt
  <2>4. TurnsInv(p)' /\ RegistryInv(p)' /\ ConnectInv(p)' /\ CleanupInv(p)' /\ ClosingInv(p)'
    BY DEF TurnsInv, RegistryInv, Pending, ConnectInv, CleanupInv, ClosingInv
  <2>7. \A c \in Own(p)' : call'[c].pc \notin {"subscribe", "run", "resolved"}
    OBVIOUS
  <2>5. SubscribeInv(p)' /\ ResolvedInv(p)'
    BY ONLY <2>7 DEF SubscribeInv, ResolvedInv
  <2>6. LeakInv(p)'
    BY DEF LeakInv
  <2>. QED
    BY <2>4, <2>5, <2>6
<1>. QED
  BY <1>1, <1>3, <1>4, <1>5, <1>6, ServiceStep, KafkaTypes DEF deliveryVars

\* ConsumerStopped keeps KafkaInv.
LEMMA ConsumerStoppedInv ==
    ASSUME KafkaInv, NEW p \in Processes, NEW c \in Calls, ConsumerStopped(p, c)
    PROVE  KafkaInv'
<1>1. /\ c \in closing[p]
      /\ closing' = [closing EXCEPT ![p] = @ \ {c}]
      /\ Disconnects(c) \/ Strands(c)
      /\ UNCHANGED <<callers, registry, call, offsetVars, flight, consumed, raced>>
  BY DEF ConsumerStopped
<1>3. /\ consumer' \in [Calls -> ConsumerState] /\ misses' \in 0 .. MaxMisses
      /\ consumer'[c].state # "connected" /\ \A e \in Calls \ {c} : consumer'[e] = consumer[e]
  BY <1>1, DisconnectState
<1>4. /\ closing' \in [Processes -> SUBSET Calls] /\ closing'[p] = closing[p] \ {c}
      /\ \A q \in Processes \ {p} : closing'[q] = closing[q]
  BY <1>1, KafkaTypes
<1>5. /\ owner' \in [Topics -> Calls \cup {None}]
      /\ \A t \in Topics : owner'[t] \in {owner[t], None}
  BY <1>1, DisconnectState
<1>6. ASSUME ~raced PROVE ServiceChange(p) /\ ServedAt(p)'
  <2>1. /\ ServedAt(p) /\ Own(p)' = Own(p) /\ Own(p) \subseteq Calls
        /\ UNCHANGED <<call, registry, wanted>>
    BY <1>1, <1>6 DEF KafkaInv, ServedInv, Own, callers
  <2>2. c \in Own(p) /\ call[c].pc = "closed"
    BY <1>1, <2>1 DEF ClosingInv, ServedAt
  <2>3. \A e \in Own(p) : ~Pending(e)
    BY <1>1, <2>1 DEF TurnsInv, ServedAt
  <2>4. registry[p] # c /\ (registry[p] # None => registry[p] \in Own(p))
    BY <2>1, <2>2, KafkaTypes DEF RegistryInv, ServedAt
  <2>. USE <1>3, <1>4, <2>1, <2>2, <2>3, <2>4 DEF ServedAt
  <2>5. TurnsInv(p)' /\ ConnectInv(p)' /\ CleanupInv(p)' /\ ClosingInv(p)'
    BY DEF TurnsInv, Pending, ConnectInv, CleanupInv, ClosingInv
  <2>6. RegistryInv(p)'
    BY DEF RegistryInv
  <2>7. SubscribeInv(p)' /\ ResolvedInv(p)'
    BY DEF SubscribeInv, ResolvedInv, Pending
  <2>8. LeakInv(p)'
    BY DEF LeakInv
  <2>9. ServiceChange(p)
    BY DEF ServiceChange
  <2>. QED
    BY <2>5, <2>6, <2>7, <2>8, <2>9
<1>. QED
  BY <1>1, <1>3, <1>4, <1>5, <1>6, ServiceStep, KafkaTypes

\* ProcessCrash keeps KafkaInv.
LEMMA ProcessCrashInv ==
    ASSUME KafkaInv, NEW p \in Processes, ProcessCrash(p)
    PROVE  KafkaInv'
<1>1. /\ registry' = [registry EXCEPT ![p] = None]
      /\ closing' = [closing EXCEPT ![p] = {}]
      /\ consumer' = [c \in Calls |-> IF c \in Own(p) THEN NoConsumer ELSE consumer[c]]
      /\ call' = [c \in Calls |-> IF c \in Own(p) THEN NoCall ELSE call[c]]
      /\ flight' = [c \in Calls |-> IF c \in Own(p) THEN NoDelivery ELSE flight[c]]
      /\ owner' = [t \in Topics |-> IF owner[t] \in Own(p) THEN None ELSE owner[t]]
      /\ UNCHANGED <<callers, offsetVars, consumed, raced>>
  BY DEF ProcessCrash, Leaves, Own
<1>2. misses' \in 0 .. MaxMisses
  BY KafkaTypes, KafkaAssumption DEF ProcessCrash, Misses
<1>3. /\ consumer' \in [Calls -> ConsumerState] /\ call' \in [Calls -> CallState]
      /\ flight' \in [Calls -> Flight]
  <2>1. NoConsumer \in ConsumerState /\ NoCall \in CallState /\ NoDelivery \in Flight
    BY KafkaAssumption DEF NoConsumer, NoCall, NoDelivery, ConsumerState, CallState, Flight
  <2>. QED
    BY <1>1, <2>1, KafkaTypes DEF KafkaInv, KafkaTypeOK, Flight
<1>4. /\ registry' \in [Processes -> Calls \cup {None}]
      /\ closing' \in [Processes -> SUBSET Calls]
      /\ owner' \in [Topics -> Calls \cup {None}]
  BY <1>1, KafkaTypes
<1>5. KafkaTypeOK'
  BY <1>1, <1>2, <1>3, <1>4
  DEF KafkaInv, KafkaTypeOK, callers, offsetVars, ConsumerState, CallState, Flight
<1>6. FlightInv'
  BY <1>1 DEF KafkaInv, FlightInv, NoDelivery
<1>7. OffsetInv'
  <2>1. \A t \in Topics : owner'[t] # None =>
            owner'[t] = owner[t] /\ owner[t] \in Calls \ Own(p)
    BY <1>1, KafkaTypes
  <2>2. \A c \in Calls : flight'[c].pc # "none" => flight'[c] = flight[c]
    BY <1>1 DEF NoDelivery
  <2>3. \A c \in Calls \ Own(p) : flight'[c] = flight[c]
    BY <1>1
  <2>4. \A c \in Calls : flight'[c].pc = "committing" => flight[c].pc = "committing"
    BY <2>2
  <2>5. OffsetInv /\ position' = position /\ committed' = committed /\ consumed' = consumed
    BY <1>1 DEF KafkaInv, offsetVars
  <2>6. CommittedWasConsumed'
    BY <2>5 DEF OffsetInv, CommittedWasConsumed
  <2>7. ASSUME NEW t \in Topics, owner'[t] # None, NEW o \in 1 .. position'[t] - 1
        PROVE  Done(t, o)' \/ Handling(owner[t], t, o)'
    <3>1. owner'[t] = owner[t] /\ owner[t] \in Calls \ Own(p) /\ owner[t] # None
      BY <2>1, <2>7
    <3>2. Done(t, o) \/ Handling(owner[t], t, o)
      BY <2>5, <3>1 DEF OffsetInv
    <3>3. flight'[owner'[t]] = flight[owner[t]]
      BY <2>3, <3>1
    <3>. QED
      BY <2>5, <3>2, <3>3 DEF Done, Handling
  <2>8. \A c \in Calls : flight'[c].pc # "none" =>
            \A o \in 1 .. flight'[c].offset - 1 : Done(flight[c].topic, o)'
    BY <2>2, <2>5 DEF OffsetInv, Done
  <2>9. \A c \in Calls : flight'[c].pc = "committing" =>
            Done(flight[c].topic, flight[c].offset)'
    <3>1. \A c \in Calls : flight[c].pc = "committing" => Done(flight[c].topic, flight[c].offset)
      BY <2>5 DEF OffsetInv
    <3>2. \A c \in Calls : flight'[c].pc = "committing" => flight'[c] = flight[c]
      BY <2>2
    <3>. QED
      BY <2>5, <3>1, <3>2 DEF Done
  <2>. QED
    BY <2>6, <2>7, <2>8, <2>9 DEF OffsetInv, Done, Handling
<1>8. ServedInv'
  <2>. SUFFICES ASSUME ~raced', NEW q \in Processes PROVE ServedAt(q)'
    BY DEF ServedInv
  <2>1. ServedAt(q)
    BY <1>1 DEF KafkaInv, ServedInv
  <2>2. CASE q # p
    <3>1. \A c \in Own(q) : c \in Calls \ Own(p)
      BY <2>2 DEF Own
    <3>. QED
      BY <1>1, <2>1, <2>2, <3>1, ElsewhereKept, KafkaTypes DEF callers
  <2>3. CASE q = p
    <3>1. /\ Own(p)' = Own(p) /\ registry'[p] = None /\ closing'[p] = {}
          /\ \A c \in Own(p) : call'[c].pc = "idle" /\ consumer'[c].state = "none"
      BY <1>1, KafkaTypes DEF Own, callers, NoCall, NoConsumer
    <3>. QED
      BY <2>3, <3>1 DEF ServedAt, TurnsInv, RegistryInv, ConnectInv, SubscribeInv, CleanupInv,
            ResolvedInv, ClosingInv, LeakInv, Pending
  <2>. QED
    BY <2>2, <2>3
<1>. QED
  BY <1>5, <1>6, <1>7, <1>8 DEF KafkaInv

\* Every step keeps KafkaInv.
LEMMA KafkaNextInv ==
    ASSUME KafkaInv, KafkaNext PROVE KafkaInv'
<1>1. ASSUME NEW c \in Calls, KafkaConsume(c) \/ KafkaConsumeStep(c) \/ KafkaConsumeFails(c)
      PROVE  KafkaInv'
  BY <1>1, KafkaConsumeInv, TopicEnsuredInv, ConsumerConnectedInv, SubscribedInv, ConsumerRunsInv,
     KafkaConsumeFailsInv, CleanedUpInv DEF KafkaConsumeStep
<1>2. ASSUME NEW c \in Calls, DeliveryFails(c) PROVE KafkaInv'
  <2>1. misses' \in 0 .. MaxMisses
    BY <1>2, KafkaTypes, KafkaAssumption DEF DeliveryFails, Misses
  <2>2. /\ flight[c].pc # "none"
        /\ flight' = [flight EXCEPT ![c] = NoDelivery]
        /\ position' = IF owner[flight[c].topic] = c
                       THEN [position EXCEPT ![flight[c].topic] = flight[c].offset]
                       ELSE position
        /\ committed' = committed
        /\ UNCHANGED <<callers, registry, consumer, call, closing, owner, consumed, raced>>
    BY <1>2 DEF DeliveryFails, DeliveryThrows
  <2>3. CASE owner[flight[c].topic] = c
    <3>1. position' = [position EXCEPT ![flight[c].topic] = flight[c].offset]
      BY <2>2, <2>3
    <3>. QED
      BY <2>1, <2>2, <2>3, <3>1, DeliveryEnds
  <2>4. CASE owner[flight[c].topic] # c
    <3>1. position' = position
      BY <2>2, <2>4
    <3>. QED
      BY <2>1, <2>2, <2>4, <3>1, DeliveryEnds
  <2>. QED
    BY <2>3, <2>4
<1>3. ASSUME NEW c \in Calls, OffsetCommitted(c) PROVE KafkaInv'
  <2>1. misses' \in 0 .. MaxMisses
    BY <1>3, KafkaTypes DEF OffsetCommitted
  <2>. QED
    BY <1>3, <2>1, DeliveryEnds DEF OffsetCommitted, DeliveryThrows
<1>4. ASSUME NEW c \in Calls, DeliveryStep(c) \/ DeliveryFails(c) PROVE KafkaInv'
  BY <1>2, <1>3, <1>4, DispatchDeliveryInv, DeliveryHandledInv DEF DeliveryStep
<1>5. ASSUME NEW t \in Topics, NEW c \in Calls, Reassign(t, c) \/ Rebalance(t, c)
      PROVE  KafkaInv'
  <2>1. Assign(t, c) /\ misses' \in 0 .. MaxMisses
    BY <1>5, KafkaTypes, KafkaAssumption DEF Reassign, Rebalance, Misses
  <2>. QED
    BY <2>1, ReassignInv
<1>. QED
  BY <1>1, <1>4, <1>5, KafkaCloseInv, ProcessCrashInv, ConsumerStoppedInv DEF KafkaNext

\* KafkaInv does not depend on the rest of the state.
LEMMA KafkaKeptInv == ASSUME KafkaInv, UNCHANGED kafkaVars PROVE KafkaInv'
<1>1. KafkaTypeOK'
  BY DEF KafkaInv, KafkaTypeOK, kafkaVars
<1>2. FlightInv' /\ OffsetInv'
  BY OffsetsKept DEF KafkaInv, kafkaVars
<1>3. ServedInv'
  BY ServiceKept DEF KafkaInv, kafkaVars
<1>. QED
  BY <1>1, <1>2, <1>3 DEF KafkaInv

\* What the invariant says of the properties.
LEMMA KafkaInvImplies ==
    ASSUME KafkaInv
    PROVE  CommittedWasConsumed /\ ResolvedIsAttached /\ NoConsumerLeaked
<1>1. CommittedWasConsumed
  BY DEF KafkaInv, OffsetInv
<1>2. ResolvedIsAttached /\ NoConsumerLeaked
  <2>. SUFFICES ASSUME ~raced, NEW c \in Calls
                PROVE  /\ call[c].pc = "resolved" =>
                             LET d == registry[home[c]]
                             IN  d # None /\ Member(d, wanted[c])
                                 /\ wanted[c] \in consumer[d].handlers
                       /\ consumer[c].state = "connected" =>
                             \/ registry[home[c]] = c
                             \/ c \in closing[home[c]]
                             \/ call[c].pc = "cleanup"
    BY DEF ResolvedIsAttached, NoConsumerLeaked
  <2>1. PICK p \in Processes : home[c] = p
    BY KafkaTypes
  <2>2. ServedAt(p) /\ c \in Own(p)
    BY <2>1 DEF KafkaInv, ServedInv, Own
  <2>. QED
    BY <2>1, <2>2 DEF ServedAt, ResolvedInv, RegistryInv, LeakInv, Member, Live
<1>. QED
  BY <1>1, <1>2

------------------------------------------------------------------------------
(* SqsSubscriber                                                             *)

SubscriberState ==
    [pc : {"idle", "policy", "setPolicy", "subscribe", "ready", "rejected"},
     read : SUBSET (Arns \cup {Foreign}),
     stopping : BOOLEAN, stopped : BOOLEAN, closed : BOOLEAN]
Receipts == [msg : Messages, handle : Nat]
PollerState == [pc : {"off", "receive", "handling", "delete", "delay", "done"},
                batch : Seq(Receipts)]

SqsTypes ==
    /\ sub \in [Subscribers -> SubscriberState]
    /\ poller \in [PollLoops -> PollerState]
    /\ receipts \in [Messages -> Nat]
    /\ policy \subseteq Arns \cup {Foreign}

\* A loop that handles or deletes has a message in hand, and deletes what was handled or
\* cannot be.
PollInv == \A l \in PollLoops :
    /\ poller[l].pc \in {"handling", "delete"} => poller[l].batch # <<>>
    /\ poller[l].pc = "delete" => Head(poller[l].batch).msg \in processed \cup Unreadable

\* A subscriber is told to stop when its setup is over, and closed when its loops are.
DrainInv == \A s \in Subscribers :
    /\ sub[s].stopped => sub[s].stopping /\ sub[s].pc \in {"idle", "ready", "rejected"}
    /\ sub[s].closed => /\ sub[s].stopped
                        /\ \A n \in Pollers : poller[<<s, n>>].pc \in {"off", "done"}

\* While no two provisionings overlapped, the one under way has read the policy as it is.
PolicyInv == ~overwrote =>
    /\ \A s, t \in Subscribers : sub[s].pc = "setPolicy" /\ sub[t].pc = "setPolicy" => s = t
    /\ \A s \in Subscribers : sub[s].pc = "setPolicy" => sub[s].read = policy
    /\ Foreign \in policy
    /\ \A s \in Subscribers : sub[s].pc \in {"subscribe", "ready"} => ArnOf[s] \in policy

SqsInv == SqsTypes /\ RemovedWasProcessed /\ PollInv /\ DrainInv /\ PolicyInv

\* The initial states satisfy SqsInv.
LEMMA SqsInitInv == SqsInit => SqsInv
<1>. SUFFICES ASSUME SqsInit PROVE SqsInv
  OBVIOUS
<1>. USE DEF SqsInit
<1>1. SqsTypes
  <2>1. sub \in [Subscribers -> SubscriberState]
    BY DEF SubscriberState
  <2>2. [pc |-> "off", batch |-> <<>>] \in PollerState
    BY DEF PollerState, Receipts
  <2>. QED
    BY <2>1, <2>2 DEF SqsTypes
<1>2. RemovedWasProcessed /\ PollInv /\ DrainInv /\ PolicyInv
  BY DEF RemovedWasProcessed, PollInv, DrainInv, PolicyInv, PollLoops
<1>. QED
  BY <1>1, <1>2 DEF SqsInv

\* A step of a subscriber, its loops as they are: what its own state has to satisfy.
LEMMA SubscriberStep ==
    ASSUME SqsInv, NEW s \in Subscribers, UNCHANGED <<poller, queueVars>>,
           sub' \in [Subscribers -> SubscriberState],
           \A t \in Subscribers \ {s} : sub'[t] = sub[t],
           policy' \subseteq Arns \cup {Foreign},
           sub'[s].stopped => sub'[s].stopping /\ sub'[s].pc \in {"idle", "ready", "rejected"},
           sub'[s].closed => /\ sub'[s].stopped
                             /\ \A n \in Pollers : poller[<<s, n>>].pc \in {"off", "done"},
           PolicyInv'
    PROVE  SqsInv'
<1>. USE DEF SqsInv, queueVars
<1>1. SqsTypes' /\ RemovedWasProcessed' /\ PollInv'
  BY DEF SqsTypes, RemovedWasProcessed, PollInv
<1>2. DrainInv'
  BY DEF DrainInv
<1>. QED
  BY <1>1, <1>2

\* A step that changes only its own subscriber's flags or place leaves the policy as safe.
LEMMA PolicyInvKept ==
    ASSUME SqsInv, NEW s \in Subscribers, UNCHANGED <<policy, overwrote>>,
           \A t \in Subscribers \ {s} : sub'[t] = sub[t],
           \/ sub'[s].pc \in {"idle", "policy", "rejected"}
           \/ sub'[s].pc = sub[s].pc /\ sub'[s].read = sub[s].read
           \/ sub'[s].pc = "ready" /\ sub[s].pc = "subscribe"
    PROVE  PolicyInv'
BY DEF SqsInv, PolicyInv

\* A loop goes on in its own place.
LEMMA PollerStep ==
    ASSUME SqsInv, NEW l \in PollLoops, UNCHANGED <<policy, sub, overwrote>>,
           poller[l].pc \notin {"off", "done"},
           poller' \in [PollLoops -> PollerState],
           \A k \in PollLoops \ {l} : poller'[k] = poller[k],
           receipts' \in [Messages -> Nat],
           RemovedWasProcessed', processed \subseteq processed',
           poller'[l].pc \in {"handling", "delete"} => poller'[l].batch # <<>>,
           poller'[l].pc = "delete" => Head(poller'[l].batch).msg \in processed' \cup Unreadable
    PROVE  SqsInv'
<1>. USE DEF SqsInv
<1>1. SqsTypes'
  BY DEF SqsTypes
<1>2. PollInv'
  BY DEF PollInv
<1>3. DrainInv'
  <2>1. \A s \in Subscribers, n \in Pollers : <<s, n>> \in PollLoops
    BY DEF PollLoops
  <2>. QED
    BY <2>1 DEF DrainInv
<1>4. PolicyInv'
  BY DEF PolicyInv
<1>. QED
  BY <1>1, <1>2, <1>3, <1>4

\* Where the head of the loop leads.
LEMMA LoopGoesOn ==
    ASSUME SqsInv, NEW l \in PollLoops, NEW rest \in Seq(Receipts), LoopGoes(l, rest)
    PROVE  /\ poller' \in [PollLoops -> PollerState]
           /\ \A k \in PollLoops \ {l} : poller'[k] = poller[k]
           /\ poller'[l].pc \in {"handling", "delete"} => poller'[l].batch # <<>>
           /\ poller'[l].pc = "delete" => Head(poller'[l].batch).msg \in Unreadable
<1>1. PICK p \in PollerState :
         /\ poller' = [poller EXCEPT ![l] = p]
         /\ p.pc \in {"handling", "delete"} => p.batch # <<>>
         /\ p.pc = "delete" => Head(p.batch).msg \in Unreadable
  <2>1. CASE sub[l[1]].stopped
    <3>1. [pc |-> "done", batch |-> <<>>] \in PollerState
      BY DEF PollerState
    <3>. QED
      BY <2>1, <3>1 DEF LoopGoes
  <2>2. CASE ~sub[l[1]].stopped /\ rest = <<>>
    <3>1. [pc |-> "receive", batch |-> <<>>] \in PollerState
      BY DEF PollerState
    <3>2. poller' = [poller EXCEPT ![l] = [pc |-> "receive", batch |-> <<>>]]
      BY <2>2 DEF LoopGoes
    <3>. QED
      BY <3>1, <3>2
  <2>3. CASE ~sub[l[1]].stopped /\ rest # <<>> /\ Head(rest).msg \in Unreadable
    <3>1. [pc |-> "delete", batch |-> rest] \in PollerState
      BY DEF PollerState
    <3>2. poller' = [poller EXCEPT ![l] = [pc |-> "delete", batch |-> rest]]
      BY <2>3 DEF LoopGoes
    <3>. QED
      BY <2>3, <3>1, <3>2
  <2>4. CASE ~sub[l[1]].stopped /\ rest # <<>> /\ Head(rest).msg \notin Unreadable
    <3>1. [pc |-> "handling", batch |-> rest] \in PollerState
      BY DEF PollerState
    <3>2. poller' = [poller EXCEPT ![l] = [pc |-> "handling", batch |-> rest]]
      BY <2>4 DEF LoopGoes
    <3>. QED
      BY <2>4, <3>1, <3>2
  <2>. QED
    BY <2>1, <2>2, <2>3, <2>4
<1>2. poller \in [PollLoops -> PollerState]
  BY DEF SqsInv, SqsTypes
<1>. QED
  BY <1>1, <1>2

\* Received keeps SqsInv.
LEMMA ReceivedInv == ASSUME SqsInv, NEW l \in PollLoops, Received(l) PROVE SqsInv'
<1>0. PICK n \in 1 .. BatchSize : \E ms \in [1 .. n -> Available] :
         /\ poller[l].pc = "receive"
         /\ receipts' = [m \in Messages |-> IF \E i \in 1 .. n : ms[i] = m THEN receipts[m] + 1
                                            ELSE receipts[m]]
         /\ LoopGoes(l, [i \in 1 .. n |-> Receipt(ms[i])])
         /\ UNCHANGED <<policy, sub, removed, processed, overwrote, errors>>
  BY DEF Received
<1>1. PICK ms \in [1 .. n -> Available] :
         /\ poller[l].pc = "receive"
         /\ receipts' = [m \in Messages |-> IF \E i \in 1 .. n : ms[i] = m THEN receipts[m] + 1
                                            ELSE receipts[m]]
         /\ LoopGoes(l, [i \in 1 .. n |-> Receipt(ms[i])])
         /\ UNCHANGED <<policy, sub, removed, processed, overwrote, errors>>
  BY <1>0
<1>2. n \in Nat
  BY SqsAssumption
<1>3. receipts \in [Messages -> Nat]
  BY DEF SqsInv, SqsTypes
<1>4. \A i \in 1 .. n : Receipt(ms[i]) \in Receipts
  BY <1>1, <1>3 DEF Receipt, Receipts, Available
<1>5. [i \in 1 .. n |-> Receipt(ms[i])] \in Seq(Receipts)
  BY <1>2, <1>4
<1>6. receipts' \in [Messages -> Nat]
  BY <1>1, <1>3
<1>7. RemovedWasProcessed' /\ processed' = processed
  BY <1>1 DEF SqsInv, RemovedWasProcessed
<1>. QED
  BY <1>1, <1>5, <1>6, <1>7, LoopGoesOn, PollerStep

\* Handled keeps SqsInv.
LEMMA HandledInv == ASSUME SqsInv, NEW l \in PollLoops, MessageHandled(l) PROVE SqsInv'
<1>. USE DEF SqsInv, MessageHandled
<1>1. poller \in [PollLoops -> PollerState]
  BY DEF SqsTypes
<1>2. /\ poller' \in [PollLoops -> PollerState]
      /\ \A k \in PollLoops \ {l} : poller'[k] = poller[k]
      /\ poller'[l].pc = "delete" /\ poller'[l].batch = poller[l].batch
  BY <1>1 DEF PollerState
<1>3. poller[l].batch # <<>>
  BY DEF PollInv
<1>4. RemovedWasProcessed' /\ processed \subseteq processed'
  BY DEF RemovedWasProcessed
<1>5. receipts' \in [Messages -> Nat]
  BY DEF SqsTypes
<1>. QED
  BY <1>2, <1>3, <1>4, <1>5, PollerStep

\* Deleted keeps SqsInv.
LEMMA DeletedInv == ASSUME SqsInv, NEW l \in PollLoops, MessageDeleted(l) PROVE SqsInv'
<1>. DEFINE r == Head(poller[l].batch)
<1>1. /\ poller[l].pc = "delete"
      /\ removed' \subseteq removed \cup {r.msg}
      /\ LoopGoes(l, Tail(poller[l].batch))
      /\ UNCHANGED <<policy, sub, receipts, processed, overwrote>>
  BY DEF MessageDeleted
<1>2. poller[l].batch # <<>> /\ r.msg \in processed \cup Unreadable
  BY <1>1 DEF SqsInv, PollInv
<1>3. Tail(poller[l].batch) \in Seq(Receipts)
  <2>1. poller[l].batch \in Seq(Receipts)
    BY DEF SqsInv, SqsTypes, PollerState
  <2>. QED
    BY <1>2, <2>1
<1>4. RemovedWasProcessed' /\ processed' = processed
  BY <1>1, <1>2 DEF SqsInv, RemovedWasProcessed
<1>5. receipts' \in [Messages -> Nat]
  BY <1>1 DEF SqsInv, SqsTypes
<1>. QED
  BY <1>1, <1>3, <1>4, <1>5, LoopGoesOn, PollerStep

\* PollStep keeps SqsInv.
LEMMA PollStepInv == ASSUME SqsInv, NEW l \in PollLoops, (PollStep(l) \/ PollFails(l)) PROVE SqsInv'
<1>1. CASE ReceivedNone(l) \/ DelayOver(l)
  <2>1. /\ poller[l].pc \in {"receive", "delay"} /\ LoopGoes(l, <<>>)
        /\ UNCHANGED <<policy, sub, queueVars, overwrote>>
    BY <1>1 DEF ReceivedNone, DelayOver
  <2>2. <<>> \in Seq(Receipts)
    OBVIOUS
  <2>3. RemovedWasProcessed' /\ processed' = processed /\ receipts' \in [Messages -> Nat]
    BY <2>1 DEF SqsInv, SqsTypes, RemovedWasProcessed, queueVars
  <2>. QED
    BY <2>1, <2>2, <2>3, LoopGoesOn, PollerStep
<1>2. CASE PollFails(l)
  <2>1. /\ poller[l].pc \in {"receive", "handling", "delete"}
        /\ UNCHANGED <<policy, sub, queueVars, overwrote>>
    BY <1>2 DEF PollFails
  <2>2. PICK c \in {"done", "delay"} : poller' = [poller EXCEPT ![l] = [pc |-> c, batch |-> <<>>]]
    BY <1>2 DEF PollFails
  <2>3. [pc |-> c, batch |-> <<>>] \in PollerState
    BY DEF PollerState
  <2>4. poller \in [PollLoops -> PollerState]
    BY DEF SqsInv, SqsTypes
  <2>5. /\ poller' \in [PollLoops -> PollerState]
        /\ \A k \in PollLoops \ {l} : poller'[k] = poller[k]
        /\ poller'[l].pc \in {"done", "delay"}
    BY <2>2, <2>3, <2>4
  <2>6. RemovedWasProcessed' /\ processed' = processed /\ receipts' \in [Messages -> Nat]
    BY <2>1 DEF SqsInv, SqsTypes, RemovedWasProcessed, queueVars
  <2>. QED
    BY <2>1, <2>5, <2>6, PollerStep
<1>. QED
  BY <1>1, <1>2, ReceivedInv, HandledInv, DeletedInv DEF PollStep

\* PolicyRead keeps SqsInv.
LEMMA ReadInv == ASSUME SqsInv, NEW s \in Subscribers, PolicyRead(s) PROVE SqsInv'
<1>. USE DEF SqsInv, PolicyRead
<1>1. /\ sub' \in [Subscribers -> SubscriberState]
      /\ \A t \in Subscribers \ {s} : sub'[t] = sub[t]
      /\ sub'[s].pc = "setPolicy" /\ sub'[s].read = policy
      /\ sub'[s].stopped = sub[s].stopped /\ sub'[s].closed = sub[s].closed
  BY DEF SqsTypes, SubscriberState
<1>2. PolicyInv'
  BY <1>1 DEF PolicyInv
<1>3. ~sub[s].stopped /\ ~sub[s].closed
  BY DEF DrainInv
<1>. QED
  BY <1>1, <1>2, <1>3, SubscriberStep DEF SqsTypes

\* PolicyMerged keeps SqsInv.
LEMMA MergedInv == ASSUME SqsInv, NEW s \in Subscribers, PolicyMerged(s) PROVE SqsInv'
<1>. USE DEF SqsInv, PolicyMerged
<1>1. /\ sub' \in [Subscribers -> SubscriberState]
      /\ \A t \in Subscribers \ {s} : sub'[t] = sub[t]
      /\ sub'[s].pc = "subscribe"
      /\ sub'[s].stopped = sub[s].stopped /\ sub'[s].closed = sub[s].closed
  BY DEF SqsTypes, SubscriberState
<1>2. PolicyInv'
  BY <1>1 DEF PolicyInv
<1>3. ~sub[s].stopped /\ ~sub[s].closed
  BY DEF DrainInv
<1>4. policy' \subseteq Arns \cup {Foreign}
  <2>1. sub[s] \in SubscriberState /\ ArnOf[s] \in Arns
    BY SqsAssumption DEF SqsTypes
  <2>2. sub[s].read \subseteq Arns \cup {Foreign}
    BY <2>1 DEF SubscriberState
  <2>3. policy' = sub[s].read \cup {ArnOf[s]}
    OBVIOUS
  <2>. QED
    BY ONLY <2>1, <2>2, <2>3
<1>. QED
  BY <1>1, <1>2, <1>3, <1>4, SubscriberStep

\* QueueReady keeps SqsInv.
LEMMA ReadyInv == ASSUME SqsInv, NEW s \in Subscribers, QueueReady(s) PROVE SqsInv'
<1>. USE DEF SqsInv, QueueReady
<1>1. ~sub[s].stopped /\ ~sub[s].closed
  BY DEF DrainInv
<1>2. /\ sub' \in [Subscribers -> SubscriberState]
      /\ \A t \in Subscribers \ {s} : sub'[t] = sub[t]
      /\ sub'[s].pc \in {"ready", "rejected"}
      /\ sub'[s].stopped = sub[s].stopped /\ sub'[s].closed = sub[s].closed
  BY DEF SqsTypes, SubscriberState
<1>3. PolicyInv'
  BY <1>2, PolicyInvKept
<1>4. CASE UNCHANGED poller
  BY <1>1, <1>2, <1>3, <1>4, SubscriberStep DEF SqsTypes
<1>5. CASE poller' = [l \in PollLoops |-> IF l[1] = s THEN [poller[l] EXCEPT !.pc = "receive"]
                                          ELSE poller[l]]
  <2>1. /\ poller' \in [PollLoops -> PollerState]
        /\ \A l \in PollLoops : \/ poller'[l] = poller[l]
                                \/ l[1] = s /\ poller'[l].pc = "receive"
    BY <1>5 DEF SqsTypes, PollerState
  <2>2. SqsTypes' /\ RemovedWasProcessed' /\ PollInv'
    BY <1>2, <2>1 DEF SqsTypes, RemovedWasProcessed, PollInv, queueVars
  <2>3. DrainInv'
    <3>1. \A t \in Subscribers, n \in Pollers : <<t, n>> \in PollLoops /\ <<t, n>>[1] = t
      BY DEF PollLoops
    <3>. QED
      BY <1>1, <1>2, <2>1, <3>1 DEF DrainInv
  <2>. QED
    BY <1>3, <2>2, <2>3
<1>. QED
  BY <1>4, <1>5

\* The steps that touch no message keep SqsInv.
LEMMA PlainInv ==
    ASSUME SqsInv, NEW s \in Subscribers,
           SqsConsume(s) \/ ProvisioningFails(s) \/ SqsClose(s) \/ CloseStep(s)
    PROVE  SqsInv'
<1>. USE DEF SqsInv
<1>0. sub \in [Subscribers -> SubscriberState] /\ policy \subseteq Arns \cup {Foreign}
  BY DEF SqsTypes
<1>1. CASE SqsConsume(s)
  <2>1. /\ sub' \in [Subscribers -> SubscriberState]
        /\ \A t \in Subscribers \ {s} : sub'[t] = sub[t]
        /\ sub'[s].pc = IF sub[s].stopping THEN "rejected" ELSE "policy"
        /\ sub'[s].stopping = sub[s].stopping
        /\ sub'[s].stopped = sub[s].stopped /\ sub'[s].closed = sub[s].closed
        /\ UNCHANGED <<policy, poller, queueVars, overwrote>>
    BY <1>0, <1>1 DEF SqsConsume, SubscriberState
  <2>2. PolicyInv'
    BY <2>1, PolicyInvKept
  <2>. QED
    BY <1>0, <2>1, <2>2, SubscriberStep DEF DrainInv
<1>2. CASE ProvisioningFails(s)
  <2>1. /\ sub' \in [Subscribers -> SubscriberState]
        /\ \A t \in Subscribers \ {s} : sub'[t] = sub[t]
        /\ sub'[s].pc = "idle" /\ sub'[s].stopping = sub[s].stopping
        /\ sub'[s].stopped = sub[s].stopped /\ sub'[s].closed = sub[s].closed
        /\ UNCHANGED <<policy, poller, queueVars, overwrote>>
    BY <1>0, <1>2 DEF ProvisioningFails, SubscriberState
  <2>2. PolicyInv'
    BY <2>1, PolicyInvKept
  <2>. QED
    BY <1>0, <2>1, <2>2, SubscriberStep DEF DrainInv
<1>3. CASE SqsClose(s) \/ SqsStops(s) \/ SqsDrained(s)
  <2>1. /\ sub' \in [Subscribers -> SubscriberState]
        /\ \A t \in Subscribers \ {s} : sub'[t] = sub[t]
        /\ sub'[s].pc = sub[s].pc /\ sub'[s].read = sub[s].read
        /\ UNCHANGED <<policy, poller, queueVars, overwrote>>
    <3>1. UNCHANGED <<policy, poller, queueVars, overwrote>>
      BY <1>3 DEF SqsClose, SqsStops, SqsDrained
    <3>2. CASE sub' = [sub EXCEPT ![s].stopping = TRUE]
      BY <1>0, <3>1, <3>2 DEF SubscriberState
    <3>3. CASE sub' = [sub EXCEPT ![s].stopped = TRUE]
      BY <1>0, <3>1, <3>3 DEF SubscriberState
    <3>4. CASE sub' = [sub EXCEPT ![s].closed = TRUE]
      BY <1>0, <3>1, <3>4 DEF SubscriberState
    <3>. QED
      BY <1>3, <3>2, <3>3, <3>4 DEF SqsClose, SqsStops, SqsDrained
  <2>2. PolicyInv'
    BY <2>1, PolicyInvKept
  <2>3. /\ sub'[s].stopped => sub'[s].stopping /\ sub'[s].pc \in {"idle", "ready", "rejected"}
        /\ sub'[s].closed => /\ sub'[s].stopped
                             /\ \A n \in Pollers : poller[<<s, n>>].pc \in {"off", "done"}
    <3>1. CASE SqsClose(s)
      BY <1>0, <2>1, <3>1 DEF SqsClose, SubscriberState, DrainInv
    <3>2. CASE SqsStops(s)
      BY <1>0, <2>1, <3>2 DEF SqsStops, SubscriberState, DrainInv
    <3>3. CASE SqsDrained(s)
      BY <1>0, <2>1, <3>3 DEF SqsDrained, SubscriberState, DrainInv
    <3>. QED
      BY <1>3, <3>1, <3>2, <3>3
  <2>. QED
    BY <1>0, <2>1, <2>2, <2>3, SubscriberStep
<1>. QED
  BY <1>1, <1>2, <1>3 DEF CloseStep

\* Every step of the subscribers of a queue preserves its invariant.
LEMMA SqsNextInv == ASSUME SqsInv, SqsNext PROVE SqsInv'
<1>1. ASSUME NEW m \in Messages, VisibilityEnds(m) PROVE SqsInv'
  BY <1>1 DEF VisibilityEnds, SqsInv, SqsTypes, RemovedWasProcessed, PollInv, DrainInv, PolicyInv
<1>. QED
  BY <1>1, PollStepInv, ReadInv, MergedInv, ReadyInv, PlainInv DEF SqsNext, ProvisionStep

\* SqsInv does not depend on the rest of the state.
LEMMA SqsKeptInv == ASSUME SqsInv, UNCHANGED sqsVars PROVE SqsInv'
BY DEF sqsVars, SqsInv, SqsTypes, RemovedWasProcessed, PollInv, DrainInv, PolicyInv

\* What SqsInv says of the checked invariants.
LEMMA SqsInvImplies == SqsInv => RemovedWasProcessed /\ ClosedIsDrained /\ PolicyKept
BY DEF SqsInv, DrainInv, PolicyInv, ClosedIsDrained, PolicyKept

------------------------------------------------------------------------------
(* ServiceBusSubscriber                                                      *)

RequestState ==
    [pc : {"idle", "getQueue", "getTopic", "createQueue", "createTopic", "getSub",
           "createSub", "attach", "resolved", "ignored"}, queue : BOOLEAN]

BusTypes ==
    /\ queueMode \in BOOLEAN
    /\ receivers \subseteq Requests
    /\ request \in [Requests -> RequestState]
    /\ shutting \in BOOLEAN /\ closeLeft \subseteq Requests
    /\ doubled \in BOOLEAN /\ troubles \in 0 .. MaxTroubles

\* Where a call stands: in which of the two modes, and while no request was rejected, with
\* what is there.
EntityInv == \A r \in Requests :
    /\ request[r].pc \in {"idle", "getQueue", "getTopic", "createQueue", "createTopic"} =>
          request[r].queue = queueMode
    /\ request[r].pc \in {"getQueue", "createQueue"} => queueMode
    /\ request[r].pc = "createTopic" => ~queueMode
    /\ request[r].pc \in {"getSub", "createSub"} =>
          /\ ~request[r].queue
          /\ troubles = 0 => TopicFor[r] \in topics
    /\ request[r].pc \in {"attach", "resolved"} /\ troubles = 0 => Entity(r)

\* A key has one call under way, and none while it has a receiver or close() runs.
ReceiverInv == ~doubled =>
    /\ \A r \in Requests : Waits(r) =>
          /\ ~shutting /\ Mapped(Key(r)) = {}
          /\ \A q \in Requests : Key(q) = Key(r) /\ Waits(q) => q = r
    /\ ~shutting => closeLeft = {}
    /\ open \subseteq receivers \cup unclosed
    /\ shutting => open \subseteq closeLeft \cup unclosed

BusInv == BusTypes /\ CompletedWasServed /\ EntityInv /\ ReceiverInv

\* The initial states satisfy BusInv.
LEMMA BusInitInv == BusInit => BusInv
<1>. SUFFICES ASSUME BusInit PROVE BusInv
  OBVIOUS
<1>. USE DEF BusInit
<1>1. BusTypes
  <2>1. request \in [Requests -> RequestState]
    BY DEF RequestState
  <2>2. troubles \in 0 .. MaxTroubles
    BY ServiceBusAssumption
  <2>. QED
    BY <2>1, <2>2 DEF BusTypes
<1>2. CompletedWasServed /\ EntityInv
  BY DEF CompletedWasServed, EntityInv
<1>3. ReceiverInv
  BY DEF ReceiverInv, Waits
<1>. QED
  BY <1>1, <1>2, <1>3 DEF BusInv

\* What a step of a call changes of its own entry.
LEMMA Went ==
    ASSUME BusTypes, NEW r \in Requests, NEW pc, Goes(r, pc)
    PROVE  /\ \A q \in Requests \ {r} : request'[q] = request[q]
           /\ request'[r] = [request[r] EXCEPT !.pc = pc]
           /\ request'[r].pc = pc /\ request'[r].queue = request[r].queue
BY DEF BusTypes, RequestState, Goes

\* What was completed was served, and what is completed now is: it stays so.
LEMMA CompletedKept ==
    ASSUME CompletedWasServed, UNCHANGED queueMode, served \subseteq served',
           \A k, m : <<k, m>> \in completed' =>
              \/ <<k, m>> \in completed
              \/ \E r \in Requests : Key(r) = k /\ <<r, m>> \in served'
    PROVE  CompletedWasServed'
<1>1. (\A q : Key(q)' = Key(q)) /\ Keys' = Keys
  BY DEF Key, Keys
<1>2. SUFFICES ASSUME NEW k \in Keys, NEW m \in Letters, <<k, m>> \in completed'
               PROVE  \E r \in Requests : Key(r) = k /\ <<r, m>> \in served'
  BY <1>1 DEF CompletedWasServed
<1>. QED
  BY <1>2 DEF CompletedWasServed

\* A fault is counted, or none happened.
Counted == \/ UNCHANGED troubles
           \/ troubles' # 0 /\ troubles' \in 0 .. MaxTroubles

\* A request of provisioning is answered or rejected: the receivers stay as they are, and
\* what is known of entities goes on from there.
LEMMA ProvisionedInv ==
    ASSUME BusInv, NEW r \in Requests, Waits(r), Counted,
           \A q \in Requests \ {r} : request'[q] = request[q],
           request' \in [Requests -> RequestState],
           request'[r].pc \notin {"idle", "resolved", "ignored"},
           queues \subseteq queues', topics \subseteq topics', subs \subseteq subs',
           UNCHANGED <<queueMode, receivers, open, shutVars, lockVars, busHistory>>,
           /\ request'[r].pc \in {"getTopic", "createQueue", "createTopic"} =>
                 request'[r].queue = queueMode
           /\ request'[r].pc # "getQueue"
           /\ request'[r].pc = "createQueue" => queueMode
           /\ request'[r].pc = "createTopic" => ~queueMode
           /\ request'[r].pc \in {"getSub", "createSub"} =>
                 /\ ~request'[r].queue
                 /\ troubles' = 0 => TopicFor[r] \in topics'
           /\ request'[r].pc = "attach" /\ troubles' = 0 => Entity(r)'
    PROVE  BusInv'
<1>. USE DEF BusInv, shutVars, lockVars, busHistory, Counted
<1>1. \A q \in Requests : Key(q)' = Key(q)
  BY DEF Key
<1>2. CompletedWasServed'
  BY CompletedKept
<1>3. \A q \in Requests : Waits(q)' => Waits(q)
  BY DEF Waits
<1>4. \A q \in Requests : Mapped(Key(q))' = Mapped(Key(q))
  BY <1>1 DEF Mapped, BusTypes
<1>5. ReceiverInv'
  BY <1>1, <1>3, <1>4 DEF ReceiverInv
<1>6. EntityInv'
  <2>1. \A q \in Requests \ {r} : Entity(q) => Entity(q)'
    BY DEF Entity
  <2>2. troubles' = 0 => troubles = 0
    BY DEF BusTypes
  <2>. QED
    BY <2>1, <2>2 DEF EntityInv
<1>. QED
  BY <1>2, <1>5, <1>6 DEF BusTypes

\* Every trouble is counted.
LEMMA BusCounted == ASSUME BusInv, Trouble PROVE troubles' # 0 /\ troubles' \in 0 .. MaxTroubles
BY ServiceBusAssumption DEF BusInv, BusTypes, Trouble

\* QueueLooked keeps BusInv.
LEMMA QueueLookedInv ==
    ASSUME BusInv, NEW r \in Requests, QueueLooked(r) PROVE BusInv'
<1>0. /\ BusTypes /\ EntityInv /\ request[r].pc = "getQueue" /\ Waits(r)
      /\ UNCHANGED <<queueMode, queues, topics, subs, receivers, open, shutVars, lockVars, busHistory>>
      /\ request[r].queue = queueMode /\ queueMode
  BY DEF BusInv, EntityInv, Waits, QueueLooked, entities
<1>1. CASE Goes(r, "attach") /\ TopicFor[r] \in queues /\ Smooth
  <2>1. Entity(r)' /\ request' \in [Requests -> RequestState] /\ request'[r].pc = "attach"
    BY <1>0, <1>1, Went DEF Entity, BusTypes, RequestState, Goes
  <2>. QED
    BY <1>0, <1>1, <2>1, Went, ProvisionedInv DEF Counted, Smooth
<1>2. CASE Goes(r, "getTopic") /\ Counted
  <2>1. request' \in [Requests -> RequestState] /\ request'[r].pc = "getTopic"
    BY <1>0, <1>2, Went DEF BusTypes, RequestState, Goes
  <2>. QED
    BY <1>0, <1>2, <2>1, Went, ProvisionedInv
<1>. QED
  BY <1>1, <1>2, BusCounted DEF QueueLooked, Looked, Smooth, Counted

\* TopicLooked keeps BusInv.
LEMMA TopicLookedInv ==
    ASSUME BusInv, NEW r \in Requests, TopicLooked(r) PROVE BusInv'
<1>0. /\ BusTypes /\ EntityInv /\ request[r].pc = "getTopic" /\ Waits(r)
      /\ UNCHANGED <<queueMode, queues, topics, subs, receivers, open, shutVars, lockVars, busHistory>>
      /\ request[r].queue = queueMode
  BY DEF BusInv, EntityInv, Waits, TopicLooked, entities
<1>1. CASE /\ request' = [request EXCEPT ![r] = [pc |-> "getSub", queue |-> FALSE]]
           /\ TopicFor[r] \in topics /\ Smooth
  <2>1. /\ request' \in [Requests -> RequestState]
        /\ request'[r].pc = "getSub" /\ ~request'[r].queue
        /\ \A q \in Requests \ {r} : request'[q] = request[q]
    BY <1>0, <1>1 DEF BusTypes, RequestState
  <2>. QED
    BY <1>0, <1>1, <2>1, ProvisionedInv DEF Counted, Smooth
<1>2. CASE Goes(r, IF queueMode THEN "createQueue" ELSE "createTopic") /\ Counted
  <2>1. /\ request' \in [Requests -> RequestState]
        /\ request'[r].pc = IF queueMode THEN "createQueue" ELSE "createTopic"
    BY <1>0, <1>2, Went DEF BusTypes, RequestState, Goes
  <2>. QED
    BY <1>0, <1>2, <2>1, Went, ProvisionedInv
<1>. QED
  BY <1>1, <1>2, BusCounted DEF TopicLooked, Looked, Smooth, Counted

\* SubscriptionLooked keeps BusInv.
LEMMA SubscriptionLookedInv ==
    ASSUME BusInv, NEW r \in Requests, SubscriptionLooked(r) PROVE BusInv'
<1>0. /\ BusTypes /\ EntityInv /\ request[r].pc = "getSub" /\ Waits(r)
      /\ UNCHANGED <<queueMode, queues, topics, subs, receivers, open, shutVars, lockVars, busHistory>>
      /\ ~request[r].queue /\ (troubles = 0 => TopicFor[r] \in topics)
  BY DEF BusInv, EntityInv, Waits, SubscriptionLooked, entities
<1>1. CASE Goes(r, "attach") /\ <<TopicFor[r], GroupFor[r]>> \in subs /\ Smooth
  <2>1. Entity(r)' /\ request' \in [Requests -> RequestState] /\ request'[r].pc = "attach"
    BY <1>0, <1>1, Went DEF Entity, BusTypes, RequestState, Goes
  <2>. QED
    BY <1>0, <1>1, <2>1, Went, ProvisionedInv DEF Counted, Smooth
<1>2. CASE Goes(r, "createSub") /\ Counted
  <2>1. request' \in [Requests -> RequestState] /\ request'[r].pc = "createSub"
    BY <1>0, <1>2, Went DEF BusTypes, RequestState, Goes
  <2>2. troubles' = 0 => troubles = 0
    BY <1>0, <1>2 DEF Counted
  <2>. QED
    BY <1>0, <1>2, <2>1, <2>2, Went, ProvisionedInv
<1>. QED
  BY <1>1, <1>2, BusCounted DEF SubscriptionLooked, Looked, Smooth, Counted

\* QueueCreated keeps BusInv.
LEMMA QueueCreatedInv ==
    ASSUME BusInv, NEW r \in Requests, QueueCreated(r) PROVE BusInv'
<1>0. /\ BusTypes /\ EntityInv /\ request[r].pc = "createQueue" /\ Waits(r)
      /\ UNCHANGED <<queueMode, topics, subs, receivers, open, shutVars, lockVars, busHistory>>
      /\ request[r].queue = queueMode /\ queueMode /\ Goes(r, "attach")
      /\ queues \subseteq queues'
  BY DEF BusInv, EntityInv, Waits, QueueCreated
<1>1. request' \in [Requests -> RequestState] /\ request'[r].pc = "attach"
  BY <1>0, Went DEF BusTypes, RequestState, Goes
<1>2. Counted /\ (troubles' = 0 => TopicFor[r] \in queues')
  BY BusCounted DEF QueueCreated, Counted, Smooth
<1>3. troubles' = 0 => Entity(r)'
  BY <1>0, <1>2, Went DEF Entity
<1>. QED
  BY <1>0, <1>1, <1>2, <1>3, Went, ProvisionedInv

\* TopicCreated keeps BusInv.
LEMMA TopicCreatedInv ==
    ASSUME BusInv, NEW r \in Requests, TopicCreated(r) PROVE BusInv'
<1>0. /\ BusTypes /\ EntityInv /\ request[r].pc = "createTopic" /\ Waits(r)
      /\ UNCHANGED <<queueMode, queues, subs, receivers, open, shutVars, lockVars, busHistory>>
      /\ request[r].queue = queueMode /\ ~queueMode /\ Goes(r, "getSub")
      /\ topics \subseteq topics'
  BY DEF BusInv, EntityInv, Waits, TopicCreated
<1>1. request' \in [Requests -> RequestState] /\ request'[r].pc = "getSub"
  BY <1>0, Went DEF BusTypes, RequestState, Goes
<1>2. Counted /\ (troubles' = 0 => TopicFor[r] \in topics')
  BY BusCounted DEF TopicCreated, Counted, Smooth
<1>. QED
  BY <1>0, <1>1, <1>2, Went, ProvisionedInv

\* SubscriptionCreated keeps BusInv.
LEMMA SubscriptionCreatedInv ==
    ASSUME BusInv, NEW r \in Requests, SubscriptionCreated(r) PROVE BusInv'
<1>0. /\ BusTypes /\ EntityInv /\ request[r].pc = "createSub" /\ Waits(r)
      /\ UNCHANGED <<queueMode, queues, topics, receivers, open, shutVars, lockVars, busHistory>>
      /\ ~request[r].queue /\ Goes(r, "attach")
      /\ troubles = 0 => TopicFor[r] \in topics
      /\ subs \subseteq subs'
  BY DEF BusInv, EntityInv, Waits, SubscriptionCreated
<1>1. request' \in [Requests -> RequestState] /\ request'[r].pc = "attach"
  BY <1>0, Went DEF BusTypes, RequestState, Goes
<1>2. Counted /\ (troubles' = 0 => <<TopicFor[r], GroupFor[r]>> \in subs')
  BY <1>0, BusCounted DEF SubscriptionCreated, Counted, Smooth
<1>3. troubles' = 0 => Entity(r)'
  BY <1>0, <1>2, Went DEF Entity
<1>. QED
  BY <1>0, <1>1, <1>2, <1>3, Went, ProvisionedInv

\* BusConsume keeps BusInv.
LEMMA BusConsumeInv ==
    ASSUME BusInv, NEW r \in Requests, BusConsume(r) PROVE BusInv'
<1>. DEFINE pc == IF Mapped(Key(r)) # {} THEN "ignored"
                  ELSE IF queueMode THEN "getQueue" ELSE "getTopic"
<1>0. /\ BusTypes /\ EntityInv /\ ReceiverInv /\ request[r].pc = "idle"
      /\ request[r].queue = queueMode /\ Goes(r, pc)
      /\ doubled' = (doubled \/ shutting \/ \E q \in Requests : Key(q) = Key(r) /\ Waits(q))
      /\ UNCHANGED <<queueMode, queues, topics, subs, receivers, open, shutVars, lockVars, unclosed,
                     troubles>>
  BY DEF BusInv, EntityInv, BusConsume, entities
<1>1. /\ request' \in [Requests -> RequestState]
      /\ request'[r].pc = pc /\ request'[r].queue = request[r].queue
      /\ \A q \in Requests \ {r} : request'[q] = request[q]
  BY <1>0, Went DEF BusTypes, RequestState, Goes
<1>2. BusTypes'
  BY <1>0, <1>1 DEF BusTypes, shutVars
<1>3. CompletedWasServed'
  BY <1>0, CompletedKept DEF BusInv, lockVars
<1>4. EntityInv'
  <2>1. \A q \in Requests \ {r} : Entity(q) => Entity(q)'
    BY <1>0, <1>1 DEF Entity
  <2>. QED
    BY <1>0, <1>1, <2>1 DEF EntityInv
<1>5. ReceiverInv'
  <2>1. (\A q \in Requests : Key(q)' = Key(q)) /\ (\A k : Mapped(k)' = Mapped(k))
    BY <1>0 DEF Key, Mapped, BusTypes
  <2>2. \A q \in Requests \ {r} : Waits(q)' = Waits(q)
    BY <1>1 DEF Waits
  <2>3. Waits(r)' => Mapped(Key(r)) = {}
    BY <1>1 DEF Waits
  <2>. QED
    BY <1>0, <2>1, <2>2, <2>3 DEF ReceiverInv, shutVars
<1>. QED
  BY <1>2, <1>3, <1>4, <1>5 DEF BusInv

\* Of the calls and the provisioning nothing changes.
LEMMA EntityKept ==
    ASSUME EntityInv, UNCHANGED <<request, entities>>, troubles' = 0 => troubles = 0
    PROVE  EntityInv'
BY DEF EntityInv, Entity, entities

\* ReceiverAttached keeps BusInv.
LEMMA ReceiverAttachedInv ==
    ASSUME BusInv, NEW r \in Requests, ReceiverAttached(r) PROVE BusInv'
<1>0. /\ BusTypes /\ EntityInv /\ ReceiverInv /\ request[r].pc = "attach" /\ Waits(r)
      /\ receivers' = (receivers \ Mapped(Key(r))) \cup {r}
      /\ open' = open \cup {r}
      /\ closeLeft' = IF shutting THEN (closeLeft \ Mapped(Key(r))) \cup {r} ELSE {}
      /\ Goes(r, "resolved")
      /\ UNCHANGED <<queueMode, queues, topics, subs, shutting, lockVars, busHistory, troubles>>
  BY DEF BusInv, ReceiverAttached, entities, Waits
<1>1. /\ request' \in [Requests -> RequestState]
      /\ request'[r].pc = "resolved" /\ request'[r].queue = request[r].queue
      /\ \A q \in Requests \ {r} : request'[q] = request[q]
  BY <1>0, Went DEF BusTypes, RequestState, Goes
<1>2. BusTypes'
  BY <1>0, <1>1 DEF BusTypes, busHistory
<1>3. CompletedWasServed'
  BY <1>0, CompletedKept DEF BusInv, lockVars
<1>4. EntityInv'
  <2>1. \A q \in Requests : Entity(q) => Entity(q)'
    BY <1>0, <1>1 DEF Entity
  <2>. QED
    BY <1>0, <1>1, <2>1 DEF EntityInv
<1>5. ReceiverInv'
  <2>. SUFFICES ASSUME ~doubled PROVE ReceiverInv'
    BY <1>0 DEF ReceiverInv, busHistory
  <2>1. \A q \in Requests : Key(q)' = Key(q)
    BY <1>0 DEF Key
  <2>2. \A q \in Requests : Waits(q)' => Waits(q) /\ q # r
    BY <1>1 DEF Waits
  <2>3. ~shutting /\ Mapped(Key(r)) = {} /\ receivers' = receivers \cup {r} /\ closeLeft' = {}
    BY <1>0 DEF ReceiverInv, busHistory
  <2>4. ASSUME NEW q \in Requests, Waits(q)' PROVE Mapped(Key(q))' = {}
    <3>1. Key(q) # Key(r) /\ Mapped(Key(q)) = {}
      BY <1>0, <2>2, <2>4 DEF ReceiverInv, busHistory
    <3>. QED
      BY <1>0, <1>2, <2>1, <2>3, <3>1 DEF Mapped, BusTypes
  <2>. QED
    BY <1>0, <2>1, <2>2, <2>3, <2>4 DEF ReceiverInv, busHistory
<1>. QED
  BY <1>2, <1>3, <1>4, <1>5 DEF BusInv

\* A message is served, completed, abandoned or lost: nothing else changes.
LEMMA ServingInv ==
    ASSUME BusInv, Counted, UNCHANGED <<entities, receivers, request, open, shutVars, busHistory>>,
           served \subseteq served',
           \A k, m : <<k, m>> \in completed' =>
              \/ <<k, m>> \in completed
              \/ \E r \in Requests : Key(r) = k /\ <<r, m>> \in served'
    PROVE  BusInv'
<1>. USE DEF BusInv, entities, shutVars, busHistory
<1>1. (\A q \in Requests : Key(q)' = Key(q) /\ Waits(q)' = Waits(q))
      /\ (\A k : Mapped(k)' = Mapped(k))
  BY DEF Key, Mapped, Waits, BusTypes
<1>2. ReceiverInv'
  BY <1>1 DEF ReceiverInv, Counted
<1>3. CompletedWasServed'
  BY CompletedKept
<1>4. EntityInv' /\ BusTypes'
  BY EntityKept DEF Counted, BusTypes
<1>. QED
  BY <1>2, <1>3, <1>4

\* close() begins, goes on or ends.
LEMMA BusCloseInv == ASSUME BusInv, BusClose PROVE BusInv'
<1>. USE DEF BusInv, BusClose
<1>1. BusTypes' /\ EntityInv' /\ CompletedWasServed'
  BY EntityKept, CompletedKept DEF BusTypes, entities, lockVars
<1>2. ReceiverInv'
  <2>1. \A q \in Requests : Key(q)' = Key(q) /\ Waits(q)' = Waits(q)
    BY DEF Key, Waits, entities
  <2>. QED
    BY <2>1 DEF ReceiverInv, busHistory
<1>. QED
  BY <1>1, <1>2

\* ReceiverClosed keeps BusInv.
LEMMA ReceiverClosedInv == ASSUME BusInv, NEW r \in Requests, ReceiverClosed(r) PROVE BusInv'
<1>. USE DEF BusInv, ReceiverClosed
<1>1. Counted
  BY BusCounted DEF Counted, Smooth
<1>2. BusTypes' /\ EntityInv' /\ CompletedWasServed'
  BY <1>1, EntityKept, CompletedKept DEF BusTypes, entities, lockVars, Counted
<1>3. ReceiverInv'
  <2>1. (\A q \in Requests : Key(q)' = Key(q) /\ Waits(q)' = Waits(q))
        /\ (\A k : Mapped(k)' = Mapped(k))
    BY DEF Key, Waits, entities, Mapped, BusTypes
  <2>2. troubles' = 0 => troubles = 0 /\ open' = open \ {r}
    BY <1>1, BusCounted DEF Counted
  <2>. QED
    BY <2>1, <2>2 DEF ReceiverInv, busHistory
<1>. QED
  BY <1>2, <1>3

\* BusClosed keeps BusInv.
LEMMA BusClosedInv == ASSUME BusInv, BusClosed PROVE BusInv'
<1>. USE DEF BusInv, BusClosed, busHistory
<1>1. BusTypes' /\ EntityInv' /\ CompletedWasServed'
  BY EntityKept, CompletedKept DEF BusTypes, entities, lockVars
<1>2. ReceiverInv'
  <2>1. (\A q \in Requests : Key(q)' = Key(q) /\ Waits(q)' = Waits(q))
        /\ (\A k : Mapped(k)' = {})
    BY DEF Key, Waits, entities, Mapped
  <2>. QED
    BY <2>1 DEF ReceiverInv, busHistory
<1>. QED
  BY <1>1, <1>2

\* Every step keeps BusInv.
LEMMA BusNextInv == ASSUME BusInv, BusNext PROVE BusInv'
<1>1. ASSUME NEW r \in Requests, BusConsume(r) \/ BusConsumeStep(r) \/ ReceiverClosed(r)
      PROVE  BusInv'
  BY <1>1, BusConsumeInv, QueueLookedInv, TopicLookedInv, SubscriptionLookedInv, QueueCreatedInv,
     TopicCreatedInv, SubscriptionCreatedInv, ReceiverAttachedInv, ReceiverClosedInv
  DEF BusConsumeStep
<1>2. ASSUME NEW r \in Requests, NEW m \in Letters, MessageServed(r, m) PROVE BusInv'
  BY <1>2, ServingInv DEF MessageServed, Counted
<1>3. ASSUME NEW r \in Requests, NEW m \in Letters, ServingResolves(r, m) PROVE BusInv'
  <2>1. \A k, n : <<k, n>> \in completed' =>
              \/ <<k, n>> \in completed
              \/ \E q \in Requests : Key(q) = k /\ <<q, n>> \in served'
    BY <1>3 DEF ServingResolves
  <2>. QED
    BY <1>3, <2>1, ServingInv DEF ServingResolves, Counted
<1>4. ASSUME NEW r \in Requests, NEW m \in Letters, ServingRejects(r, m) \/ LockLost(r, m)
      PROVE  BusInv'
  BY <1>4, BusCounted, ServingInv DEF ServingRejects, LockLost, Counted
<1>. QED
  BY <1>1, <1>2, <1>3, <1>4, BusCloseInv, BusClosedInv DEF BusNext

\* BusInv does not depend on the rest of the state.
LEMMA BusKeptInv == ASSUME BusInv, UNCHANGED busVars PROVE BusInv'
<1>1. \A k, m : <<k, m>> \in completed' => <<k, m>> \in completed
  BY DEF busVars
<1>. QED
  BY <1>1, ServingInv DEF busVars, busHistory, Counted, entities, shutVars

\* What BusInv says of the checked invariants.
LEMMA BusInvImplies ==
    ASSUME BusInv PROVE CompletedWasServed /\ NoReceiverLeaked /\ ResolvedHasEntity
BY DEF BusInv, ReceiverInv, EntityInv, NoReceiverLeaked, ResolvedHasEntity

------------------------------------------------------------------------------
(* RabbitPublisher                                                           *)

ConnState == [state : {"unused", "open", "closed"}, heard : BOOLEAN]
LoopState == [pc : {"idle", "connecting", "setup", "dropping", "delay"},
              attempt : Nat, link : 0 .. MaxConns]
EmitState == [pc : {"idle", "waiting", "resolved", "rejected"},
              link : 0 .. MaxConns, confirmed : BOOLEAN, drained : BOOLEAN]

PubTypes ==
    /\ conn \in 0 .. MaxConns /\ leaving \in 0 .. MaxConns
    /\ conns \in [Conns -> ConnState]
    /\ loop \in [PubLoops -> LoopState]
    /\ emit \in [Emits -> EmitState]

\* A confirm is one of a message the broker has taken, and a call that waits has its link.
EmitInv == \A e \in Emits :
    /\ emit[e].confirmed => e \in accepted
    /\ emit[e].pc = "resolved" => e \in accepted
    /\ emit[e].pc = "waiting" => Up(emit[e].link)

\* The current link is open and heard; those the loops set up and the one close() closes
\* are others.
LoopLinkInv(p) ==
    /\ loop[p].link # 0 <=> loop[p].pc \in {"setup", "dropping"}
    /\ loop[p].link # 0 =>
          /\ conns[loop[p].link].state # "unused"
          /\ loop[p].link # conn /\ loop[p].link # leaving
          /\ Up(loop[p].link) => conns[loop[p].link].heard
    /\ \A q \in PubLoops : loop[p].link # 0 /\ loop[q].link = loop[p].link => q = p

LinkInv ==
    /\ conn # 0 => Up(conn) /\ conns[conn].heard
    /\ leaving # 0 => leaving # conn /\ conns[leaving].state # "unused"
    /\ ended => conn = 0
    /\ \A p \in PubLoops : LoopLinkInv(p)

\* While no loop began beside the other, an open link is the current one, the one that
\* close() closes or the one a loop sets up.
Held(l) == l = conn \/ l = leaving \/ \E p \in PubLoops : loop[p].link = l
Accounted ==
    /\ \A p \in PubLoops : Busy(p) => conn = 0 /\ \A q \in PubLoops : Busy(q) => q = p
    /\ \A l \in Conns : Up(l) => Held(l)
HeldInv == ~tangled => Accounted

PubInv == PubTypes /\ EmitInv /\ LinkInv /\ HeldInv

\* The initial states satisfy PubInv.
LEMMA PubInitInv == PubInit => PubInv
<1>. SUFFICES ASSUME PubInit PROVE PubInv
  OBVIOUS
<1>. USE RabbitPublisherAssumption DEF PubInit
<1>1. PubTypes
  <2>1. Still \in LoopState
    BY DEF Still, LoopState
  <2>2. Unsent \in EmitState
    BY DEF Unsent, EmitState
  <2>3. [state |-> "unused", heard |-> FALSE] \in ConnState
    BY DEF ConnState
  <2>. QED
    BY <2>1, <2>2, <2>3 DEF PubTypes
<1>2. EmitInv /\ LinkInv /\ HeldInv
  BY DEF EmitInv, LinkInv, LoopLinkInv, HeldInv, Accounted, Still, Unsent, Busy, Up
<1>. QED
  BY <1>1, <1>2 DEF PubInv

------------------------------------------------------------------------------
\* A step of an emit() that leaves the links as they are.
LEMMA EmitChangesInv ==
    ASSUME PubInv, NEW e \in Emits, NEW s \in EmitState,
           emit' = [emit EXCEPT ![e] = s],
           s.confirmed => e \in accepted,
           s.pc = "resolved" => e \in accepted,
           s.pc = "waiting" => Up(s.link),
           UNCHANGED <<ended, conn, conns, loop, leaving, accepted, tangled>>
    PROVE  PubInv'
<1>1. PubTypes' /\ LinkInv' /\ HeldInv'
  BY DEF PubInv, PubTypes, LinkInv, LoopLinkInv, HeldInv, Accounted, Held, Busy, Up
<1>2. EmitInv'
  <2>1. emit'[e] = s /\ \A d \in Emits \ {e} : emit'[d] = emit[d]
    BY DEF PubInv, PubTypes
  <2>. QED
    BY <2>1 DEF PubInv, EmitInv, Up
<1>. QED
  BY <1>1, <1>2 DEF PubInv

\* What succeedIfReady makes of a waiting call.
LEMMA SettledEmit ==
    ASSUME NEW s \in EmitState
    PROVE  /\ Settled(s) \in EmitState
           /\ Settled(s).confirmed = s.confirmed /\ Settled(s).link = s.link
           /\ \/ Settled(s).pc = s.pc
              \/ Settled(s).pc = "resolved" /\ s.confirmed
BY DEF Settled, EmitState

\* The steps of an emit keep PubInv.
LEMMA EmitsInv ==
    ASSUME PubInv, NEW e \in Emits, Emit(e) \/ Accepted(e) \/ EmitStep(e) \/ Refused(e)
    PROVE  PubInv'
<1>0. emit[e] \in EmitState /\ conn \in 0 .. MaxConns /\ (conn # 0 => Up(conn))
  BY DEF PubInv, PubTypes, LinkInv
<1>1. CASE Accepted(e)
  BY <1>1 DEF Accepted, PubInv, PubTypes, EmitInv, LinkInv, LoopLinkInv, HeldInv, Accounted, Held, Busy, Up
<1>2. CASE Emit(e)
  <2>1. PICK d \in BOOLEAN : emit' = [emit EXCEPT ![e] =
              IF conn = 0 THEN [emit[e] EXCEPT !.pc = "rejected"]
              ELSE Settled([emit[e] EXCEPT !.pc = "waiting", !.link = conn, !.drained = d])]
    BY <1>2 DEF Emit
  <2>2. [emit[e] EXCEPT !.pc = "rejected"] \in EmitState
    BY <1>0 DEF EmitState
  <2>3. PICK w \in EmitState :
           /\ w = [emit[e] EXCEPT !.pc = "waiting", !.link = conn, !.drained = d]
           /\ w.pc = "waiting" /\ w.link = conn /\ w.confirmed = emit[e].confirmed
    <3>. DEFINE x == [emit[e] EXCEPT !.pc = "waiting", !.link = conn, !.drained = d]
    <3>1. x \in EmitState /\ x.pc = "waiting" /\ x.link = conn /\ x.confirmed = emit[e].confirmed
      BY <1>0 DEF EmitState
    <3>. QED
      BY <3>1
  <2>4. UNCHANGED <<ended, conn, conns, loop, leaving, accepted, tangled>>
    BY <1>2 DEF Emit
  <2>5. emit[e].confirmed => e \in accepted
    BY DEF PubInv, EmitInv
  <2>6. CASE conn = 0
    <3>1. [emit[e] EXCEPT !.pc = "rejected"].pc = "rejected"
          /\ [emit[e] EXCEPT !.pc = "rejected"].confirmed = emit[e].confirmed
      BY <1>0 DEF EmitState
    <3>2. emit' = [emit EXCEPT ![e] = [emit[e] EXCEPT !.pc = "rejected"]]
      BY <2>1, <2>6
    <3>. QED
      BY <2>2, <2>4, <2>5, <3>1, <3>2, EmitChangesInv
  <2>7. CASE conn # 0
    <3>1. emit' = [emit EXCEPT ![e] = Settled(w)]
      BY <2>1, <2>3, <2>7
    <3>2. Settled(w).pc = "waiting" => Up(Settled(w).link)
      BY <1>0, <2>3, <2>7, SettledEmit
    <3>3. Settled(w) \in EmitState /\ (Settled(w).confirmed => e \in accepted)
          /\ (Settled(w).pc = "resolved" => e \in accepted)
      BY <2>3, <2>5, SettledEmit
    <3>. QED
      BY <2>4, <3>1, <3>2, <3>3, EmitChangesInv
  <2>. QED
    BY <2>6, <2>7
<1>3. CASE Confirmed(e) \/ Drained(e)
  <2>1. PICK w \in EmitState :
           /\ emit' = [emit EXCEPT ![e] = Settled(w)]
           /\ w.link = emit[e].link
           /\ w.confirmed => e \in accepted
           /\ w.pc = "waiting"
    <3>1. CASE Confirmed(e)
      <4>1. emit' = [emit EXCEPT ![e] = Settled([emit[e] EXCEPT !.confirmed = TRUE])]
            /\ e \in accepted /\ emit[e].pc = "waiting"
        BY <3>1 DEF Confirmed
      <4>2. [emit[e] EXCEPT !.confirmed = TRUE] \in EmitState
            /\ [emit[e] EXCEPT !.confirmed = TRUE].pc = emit[e].pc
            /\ [emit[e] EXCEPT !.confirmed = TRUE].link = emit[e].link
        BY <1>0 DEF EmitState
      <4>. QED
        BY <4>1, <4>2
    <3>2. CASE Drained(e)
      <4>1. emit' = [emit EXCEPT ![e] = Settled([emit[e] EXCEPT !.drained = TRUE])]
            /\ emit[e].pc = "waiting"
        BY <3>2 DEF Drained
      <4>2. [emit[e] EXCEPT !.drained = TRUE] \in EmitState
            /\ [emit[e] EXCEPT !.drained = TRUE].pc = emit[e].pc
            /\ [emit[e] EXCEPT !.drained = TRUE].link = emit[e].link
            /\ [emit[e] EXCEPT !.drained = TRUE].confirmed = emit[e].confirmed
        BY <1>0 DEF EmitState
      <4>3. emit[e].confirmed => e \in accepted
        BY DEF PubInv, EmitInv
      <4>. QED
        BY <4>1, <4>2, <4>3
    <3>. QED
      BY <1>3, <3>1, <3>2
  <2>2. UNCHANGED <<ended, conn, conns, loop, leaving, accepted, tangled>> /\ Up(emit[e].link)
    BY <1>3 DEF Confirmed, Drained
  <2>3. /\ Settled(w) \in EmitState
        /\ Settled(w).confirmed => e \in accepted
        /\ Settled(w).pc = "resolved" => e \in accepted
        /\ Settled(w).pc = "waiting" => Up(Settled(w).link)
    BY <2>1, <2>2, SettledEmit
  <2>. QED
    BY <2>1, <2>2, <2>3, EmitChangesInv
<1>4. CASE ConfirmTimeout(e) \/ Refused(e)
  <2>1. PICK s \in EmitState : /\ emit' = [emit EXCEPT ![e] = s]
                               /\ s.pc = "rejected" /\ s.confirmed = emit[e].confirmed
    <3>1. CASE ConfirmTimeout(e)
      <4>1. emit' = [emit EXCEPT ![e] = [emit[e] EXCEPT !.pc = "rejected"]]
        BY <3>1 DEF ConfirmTimeout
      <4>2. [emit[e] EXCEPT !.pc = "rejected"] \in EmitState
            /\ [emit[e] EXCEPT !.pc = "rejected"].pc = "rejected"
            /\ [emit[e] EXCEPT !.pc = "rejected"].confirmed = emit[e].confirmed
        BY <1>0 DEF EmitState
      <4>. QED
        BY <4>1, <4>2
    <3>2. CASE Refused(e)
      <4>1. emit' = [emit EXCEPT ![e] = [emit[e] EXCEPT !.pc = "rejected", !.link = 0]]
        BY <3>2 DEF Refused, PubInv, PubTypes
      <4>2. [emit[e] EXCEPT !.pc = "rejected", !.link = 0] \in EmitState
            /\ [emit[e] EXCEPT !.pc = "rejected", !.link = 0].pc = "rejected"
            /\ [emit[e] EXCEPT !.pc = "rejected", !.link = 0].confirmed = emit[e].confirmed
        <5>1. 0 \in 0 .. MaxConns
          BY RabbitPublisherAssumption
        <5>. QED
          BY <1>0, <5>1 DEF EmitState
      <4>. QED
        BY <4>1, <4>2
    <3>. QED
      BY <1>4, <3>1, <3>2
  <2>2. UNCHANGED <<ended, conn, conns, loop, leaving, accepted, tangled>>
    BY <1>4 DEF ConfirmTimeout, Refused
  <2>3. emit[e].confirmed => e \in accepted
    BY DEF PubInv, EmitInv
  <2>. QED
    BY <2>1, <2>2, <2>3, EmitChangesInv
<1>. QED
  BY <1>1, <1>2, <1>3, <1>4 DEF EmitStep

------------------------------------------------------------------------------
\* Links close, and the calls on them reject: what is left of the links and the calls.
LEMMA ConnsCloseKeeps ==
    ASSUME PubInv, NEW lost, ConnsClose(lost), UNCHANGED accepted
    PROVE  /\ conns' \in [Conns -> ConnState] /\ emit' \in [Emits -> EmitState]
           /\ \A l \in Conns :
                 /\ conns'[l].state = "open" <=> conns[l].state = "open" /\ l \notin lost
                 /\ conns'[l].state = "unused" <=> conns[l].state = "unused"
                 /\ conns'[l].state = "open" => conns'[l].heard = conns[l].heard
           /\ EmitInv'
<1>. USE DEF ConnsClose
<1>1. conns \in [Conns -> ConnState] /\ emit \in [Emits -> EmitState]
      /\ conns' = [l \in Conns |-> IF l \in lost /\ Up(l) THEN [state |-> "closed", heard |-> FALSE]
                                   ELSE conns[l]]
  BY DEF PubInv, PubTypes
<1>2. \A l \in Conns : l # 0
  BY DEF Conns
<1>3. [state |-> "closed", heard |-> FALSE] \in ConnState
  BY DEF ConnState
<1>4. conns' \in [Conns -> ConnState]
  BY <1>1, <1>3
<1>5. \A l \in Conns :
         /\ conns'[l].state = "open" <=> conns[l].state = "open" /\ l \notin lost
         /\ conns'[l].state = "unused" <=> conns[l].state = "unused"
         /\ conns'[l].state = "open" => conns'[l].heard = conns[l].heard
  <2>. SUFFICES ASSUME NEW l \in Conns
                PROVE  /\ conns'[l].state = "open" <=> conns[l].state = "open" /\ l \notin lost
                       /\ conns'[l].state = "unused" <=> conns[l].state = "unused"
                       /\ conns'[l].state = "open" => conns'[l].heard = conns[l].heard
    OBVIOUS
  <2>1. conns'[l] = IF l \in lost /\ Up(l) THEN [state |-> "closed", heard |-> FALSE] ELSE conns[l]
    BY <1>1
  <2>2. Up(l) <=> conns[l].state = "open"
    BY <1>2 DEF Up
  <2>3. CASE l \in lost /\ Up(l)
    BY ONLY <2>1, <2>2, <2>3
  <2>4. CASE ~(l \in lost /\ Up(l))
    BY ONLY <2>1, <2>2, <2>4
  <2>. QED
    BY <2>3, <2>4
<1>6. \A e \in Emits :
         /\ emit'[e] \in EmitState /\ emit'[e].confirmed = emit[e].confirmed
         /\ emit'[e].link = emit[e].link
         /\ emit'[e].pc = IF emit[e].pc = "waiting" /\ emit[e].link \in lost
                          THEN "rejected" ELSE emit[e].pc
  BY <1>1 DEF EmitState
<1>7. emit' \in [Emits -> EmitState]
  BY <1>6
<1>8. EmitInv'
  <2>. SUFFICES ASSUME NEW e \in Emits
                PROVE  /\ emit'[e].confirmed => e \in accepted
                       /\ emit'[e].pc = "resolved" => e \in accepted
                       /\ emit'[e].pc = "waiting" => Up(emit[e].link)'
    BY <1>6 DEF EmitInv
  <2>1. emit[e].link \in 0 .. MaxConns /\ \A n \in 0 .. MaxConns : n # 0 => n \in Conns
    BY <1>1, RabbitPublisherAssumption DEF EmitState, Conns
  <2>2. emit[e].pc = "waiting" => Up(emit[e].link)
    BY DEF PubInv, EmitInv
  <2>3. emit[e].pc = "waiting" /\ emit[e].link \notin lost => Up(emit[e].link)'
    BY <1>5, <1>6, <2>1, <2>2 DEF Up
  <2>. QED
    BY <1>6, <2>3 DEF PubInv, EmitInv
<1>. QED
  BY <1>4, <1>5, <1>7, <1>8

\* A loop goes on in its own place.
LEMMA LoopMoves ==
    ASSUME PubInv, NEW p \in PubLoops, NEW s \in LoopState, loop' = [loop EXCEPT ![p] = s]
    PROVE  /\ loop' \in [PubLoops -> LoopState]
           /\ loop'[p] = s /\ \A q \in PubLoops \ {p} : loop'[q] = loop[q]
BY DEF PubInv, PubTypes

\* The states a publisher's loop starts and waits in.
LEMMA LoopStates ==
    /\ Still \in LoopState /\ Still.pc = "idle" /\ Still.link = 0
    /\ \A n \in Nat : Tried(n) \in LoopState /\ Tried(n).pc = "connecting" /\ Tried(n).link = 0
    /\ \A n \in Nat : /\ [Still EXCEPT !.pc = "delay", !.attempt = n] \in LoopState
                     /\ [Still EXCEPT !.pc = "delay", !.attempt = n].pc = "delay"
                     /\ [Still EXCEPT !.pc = "delay", !.attempt = n].link = 0
<1>1. 0 \in 0 .. MaxConns
  BY RabbitPublisherAssumption
<1>2. Still \in LoopState /\ Still.pc = "idle" /\ Still.link = 0
  BY <1>1 DEF Still, LoopState
<1>3. \A n \in Nat : Tried(n) \in LoopState /\ Tried(n).pc = "connecting" /\ Tried(n).link = 0
  BY <1>1 DEF Tried, LoopState
<1>4. ASSUME NEW n \in Nat
      PROVE  /\ [Still EXCEPT !.pc = "delay", !.attempt = n] \in LoopState
             /\ [Still EXCEPT !.pc = "delay", !.attempt = n].pc = "delay"
             /\ [Still EXCEPT !.pc = "delay", !.attempt = n].link = 0
  BY <1>2 DEF LoopState
<1>. QED
  BY <1>2, <1>3, <1>4

\* Lost keeps PubInv.
LEMMA LostInv == ASSUME PubInv, NEW l \in Conns, ConnLost(l) PROVE PubInv'
<1>. USE DEF PubInv
<1>0. /\ l # 0 /\ conns[l].state = "open" /\ UNCHANGED <<ended, leaving, accepted>>
      /\ conn \in 0 .. MaxConns /\ \A n \in 0 .. MaxConns : n # 0 => n \in Conns
  BY RabbitPublisherAssumption DEF ConnLost, Up, PubTypes, Conns
<1>1. CASE ~conns[l].heard
  <2>1. ConnsClose({l}) /\ UNCHANGED <<conn, loop, tangled>>
    BY <1>1 DEF ConnLost
  <2>2. l # conn /\ \A p \in PubLoops : l # loop[p].link
    BY <1>0, <1>1 DEF LinkInv, LoopLinkInv, Up
  <2>3. PubTypes' /\ EmitInv'
    BY <1>0, <2>1, ConnsCloseKeeps DEF PubTypes
  <2>4. HeldInv'
    BY <1>0, <2>1, <2>3, ConnsCloseKeeps DEF HeldInv, Accounted, Held, Busy, Up
  <2>5. LinkInv'
    <3>1. \A k \in 0 .. MaxConns : k # 0 =>
             /\ conns'[k].state = "open" <=> conns[k].state = "open" /\ k # l
             /\ conns'[k].state = "unused" <=> conns[k].state = "unused"
             /\ conns'[k].state = "open" => conns'[k].heard = conns[k].heard
      BY <1>0, <2>1, ConnsCloseKeeps
    <3>2. \A p \in PubLoops : loop[p].link \in 0 .. MaxConns
      BY DEF PubTypes, LoopState
    <3>3. leaving \in 0 .. MaxConns
      BY DEF PubTypes
    <3>4. \A p \in PubLoops : LoopLinkInv(p)'
      BY <1>0, <2>1, <2>2, <3>1, <3>2 DEF LinkInv, LoopLinkInv, Up
    <3>. QED
      BY <1>0, <2>1, <2>2, <3>1, <3>3, <3>4 DEF LinkInv, Up
  <2>. QED
    BY <2>3, <2>4, <2>5
<1>2. CASE conns[l].heard
  <2>1. /\ ConnsClose({l, conn}) /\ conn' = 0
        /\ loop' = IF ended \/ Busy("recovery") THEN loop ELSE [loop EXCEPT !["recovery"] = Tried(1)]
        /\ tangled' = (tangled \/ (loop' # loop /\ Busy("initialize")))
    BY <1>2 DEF ConnLost
  <2>2. /\ conns' \in [Conns -> ConnState] /\ emit' \in [Emits -> EmitState] /\ EmitInv'
        /\ \A k \in 0 .. MaxConns : k # 0 =>
             /\ conns'[k].state = "open" <=> conns[k].state = "open" /\ k \notin {l, conn}
             /\ conns'[k].state = "unused" <=> conns[k].state = "unused"
             /\ conns'[k].state = "open" => conns'[k].heard = conns[k].heard
    BY <1>0, <2>1, ConnsCloseKeeps
  <2>3. /\ loop' \in [PubLoops -> LoopState]
        /\ \A p \in PubLoops :
             \/ loop'[p] = loop[p]
             \/ /\ p = "recovery" /\ loop[p].pc = "idle" /\ loop' # loop
                /\ loop'[p].pc = "connecting" /\ loop'[p].link = 0
    <3>1. CASE loop' = loop
      BY <3>1 DEF PubTypes
    <3>2. CASE loop' # loop
      <4>1. loop' = [loop EXCEPT !["recovery"] = Tried(1)] /\ loop["recovery"].pc = "idle"
        BY <2>1, <3>2 DEF Busy
      <4>. QED
        BY <3>2, <4>1, LoopStates, LoopMoves DEF PubLoops
    <3>. QED
      BY <3>1, <3>2
  <2>4. \A p \in PubLoops : loop[p].link \in 0 .. MaxConns
    BY DEF PubTypes, LoopState
  <2>5. LinkInv'
    <3>1. \A p \in PubLoops : LoopLinkInv(p)'
      <4>1. \A p \in PubLoops : loop'[p].link = loop[p].link
        BY <2>3 DEF LinkInv, LoopLinkInv
      <4>2. \A p \in PubLoops : loop'[p].pc \in {"setup", "dropping"}
                                   <=> loop[p].pc \in {"setup", "dropping"}
        BY <2>3
      <4>. QED
        BY <1>0, <2>1, <2>2, <2>4, <4>1, <4>2 DEF LinkInv, LoopLinkInv, Up
    <3>2. leaving # 0 => conns'[leaving].state # "unused"
      BY <2>2 DEF LinkInv, PubTypes
    <3>. QED
      BY <1>0, <2>1, <3>1, <3>2 DEF LinkInv
  <2>6. HeldInv'
    <3>. SUFFICES ASSUME ~tangled' PROVE Accounted'
      BY DEF HeldInv
    <3>1. \A k \in Conns : Up(k)' => Up(k) /\ k # conn
      BY <2>2 DEF Up, Conns
    <3>2. \A p \in PubLoops : loop'[p].link = loop[p].link
      BY <2>3 DEF LinkInv, LoopLinkInv
    <3>3. \A k \in Conns : Up(k)' => Held(k)'
      BY <1>0, <2>1, <3>1, <3>2 DEF HeldInv, Accounted, Held
    <3>4. \A p, q \in PubLoops : Busy(p)' /\ Busy(q)' => q = p
      BY <2>1, <2>3 DEF HeldInv, Accounted, Busy, PubLoops
    <3>. QED
      BY <2>1, <3>3, <3>4 DEF Accounted
  <2>7. PubTypes'
    BY <1>0, <2>1, <2>2, <2>3, RabbitPublisherAssumption DEF PubTypes
  <2>. QED
    BY <2>2, <2>5, <2>6, <2>7
<1>. QED
  BY <1>1, <1>2

\* A loop that leaves no link behind: it waits, tries again or ends.
LEMMA PubLoopStepInv ==
    ASSUME PubInv, NEW p \in PubLoops, NEW s \in LoopState, loop' = [loop EXCEPT ![p] = s],
           s.link = 0, s.pc \notin {"setup", "dropping"},
           ~Up(loop[p].link),
           \/ Busy(p) /\ tangled' = tangled
           \/ /\ conn = 0
              /\ ~tangled' => ~tangled /\ \A q \in PubLoops \ {p} : ~Busy(q),
           ended' => ended,
           UNCHANGED <<conn, conns, leaving, emit, accepted>>
    PROVE  PubInv'
<1>. USE DEF PubInv
<1>1. /\ loop' \in [PubLoops -> LoopState]
      /\ loop'[p] = s /\ \A q \in PubLoops \ {p} : loop'[q] = loop[q]
  BY LoopMoves
<1>2. PubTypes' /\ EmitInv'
  BY <1>1 DEF PubTypes, EmitInv, Up
<1>3. LinkInv'
  <2>1. \A q \in PubLoops : LoopLinkInv(q)'
    BY <1>1 DEF LinkInv, LoopLinkInv, Up
  <2>. QED
    BY <2>1 DEF LinkInv, Up
<1>4. HeldInv'
  <2>. SUFFICES ASSUME ~tangled' PROVE Accounted'
    BY DEF HeldInv
  <2>1. \A l \in Conns : Up(l)' => Held(l)'
    BY <1>1 DEF HeldInv, Accounted, Held, Up
  <2>2. \A q \in PubLoops : Busy(q)' => conn' = 0 /\ \A r \in PubLoops : Busy(r)' => r = q
    BY <1>1 DEF HeldInv, Accounted, Busy
  <2>. QED
    BY <2>1, <2>2 DEF Accounted
<1>. QED
  BY <1>2, <1>3, <1>4

\* Initialize keeps PubInv.
LEMMA InitializeInv == ASSUME PubInv, PubInitialize PROVE PubInv'
<1>1. loop' = [loop EXCEPT !["initialize"] = Tried(1)] /\ ~ended' /\ conn = 0
      /\ tangled' = (tangled \/ Busy("recovery"))
      /\ UNCHANGED <<conn, conns, leaving, emit, accepted>>
  BY DEF PubInitialize
<1>2. ~Up(loop["initialize"].link) /\ "initialize" \in PubLoops
  BY DEF PubInitialize, PubInv, LinkInv, LoopLinkInv, Busy, Up, PubLoops
<1>3. ~tangled' => ~tangled /\ \A q \in PubLoops \ {"initialize"} : ~Busy(q)
  BY <1>1 DEF PubLoops
<1>. QED
  BY <1>1, <1>2, <1>3, LoopStates, PubLoopStepInv

\* Refusals, failures and retries of a loop keep PubInv.
LEMMA RetriesInv ==
    ASSUME PubInv, NEW p \in PubLoops, PubRefused(p) \/ PubFails(p) \/ PubRetries(p)
    PROVE  PubInv'
<1>1. Busy(p) /\ ~Up(loop[p].link) /\ UNCHANGED <<ended, tangled, conn, conns, leaving, emit, accepted>>
  BY DEF PubRefused, PubFails, PubRetries, PubInv, LinkInv, LoopLinkInv, Busy, Up
<1>2. loop[p].attempt \in Nat /\ loop[p].attempt + 1 \in Nat
  BY DEF PubInv, PubTypes, LoopState
<1>3. PICK s \in LoopState : /\ loop' = [loop EXCEPT ![p] = s]
                             /\ s.link = 0 /\ s.pc \notin {"setup", "dropping"}
  <2>1. CASE PubThrows(p)
    <3>1. CASE loop' = [loop EXCEPT ![p] = Still]
      BY <3>1, LoopStates
    <3>2. CASE loop' = [loop EXCEPT ![p] = [Still EXCEPT !.pc = "delay", !.attempt = loop[p].attempt]]
      <4>. DEFINE s == [Still EXCEPT !.pc = "delay", !.attempt = loop[p].attempt]
      <4>1. s \in LoopState /\ s.pc = "delay" /\ s.link = 0
        BY <1>2, LoopStates
      <4>. QED
        BY <3>2, <4>1
    <3>. QED
      BY <2>1, <3>1, <3>2 DEF PubThrows
  <2>2. CASE PubRetries(p)
    <3>1. CASE loop' = [loop EXCEPT ![p] = Still]
      BY <3>1, LoopStates
    <3>2. CASE loop' = [loop EXCEPT ![p] = Tried(loop[p].attempt + 1)]
      <4>1. Tried(loop[p].attempt + 1) \in LoopState /\ Tried(loop[p].attempt + 1).link = 0
            /\ Tried(loop[p].attempt + 1).pc = "connecting"
        BY <1>2, LoopStates
      <4>. QED
        BY <3>2, <4>1
    <3>. QED
      BY <2>2, <3>1, <3>2 DEF PubRetries
  <2>. QED
    BY <2>1, <2>2 DEF PubRefused, PubFails
<1>. QED
  BY <1>1, <1>3, PubLoopStepInv

\* Connected keeps PubInv.
LEMMA ConnectedInv ==
    ASSUME PubInv, NEW p \in PubLoops, NEW l \in Conns, PubConnected(p, l) PROVE PubInv'
<1>. USE DEF PubInv
<1>0. /\ loop[p].pc = "connecting" /\ conns[l].state = "unused" /\ l # 0 /\ l \in 0 .. MaxConns
      /\ UNCHANGED <<ended, conn, leaving, emit, accepted, tangled>>
  BY RabbitPublisherAssumption DEF PubConnected, Conns
<1>1. PICK s \in LoopState :
         /\ loop' = [loop EXCEPT ![p] = s] /\ s.pc = "setup" /\ s.link = l
  <2>1. loop' = [loop EXCEPT ![p] = [loop[p] EXCEPT !.pc = "setup", !.link = l]]
    BY DEF PubConnected, PubTypes
  <2>2. loop[p] \in LoopState
    BY DEF PubTypes
  <2>3. /\ [loop[p] EXCEPT !.pc = "setup", !.link = l] \in LoopState
        /\ [loop[p] EXCEPT !.pc = "setup", !.link = l].pc = "setup"
        /\ [loop[p] EXCEPT !.pc = "setup", !.link = l].link = l
    BY <1>0, <2>2 DEF LoopState
  <2>. QED
    BY <2>1, <2>3
<1>2. /\ loop' \in [PubLoops -> LoopState]
      /\ loop'[p] = s /\ \A q \in PubLoops \ {p} : loop'[q] = loop[q]
  BY <1>1, LoopMoves
<1>3. /\ conns' \in [Conns -> ConnState]
      /\ conns'[l].state = "open" /\ conns'[l].heard
      /\ \A k : k # l => conns'[k] = conns[k]
  <2>1. [state |-> "open", heard |-> TRUE] \in ConnState
    BY DEF ConnState
  <2>. QED
    BY <2>1 DEF PubConnected, PubTypes
<1>4. l # conn /\ l # leaving /\ \A q \in PubLoops : loop[q].link # l
  BY <1>0 DEF LinkInv, LoopLinkInv, Up
<1>5. PubTypes'
  BY <1>0, <1>2, <1>3 DEF PubTypes
<1>6. EmitInv'
  BY <1>0, <1>3 DEF EmitInv, Up
<1>7. LinkInv'
  <2>1. \A q \in PubLoops : LoopLinkInv(q)'
    BY <1>0, <1>1, <1>2, <1>3, <1>4 DEF LinkInv, LoopLinkInv, Up
  <2>. QED
    BY <1>0, <1>3, <1>4, <2>1 DEF LinkInv, Up
<1>8. HeldInv'
  <2>. SUFFICES ASSUME ~tangled' PROVE Accounted'
    BY DEF HeldInv
  <2>0. loop[p].link = 0
    BY <1>0 DEF LinkInv, LoopLinkInv
  <2>1. \A k \in Conns : Up(k)' => Held(k)'
    BY <1>0, <1>1, <1>2, <1>3, <2>0 DEF HeldInv, Accounted, Held, Up
  <2>2. \A q \in PubLoops : Busy(q)' => Busy(q)
    BY <1>0, <1>2 DEF Busy
  <2>. QED
    BY <1>0, <2>1, <2>2 DEF HeldInv, Accounted
<1>. QED
  BY <1>5, <1>6, <1>7, <1>8

\* SetUp keeps PubInv.
LEMMA SetUpInv == ASSUME PubInv, NEW p \in PubLoops, PubSetUp(p) PROVE PubInv'
<1>. USE DEF PubInv
<1>0. /\ loop[p].pc = "setup" /\ Up(loop[p].link)
      /\ UNCHANGED <<ended, conns, leaving, emit, accepted, tangled>>
      /\ loop[p] \in LoopState
  BY DEF PubSetUp, PubTypes
<1>1. CASE ended
  <2>1. PICK s \in LoopState : /\ loop' = [loop EXCEPT ![p] = s]
                               /\ s.pc = "dropping" /\ s.link = loop[p].link
    <3>1. loop' = [loop EXCEPT ![p] = [loop[p] EXCEPT !.pc = "dropping"]]
      BY <1>1 DEF PubSetUp
    <3>2. /\ [loop[p] EXCEPT !.pc = "dropping"] \in LoopState
          /\ [loop[p] EXCEPT !.pc = "dropping"].pc = "dropping"
          /\ [loop[p] EXCEPT !.pc = "dropping"].link = loop[p].link
      BY <1>0 DEF LoopState
    <3>. QED
      BY <3>1, <3>2
  <2>2. /\ loop' \in [PubLoops -> LoopState]
        /\ loop'[p] = s /\ \A q \in PubLoops \ {p} : loop'[q] = loop[q]
    BY <2>1, LoopMoves
  <2>3. UNCHANGED conn
    BY <1>1 DEF PubSetUp
  <2>4. PubTypes' /\ EmitInv'
    BY <1>0, <2>2, <2>3 DEF PubTypes, EmitInv, Up
  <2>5. \A q \in PubLoops : /\ loop'[q].link = loop[q].link
                            /\ loop'[q].pc \in {"setup", "dropping"}
                                  <=> loop[q].pc \in {"setup", "dropping"}
                            /\ Busy(q)' <=> Busy(q)
    BY <1>0, <2>1, <2>2 DEF Busy
  <2>6. LinkInv'
    BY <1>0, <2>3, <2>5 DEF LinkInv, LoopLinkInv, Up
  <2>7. HeldInv'
    BY <1>0, <2>3, <2>5 DEF HeldInv, Accounted, Held, Up
  <2>. QED
    BY <2>4, <2>6, <2>7
<1>2. CASE ~ended
  <2>1. loop' = [loop EXCEPT ![p] = Still] /\ conn' = loop[p].link
    BY <1>2 DEF PubSetUp
  <2>2. /\ loop' \in [PubLoops -> LoopState]
        /\ loop'[p].pc = "idle" /\ loop'[p].link = 0
        /\ \A q \in PubLoops \ {p} : loop'[q] = loop[q]
    BY <2>1, LoopStates, LoopMoves
  <2>3. PubTypes' /\ EmitInv'
    BY <1>0, <2>1, <2>2 DEF PubTypes, EmitInv, Up, LoopState
  <2>4. LinkInv'
    <3>1. loop[p].link # leaving /\ conns[loop[p].link].heard /\ loop[p].link # 0
      BY <1>0 DEF LinkInv, LoopLinkInv, Up
    <3>2. \A q \in PubLoops : LoopLinkInv(q)'
      BY <1>0, <2>1, <2>2, <3>1 DEF LinkInv, LoopLinkInv, Up
    <3>. QED
      BY <1>0, <1>2, <2>1, <3>1, <3>2 DEF LinkInv, Up
  <2>5. HeldInv'
    <3>. SUFFICES ASSUME ~tangled' PROVE Accounted'
      BY DEF HeldInv
    <3>1. Busy(p) /\ ~Busy(p)' /\ (\A q \in PubLoops \ {p} : Busy(q)' <=> Busy(q))
      BY <1>0, <2>2 DEF Busy
    <3>2. conn = 0 /\ \A q \in PubLoops : ~Busy(q)'
      BY <1>0, <3>1 DEF HeldInv, Accounted
    <3>3. \A l \in Conns : Up(l)' => Held(l)'
      <4>1. \A l \in Conns : l # 0
        BY DEF Conns
      <4>. QED
        BY <1>0, <2>1, <2>2, <3>2, <4>1 DEF HeldInv, Accounted, Held, Up
    <3>. QED
      BY <3>2, <3>3 DEF Accounted
  <2>. QED
    BY <2>3, <2>4, <2>5
<1>. QED
  BY <1>1, <1>2

\* Links close with what is current: a loop that drops its own, or close() the one it left.
LEMMA DroppedInv == ASSUME PubInv, NEW p \in PubLoops, PubDropped(p) PROVE PubInv'
<1>. USE DEF PubInv
<1>0. /\ loop[p].pc = "dropping" /\ ConnsClose({loop[p].link, conn}) /\ conn' = 0
      /\ loop' = [loop EXCEPT ![p] = Still]
      /\ UNCHANGED <<ended, leaving, accepted, tangled>>
  BY DEF PubDropped
<1>1. /\ loop' \in [PubLoops -> LoopState]
      /\ loop'[p].pc = "idle" /\ loop'[p].link = 0
      /\ \A q \in PubLoops \ {p} : loop'[q] = loop[q]
  BY <1>0, LoopStates, LoopMoves
<1>2. /\ conns' \in [Conns -> ConnState] /\ emit' \in [Emits -> EmitState] /\ EmitInv'
      /\ \A k \in 0 .. MaxConns : k # 0 =>
           /\ conns'[k].state = "open" <=> conns[k].state = "open" /\ k \notin {loop[p].link, conn}
           /\ conns'[k].state = "unused" <=> conns[k].state = "unused"
           /\ conns'[k].state = "open" => conns'[k].heard = conns[k].heard
  <2>1. \A n \in 0 .. MaxConns : n # 0 => n \in Conns
    BY RabbitPublisherAssumption DEF Conns
  <2>. QED
    BY <1>0, <2>1, ConnsCloseKeeps
<1>3. PubTypes'
  BY <1>0, <1>1, <1>2, RabbitPublisherAssumption DEF PubTypes
<1>4. LinkInv'
  <2>1. \A q \in PubLoops : loop[q].link \in 0 .. MaxConns
    BY DEF PubTypes, LoopState
  <2>2. \A q \in PubLoops : LoopLinkInv(q)'
    BY <1>0, <1>1, <1>2, <2>1 DEF LinkInv, LoopLinkInv, Up
  <2>3. leaving # 0 => conns'[leaving].state # "unused"
    BY <1>2 DEF LinkInv, PubTypes
  <2>. QED
    BY <1>0, <2>2, <2>3 DEF LinkInv
<1>5. HeldInv'
  <2>. SUFFICES ASSUME ~tangled' PROVE Accounted'
    BY DEF HeldInv
  <2>1. \A k \in Conns : Up(k)' => Up(k) /\ k # conn /\ k # loop[p].link
    BY <1>2 DEF Up, Conns
  <2>2. \A k \in Conns : Up(k)' => Held(k)'
    BY <1>0, <1>1, <2>1 DEF HeldInv, Accounted, Held
  <2>3. \A q \in PubLoops : Busy(q)' => Busy(q)
    BY <1>1 DEF Busy
  <2>. QED
    BY <1>0, <2>2, <2>3 DEF HeldInv, Accounted
<1>. QED
  BY <1>2, <1>3, <1>4, <1>5

\* PubClosed keeps PubInv.
LEMMA PubClosedInv == ASSUME PubInv, PubClosed PROVE PubInv'
<1>. USE DEF PubInv
<1>0. /\ leaving # 0 /\ ConnsClose({leaving}) /\ leaving' = 0
      /\ UNCHANGED <<ended, conn, loop, accepted, tangled>>
  BY DEF PubClosed
<1>1. /\ conns' \in [Conns -> ConnState] /\ emit' \in [Emits -> EmitState] /\ EmitInv'
      /\ \A k \in 0 .. MaxConns : k # 0 =>
           /\ conns'[k].state = "open" <=> conns[k].state = "open" /\ k # leaving
           /\ conns'[k].state = "unused" <=> conns[k].state = "unused"
           /\ conns'[k].state = "open" => conns'[k].heard = conns[k].heard
  <2>1. \A n \in 0 .. MaxConns : n # 0 => n \in Conns
    BY RabbitPublisherAssumption DEF Conns
  <2>. QED
    BY <1>0, <2>1, ConnsCloseKeeps
<1>2. PubTypes'
  BY <1>0, <1>1, RabbitPublisherAssumption DEF PubTypes
<1>3. LinkInv'
  <2>1. \A q \in PubLoops : loop[q].link \in 0 .. MaxConns
    BY DEF PubTypes, LoopState
  <2>2. \A q \in PubLoops : LoopLinkInv(q)'
    BY <1>0, <1>1, <2>1 DEF LinkInv, LoopLinkInv, Up
  <2>3. conn # 0 => Up(conn)' /\ conns'[conn].heard
    BY <1>0, <1>1 DEF LinkInv, PubTypes, Up
  <2>. QED
    BY <1>0, <2>2, <2>3 DEF LinkInv, Up
<1>4. HeldInv'
  <2>1. \A k \in Conns : Up(k)' => Up(k) /\ k # leaving
    BY <1>1 DEF Up, Conns
  <2>. QED
    BY <1>0, <2>1 DEF HeldInv, Accounted, Held, Busy
<1>. QED
  BY <1>1, <1>2, <1>3, <1>4

\* PubClose keeps PubInv.
LEMMA PubCloseInv == ASSUME PubInv, PubClose PROVE PubInv'
<1>. USE DEF PubInv
<1>0. /\ leaving = 0 /\ leaving' = conn /\ conn' = 0
      /\ UNCHANGED <<loop, emit, accepted, tangled>>
  BY DEF PubClose
<1>1. /\ conns' \in [Conns -> ConnState]
      /\ \A k \in 0 .. MaxConns : k # 0 =>
            conns'[k].state = conns[k].state /\ (k # conn => conns'[k] = conns[k])
  <2>1. CASE conn = 0
    BY <2>1 DEF PubClose, PubTypes
  <2>2. CASE conn # 0
    <3>1. conns' = [conns EXCEPT ![conn] = [conns[conn] EXCEPT !.heard = FALSE]]
      BY <2>2 DEF PubClose
    <3>2. conn \in Conns
      BY <2>2, RabbitPublisherAssumption DEF PubTypes, Conns
    <3>3. [conns[conn] EXCEPT !.heard = FALSE] \in ConnState
          /\ [conns[conn] EXCEPT !.heard = FALSE].state = conns[conn].state
      BY <3>2 DEF PubTypes, ConnState
    <3>. QED
      BY <3>1, <3>2, <3>3 DEF PubTypes
  <2>. QED
    BY <2>1, <2>2
<1>2. PubTypes'
  BY <1>0, <1>1, RabbitPublisherAssumption DEF PubTypes
<1>3. \A k \in 0 .. MaxConns : Up(k)' <=> Up(k)
  BY <1>1 DEF Up
<1>4. EmitInv'
  BY <1>0, <1>3 DEF EmitInv, PubTypes, EmitState
<1>5. \A q \in PubLoops : loop[q].link \in 0 .. MaxConns
  BY DEF PubTypes, LoopState
<1>6. LinkInv'
  <2>1. \A q \in PubLoops : LoopLinkInv(q)'
    BY <1>0, <1>1, <1>3, <1>5 DEF LinkInv, LoopLinkInv
  <2>2. conn # 0 => conns'[conn].state # "unused"
    BY <1>1 DEF LinkInv, Up, PubTypes
  <2>. QED
    BY <1>0, <2>1, <2>2 DEF LinkInv
<1>7. HeldInv'
  <2>1. \A k \in Conns : k \in 0 .. MaxConns /\ k # 0
    BY DEF Conns
  <2>. QED
    BY <1>0, <1>3, <2>1 DEF HeldInv, Accounted, Held, Busy
<1>. QED
  BY <1>2, <1>4, <1>6, <1>7

\* Every step of the publisher preserves its invariant.
LEMMA PubNextInv == ASSUME PubInv, PubNext PROVE PubInv'
BY EmitsInv, LostInv, InitializeInv, RetriesInv, ConnectedInv, SetUpInv, DroppedInv,
   PubClosedInv, PubCloseInv DEF PubNext, PubLoopStep

\* PubInv does not depend on the rest of the state.
LEMMA PubKeptInv == ASSUME PubInv, UNCHANGED rabbitPubVars PROVE PubInv'
BY DEF rabbitPubVars, PubInv, PubTypes, EmitInv, LinkInv, LoopLinkInv, HeldInv, Accounted, Held, Busy, Up

\* What PubInv says of the checked invariants.
LEMMA PubInvImplies ==
    PubInv => ResolvedWasAccepted /\ WaitingHasLink /\ ClosedPublisherHasNoLink
<1>. SUFFICES ASSUME PubInv PROVE ResolvedWasAccepted /\ WaitingHasLink /\ ClosedPublisherHasNoLink
  OBVIOUS
<1>1. ResolvedWasAccepted /\ WaitingHasLink
  BY DEF PubInv, EmitInv, ResolvedWasAccepted, WaitingHasLink
<1>2. ClosedPublisherHasNoLink
  <2>1. \A p \in PubLoops : ~Busy(p) => loop[p].link = 0
    BY DEF PubInv, LinkInv, LoopLinkInv, Busy
  <2>2. \A l \in Conns : l # 0
    BY DEF Conns
  <2>. QED
    BY <2>1, <2>2 DEF PubInv, LinkInv, HeldInv, Accounted, Held, ClosedPublisherHasNoLink
<1>. QED
  BY <1>1, <1>2

------------------------------------------------------------------------------
(* The other publishers                                                      *)

SendState == [pc : {"idle", "ensuring", "sending", "resolved", "rejected"}, via : 0 .. MaxClients]

DirectTypes ==
    /\ client \in 0 .. MaxClients /\ joining \in 0 .. MaxClients /\ made \in 0 .. MaxClients
    /\ live \subseteq Clients /\ going \subseteq Clients
    /\ send \in [Sends -> SendState]

\* No client is there while one is being connected, and a Service Bus publisher closes the
\* one it has before it forgets it.
ClientInv == ~closedMidway =>
    /\ joining # 0 => broker # "servicebus" /\ client = 0 /\ going = {}
    /\ broker = "servicebus" /\ going # {} => going = {client}
    /\ live \subseteq {client} \cup going \cup stranded

DirectInv == DirectTypes /\ SendResolvedWasTaken /\ ClientInv

\* The initial states satisfy DirectInv.
LEMMA DirectInitInv == DirectPublisherInit => DirectInv
<1>. SUFFICES ASSUME DirectPublisherInit PROVE DirectInv
  OBVIOUS
<1>1. DirectTypes
  BY DirectPublisherAssumption DEF DirectPublisherInit, DirectTypes, SendState
<1>2. SendResolvedWasTaken /\ ClientInv
  BY DEF DirectPublisherInit, SendResolvedWasTaken, ClientInv
<1>. QED
  BY <1>1, <1>2 DEF DirectInv

\* A step of an emit() that leaves the clients as they are.
LEMMA SendStepInv ==
    ASSUME DirectInv, NEW e \in Sends, NEW s \in SendState,
           send' = [send EXCEPT ![e] = s],
           s.pc = "resolved" => e \in taken,
           UNCHANGED <<broker, client, joining, made, live, going, taken, directHistory>>
    PROVE  DirectInv'
<1>1. DirectTypes' /\ ClientInv'
  BY DEF directHistory, DirectInv, DirectTypes, ClientInv
<1>2. SendResolvedWasTaken'
  BY DEF DirectInv, DirectTypes, SendResolvedWasTaken
<1>. QED
  BY <1>1, <1>2 DEF DirectInv

\* DirectEmit keeps DirectInv.
LEMMA DirectEmitInv == ASSUME DirectInv, NEW e \in Sends, DirectEmit(e) PROVE DirectInv'
<1>. USE DirectPublisherAssumption
<1>0. /\ send[e] \in SendState
      /\ client \in 0 .. MaxClients /\ made \in 0 .. MaxClients
      /\ UNCHANGED <<broker, joining, going, taken, directHistory>>
  BY DEF DirectInv, DirectTypes, DirectEmit
<1>1. CASE UNCHANGED <<client, made, live>>
  <2>1. PICK s \in SendState : send' = [send EXCEPT ![e] = s] /\ s.pc # "resolved"
    <3>1. CASE broker # "servicebus" /\ client = 0
      <4>1. send' = [send EXCEPT ![e] = [send[e] EXCEPT !.pc = "rejected"]]
        BY <1>1, <3>1 DEF DirectEmit
      <4>2. [send[e] EXCEPT !.pc = "rejected"] \in SendState
        BY <1>0 DEF SendState
      <4>. QED
        BY <4>1, <4>2 DEF SendState
    <3>2. CASE broker # "servicebus" /\ client # 0 /\ AutoCreate /\ ~ensured
      <4>1. send' = [send EXCEPT ![e] = [via |-> client, pc |-> "ensuring"]]
        BY <1>1, <3>2 DEF DirectEmit
      <4>2. [via |-> client, pc |-> "ensuring"] \in SendState
        BY <1>0 DEF SendState
      <4>. QED
        BY <4>1, <4>2
    <3>3. CASE broker # "servicebus" /\ client # 0 /\ ~(AutoCreate /\ ~ensured)
      <4>1. send' = [send EXCEPT ![e] = [via |-> client, pc |-> "sending"]]
        BY <1>1, <3>3 DEF DirectEmit
      <4>2. [via |-> client, pc |-> "sending"] \in SendState
        BY <1>0 DEF SendState
      <4>. QED
        BY <4>1, <4>2
    <3>4. CASE broker = "servicebus"
      <4>1. send' = [send EXCEPT ![e] = [via |-> client, pc |-> "sending"]]
        BY <1>0, <1>1, <3>4 DEF DirectEmit
      <4>2. [via |-> client, pc |-> "sending"] \in SendState
        BY <1>0 DEF SendState
      <4>. QED
        BY <4>1, <4>2
    <3>. QED
      BY <3>1, <3>2, <3>3, <3>4
  <2>. QED
    BY <1>0, <1>1, <2>1, SendStepInv
<1>2. CASE /\ broker = "servicebus" /\ client = 0 /\ made < MaxClients
           /\ made' = made + 1
           /\ client' = made'
           /\ live' = live \cup {made'}
           /\ send' = [send EXCEPT ![e] = [via |-> made', pc |-> "sending"]]
  <2>1. made + 1 \in Clients /\ [via |-> made', pc |-> "sending"] \in SendState
    BY <1>0, <1>2 DEF SendState, Clients
  <2>2. send' \in [Sends -> SendState]
    BY <1>2, <2>1 DEF DirectInv, DirectTypes
  <2>3. DirectTypes'
    <3>1. made' \in Clients /\ client' = made' /\ live' = live \cup {made'} /\ joining' = joining
      BY <1>0, <1>2, <2>1
    <3>2. made' \in 0 .. MaxClients
      BY <3>1 DEF Clients
    <3>. QED
      BY <1>0, <2>2, <3>1, <3>2 DEF DirectInv, DirectTypes, Clients
  <2>4. SendResolvedWasTaken'
    BY <1>0, <1>2, <2>1 DEF DirectInv, DirectTypes, SendResolvedWasTaken
  <2>5. ClientInv'
    <3>1. 0 \notin live /\ 0 \notin going /\ joining' = joining /\ going' = going
      BY <1>0 DEF DirectInv, DirectTypes, Clients
    <3>2. ~closedMidway => going = {} /\ live \subseteq stranded /\ joining = 0
      BY <1>2, <3>1 DEF DirectInv, ClientInv
    <3>. QED
      BY <1>0, <1>2, <3>1, <3>2 DEF ClientInv, directHistory
  <2>. QED
    BY <2>3, <2>4, <2>5 DEF DirectInv
<1>. QED
  BY <1>1, <1>2 DEF DirectEmit

\* The steps of a send keep DirectInv.
LEMMA SendsInv ==
    ASSUME DirectInv, NEW e \in Sends, Taken(e) \/ SendStep(e) \/ SendRefused(e)
    PROVE  DirectInv'
<1>0. send[e] \in SendState
  BY DEF DirectInv, DirectTypes
<1>1. CASE Taken(e)
  BY <1>1 DEF Taken, DirectInv, DirectTypes, ClientInv, SendResolvedWasTaken, directHistory
<1>2. CASE SendStep(e) \/ SendRefused(e)
  <2>1. PICK s \in SendState : send' = [send EXCEPT ![e] = s] /\ (s.pc = "resolved" => e \in taken)
    <3>1. \A p \in {"sending", "resolved", "rejected"} :
             /\ [send[e] EXCEPT !.pc = p] \in SendState
             /\ [send[e] EXCEPT !.pc = p].pc = p
      BY <1>0 DEF SendState
    <3>2. \A p \in {"sending", "resolved", "rejected"} :
             [send EXCEPT ![e].pc = p] = [send EXCEPT ![e] = [send[e] EXCEPT !.pc = p]]
      OBVIOUS
    <3>3. CASE TopicThere(e)
      <4>1. send' = [send EXCEPT ![e] = [send[e] EXCEPT !.pc = "sending"]]
        BY <3>3 DEF TopicThere
      <4>. QED
        BY <3>1, <4>1
    <3>4. CASE SendResolves(e)
      <4>1. send' = [send EXCEPT ![e] = [send[e] EXCEPT !.pc = "resolved"]] /\ e \in taken
        BY <3>4 DEF SendResolves
      <4>. QED
        BY <3>1, <4>1
    <3>5. CASE SendTimesOut(e)
      <4>1. send' = [send EXCEPT ![e] = [send[e] EXCEPT !.pc = "rejected"]]
        BY <3>5 DEF SendTimesOut
      <4>. QED
        BY <3>1, <4>1
    <3>6. CASE SendRefused(e)
      <4>1. [pc |-> "rejected", via |-> 0] \in SendState
        BY DirectPublisherAssumption DEF SendState
      <4>. QED
        BY <3>6, <4>1 DEF SendRefused
    <3>. QED
      BY <1>2, <3>3, <3>4, <3>5, <3>6 DEF SendStep
  <2>2. UNCHANGED <<broker, client, joining, made, live, going, taken, directHistory>>
    BY <1>2 DEF SendStep, TopicThere, SendResolves, SendTimesOut, SendRefused
  <2>. QED
    BY <2>1, <2>2, SendStepInv
<1>. QED
  BY <1>1, <1>2

\* A client comes or goes.
LEMMA ClientsInv ==
    ASSUME DirectInv,
           \/ DirectInitialize \/ ClientJoined \/ ClientRefused \/ DirectClose
           \/ \E n \in Clients : ClientLeft(n)
    PROVE  DirectInv'
<1>. USE DirectPublisherAssumption DEF DirectInv, DirectTypes, SendResolvedWasTaken, directHistory
<1>0. 0 \notin live /\ 0 \notin going /\ \A n \in 0 .. MaxClients : n # 0 => n \in Clients
  BY DEF Clients
<1>1. CASE DirectInitialize
  <2>1. DirectTypes'
    BY <1>1 DEF DirectInitialize, Clients
  <2>2. SendResolvedWasTaken'
    BY <1>1 DEF DirectInitialize
  <2>3. ClientInv'
    BY <1>1 DEF DirectInitialize, ClientInv
  <2>. QED
    BY <2>1, <2>2, <2>3
<1>2. CASE ClientJoined
  <2>1. DirectTypes'
    <3>1. joining \in Clients
      BY <1>2 DEF ClientJoined, Clients
    <3>. QED
      BY <1>2, <3>1 DEF ClientJoined, Clients
  <2>2. SendResolvedWasTaken'
    BY <1>2 DEF ClientJoined
  <2>3. ClientInv'
    BY <1>0, <1>2 DEF ClientJoined, ClientInv
  <2>. QED
    BY <2>1, <2>2, <2>3
<1>3. CASE ClientRefused
  BY <1>3 DEF ClientRefused, ClientInv, Clients
<1>4. CASE DirectClose
  <2>1. DirectTypes' /\ SendResolvedWasTaken'
    BY <1>4 DEF DirectClose, Clients
  <2>2. ClientInv'
    BY <1>0, <1>4 DEF DirectClose, ClientInv
  <2>. QED
    BY <2>1, <2>2
<1>5. ASSUME NEW n \in Clients, ClientLeft(n) PROVE DirectInv'
  <2>0. /\ live' \subseteq live /\ going' \subseteq going /\ client' \in {0, client}
        /\ UNCHANGED <<joining, made, send, taken>>
    BY <1>5 DEF ClientLeft
  <2>1. DirectTypes' /\ SendResolvedWasTaken'
    BY <2>0
  <2>2. ClientInv'
    BY <1>0, <1>5 DEF ClientLeft, ClientInv
  <2>. QED
    BY <2>1, <2>2
<1>. QED
  BY <1>1, <1>2, <1>3, <1>4, <1>5

\* Every step keeps DirectInv.
LEMMA DirectNextInv == ASSUME DirectInv, DirectPublisherNext PROVE DirectInv'
BY DirectEmitInv, SendsInv, ClientsInv DEF DirectPublisherNext

\* DirectInv does not depend on the rest of the state.
LEMMA DirectKeptInv == ASSUME DirectInv, UNCHANGED directVars PROVE DirectInv'
BY DEF directVars, directHistory, DirectInv, DirectTypes, ClientInv, SendResolvedWasTaken

\* What DirectInv says of the checked invariants.
LEMMA DirectInvImplies == DirectInv => SendResolvedWasTaken /\ NoClientLeaked
BY DEF DirectInv, ClientInv, NoClientLeaked

------------------------------------------------------------------------------
(* Transports                                                              *)

TransportsInv == RabbitInv /\ PubInv /\ KafkaInv /\ SqsInv /\ BusInv /\ DirectInv

\* The initial states satisfy TransportsInv.
LEMMA TransportsInitInv == TransportsInit => TransportsInv
BY RabbitInitInv, PubInitInv, KafkaInitInv, SqsInitInv, BusInitInv, DirectInitInv
DEF TransportsInit, TransportsInv

\* The adapter that is followed keeps its invariant by its own steps, the others by none.
LEMMA TransportsNextInv == TransportsInv /\ [TransportsNext]_transportVars => TransportsInv'
<1>. SUFFICES ASSUME TransportsInv, [TransportsNext]_transportVars PROVE TransportsInv'
  OBVIOUS
<1>. USE DEF TransportsInv
<1>1. RabbitInv'
  <2>1. CASE Next
    BY <2>1, RabbitNextInv
  <2>2. CASE UNCHANGED vars
    BY <2>2, RabbitKeptInv
  <2>. QED
    BY <2>1, <2>2 DEF TransportsNext, Follow, transportVars
<1>2. PubInv'
  <2>1. CASE PubNext
    BY <2>1, PubNextInv
  <2>2. CASE UNCHANGED rabbitPubVars
    BY <2>2, PubKeptInv
  <2>. QED
    BY <2>1, <2>2 DEF TransportsNext, Follow, transportVars
<1>3. KafkaInv'
  <2>1. CASE KafkaNext
    BY <2>1, KafkaNextInv
  <2>2. CASE UNCHANGED kafkaVars
    BY <2>2, KafkaKeptInv
  <2>. QED
    BY <2>1, <2>2 DEF TransportsNext, Follow, transportVars
<1>4. SqsInv'
  <2>1. CASE SqsNext
    BY <2>1, SqsNextInv
  <2>2. CASE UNCHANGED sqsVars
    BY <2>2, SqsKeptInv
  <2>. QED
    BY <2>1, <2>2 DEF TransportsNext, Follow, transportVars
<1>5. BusInv'
  <2>1. CASE BusNext
    BY <2>1, BusNextInv
  <2>2. CASE UNCHANGED busVars
    BY <2>2, BusKeptInv
  <2>. QED
    BY <2>1, <2>2 DEF TransportsNext, Follow, transportVars
<1>6. DirectInv'
  <2>1. CASE DirectPublisherNext
    BY <2>1, DirectNextInv
  <2>2. CASE UNCHANGED directVars
    BY <2>2, DirectKeptInv
  <2>. QED
    BY <2>1, <2>2 DEF TransportsNext, Follow, transportVars
<1>. QED
  BY <1>1, <1>2, <1>3, <1>4, <1>5, <1>6

\* Every reachable state of every adapter satisfies its invariant.
THEOREM AdaptersHoldTheirInvariants == TransportsSpec => []TransportsInv
BY TransportsInitInv, TransportsNextInv, PTL DEF TransportsSpec

\* For any messages, links, calls and faults: a broker forgets a message only after the
\* handler resolved on it, or because it cannot be decoded (RabbitMQ: unless the two retry
\* loops overlapped).
THEOREM NothingIsForgotten == TransportsSpec => []SettledWasHandled
<1>1. TransportsInv => SettledWasHandled
  BY RabbitInvImplies, KafkaInvImplies, SqsInvImplies, BusInvImplies
  DEF TransportsInv, SettledWasHandled
<1>. QED
  BY <1>1, AdaptersHoldTheirInvariants, PTL

\* For any calls, links and faults: emit() resolves only for a message the broker has taken,
\* and a call that waits for its confirm has a link to hear it on.
THEOREM EmitIsHonest == TransportsSpec => []EmitWasTaken
<1>1. TransportsInv => EmitWasTaken
  BY PubInvImplies, DirectInvImplies DEF TransportsInv, EmitWasTaken
<1>. QED
  BY <1>1, AdaptersHoldTheirInvariants, PTL

\* For any calls, topics and queues: a consume() that resolved is in effect, be it at a
\* Kafka consumer (unless calls of its process overlapped), a Service Bus entity (unless a
\* request was rejected) or in the policy of an SQS queue (unless two provisionings read the
\* same policy).
THEOREM SubscriptionsStayServed == TransportsSpec => []SubscriptionsServed
<1>1. TransportsInv => SubscriptionsServed
  BY KafkaInvImplies, SqsInvImplies, BusInvImplies DEF TransportsInv, SubscriptionsServed
<1>. QED
  BY <1>1, AdaptersHoldTheirInvariants, PTL

\* For any links, clients, consumers and receivers: one that is open is held by its adapter
\* or being taken down, if no two RabbitMQ loops ran at once, no calls overlapped that the
\* adapter does not serialise (consume() with consume() or close(), emit() with close()),
\* and what was told to close did not reject that; and no poll loop outlives its client.
THEOREM NothingStaysOpen == TransportsSpec => []NothingLeaked
<1>1. TransportsInv => NothingLeaked
  BY RabbitInvImplies, PubInvImplies, KafkaInvImplies, SqsInvImplies, BusInvImplies,
     DirectInvImplies
  DEF TransportsInv, NothingLeaked
<1>. QED
  BY <1>1, AdaptersHoldTheirInvariants, PTL
==============================================================================
