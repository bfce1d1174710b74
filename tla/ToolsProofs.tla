----------------------------- MODULE ToolsProofs -----------------------------
(***************************************************************************)
(* Theorems about the repository's tools, for any packages, commits,       *)
(* versions and failures.                                                  *)
(***************************************************************************)
EXTENDS Tools, WellFoundedInduction, FiniteSetTheorems, SequenceTheorems, TLAPS

-----------------------------------------------------------------------------
(* The least member of a set of numbers                                     *)

NatOrder == {pair \in Nat \X Nat : pair[1] < pair[2]}

\* Among any numbers one is the least: what stands in for induction here.
LEMMA LeastNumber ==
    ASSUME NEW T \in SUBSET Nat, T # {}
    PROVE  \E x \in T : \A y \in T : x <= y
<1>1. IsWellFoundedOn(NatOrder, Nat)
  <2>1. OpToRel(<, Nat) = NatOrder
    BY DEF OpToRel, NatOrder
  <2>. QED
    BY <2>1, NatLessThanWellFounded
<1>2. PICK x \in T : \A y \in T : ~(<<y, x>> \in NatOrder)
  BY <1>1, WFMin
<1>3. ASSUME NEW y \in T PROVE x <= y
  <2>1. x \in Nat /\ y \in Nat /\ <<y, x>> \in Nat \X Nat
    OBVIOUS
  <2>2. ~(y < x)
    BY <1>2, <2>1 DEF NatOrder
  <2>. QED
    BY <2>1, <2>2
<1>. QED
  BY <1>3

\* Min() of numbers is one of them.
LEMMA MinIsLeast ==
    ASSUME NEW T \in SUBSET Nat, T # {}
    PROVE  Min(T) \in T /\ \A y \in T : Min(T) <= y
BY LeastNumber DEF Min

-----------------------------------------------------------------------------
(* WorkspaceGraph: the visit follows a path, and the order takes a package  *)
(* after all it depends on.                                                 *)

Taken == {ordered[i] : i \in DOMAIN ordered}

GraphTypes ==
    /\ dependencies \in [Packages -> SUBSET Packages]
    /\ stage \in {"graph", "visit", "sort", "rejected", "sorted", "running", "passed", "failed"}
    /\ stack \in Seq(Packages) /\ done \in SUBSET Packages
    /\ ordered \in Seq(Packages)
    /\ stage \in {"graph", "visit"} => ordered = <<>>

\* Each name being visited depends on the next one.
PathInv == \A i \in 1 .. Len(stack) - 1 : stack[i + 1] \in dependencies[stack[i]]

\* The taken packages have no cycle among them and need no others.
OrderInv ==
    /\ \A i \in DOMAIN ordered : \A q \in dependencies[ordered[i]] :
          \E j \in 1 .. i - 1 : ordered[j] = q
    /\ \A i, j \in DOMAIN ordered : ordered[i] = ordered[j] => i = j
    /\ \A S \in (SUBSET Taken) \ {{}} : \E p \in S : dependencies[p] \cap S = {}

\* The sort knows how many dependencies each package still waits for.
SortInv == stage = "sort" =>
    /\ ready = {p \in Packages \ Taken : dependencies[p] \subseteq Taken}
    /\ indegree = [p \in Packages |-> Cardinality(dependencies[p] \ Taken)]

OutcomeInv ==
    /\ stage = "rejected" => ~Acyclic \/ outdated # {}
    /\ stage \notin {"graph", "rejected"} => outdated = {}
    /\ stage \in {"sorted", "running", "passed", "failed"} => Taken = Packages

GraphInv == GraphTypes /\ PathInv /\ OrderInv /\ SortInv /\ OutcomeInv

\* The initial states satisfy GraphInv.
LEMMA GraphInitInv == ASSUME GraphInit PROVE GraphInv
<1>1. /\ dependencies \in [Packages -> SUBSET Packages] /\ stage = "graph"
      /\ stack = <<>> /\ done = {} /\ ordered = <<>>
  BY DEF GraphInit
<1>2. Taken = {} /\ Len(stack) = 0
  BY <1>1 DEF Taken
<1>. QED
  <2>1. GraphTypes /\ PathInv
    BY <1>1, <1>2 DEF GraphTypes, PathInv
  <2>2. OrderInv
    BY <1>1, <1>2 DEF OrderInv
  <2>3. SortInv /\ OutcomeInv
    BY <1>1 DEF SortInv, OutcomeInv
  <2>. QED
    BY <2>1, <2>2, <2>3 DEF GraphInv

\* The steps that neither take a package nor visit one.
LEMMA GraphKept ==
    ASSUME GraphInv, UNCHANGED <<dependencies, stack, done, ordered, outdated>>,
           stage' \in {"graph", "visit", "rejected", "sorted", "running", "passed", "failed"},
           stage' = "rejected" => ~Acyclic \/ outdated # {},
           stage' \in {"graph", "visit"} => ordered = <<>>,
           stage' \notin {"graph", "rejected"} => outdated = {},
           stage' \in {"sorted", "running", "passed", "failed"} => Taken = Packages
    PROVE  GraphInv'
<1>1. Taken' = Taken /\ Acyclic' = Acyclic
  BY DEF Taken, Acyclic
<1>2. GraphTypes' /\ PathInv'
  BY DEF GraphInv, GraphTypes, PathInv
<1>3. OrderInv'
  BY <1>1 DEF GraphInv, OrderInv
<1>4. SortInv' /\ OutcomeInv'
  BY <1>1 DEF SortInv, OutcomeInv
<1>. QED
  BY <1>2, <1>3, <1>4 DEF GraphInv

\* BuildGraph keeps GraphInv.
LEMMA BuildGraphInv == ASSUME GraphInv, BuildGraph PROVE GraphInv'
<1>1. /\ UNCHANGED <<dependencies, stack, done, ordered, outdated>>
      /\ \/ stage' = "rejected" /\ outdated # {}
         \/ stage' = "visit" /\ outdated = {}
      /\ ordered = <<>>
  BY DEF BuildGraph, Reject, GraphInv, GraphTypes
<1>. QED
  BY <1>1, GraphKept

\* Visit keeps GraphInv.
LEMMA VisitInv == ASSUME GraphInv, Visit PROVE GraphInv'
<1>1. PICK name \in {Min(ToVisit)} :
        \/ name \in {stack[i] : i \in DOMAIN stack} /\ Reject
        \/ /\ stack' = Append(stack, name)
           /\ UNCHANGED <<stage, done, indegree, ready, ordered>>
  BY DEF Visit
<1>2. /\ UNCHANGED <<dependencies, outdated>> /\ stage = "visit"
      /\ stack \in Seq(Packages) /\ dependencies \in [Packages -> SUBSET Packages]
  BY DEF Visit, GraphInv, GraphTypes
<1>3. stack # <<>> => Top \in Packages /\ Len(stack) \in Nat \ {0}
  BY <1>2 DEF Top
<1>4. name \in ToVisit /\ name \in Packages
  <2>1. ToVisit # {} /\ ToVisit \subseteq Packages
    BY <1>2, <1>3 DEF Visit, ToVisit
  <2>2. ToVisit \in SUBSET Nat
    BY <2>1, WorkspaceAssumption DEF Packages
  <2>. QED
    BY <1>1, <2>1, <2>2, MinIsLeast
<1>5. stack # <<>> => name \in dependencies[Top]
  BY <1>4 DEF ToVisit
<1>6. CASE name \in {stack[i] : i \in DOMAIN stack} /\ Reject
  <2>1. PICK k \in 1 .. Len(stack) : stack[k] = name
    BY <1>2, <1>6
  <2>. DEFINE S == {stack[i] : i \in k .. Len(stack)}
  <2>2. S \in (SUBSET Packages) \ {{}}
    <3>1. \A i \in k .. Len(stack) : stack[i] \in Packages
      BY <1>2, <2>1
    <3>2. stack[k] \in S
      BY <1>2, <2>1
    <3>. QED
      BY <3>1, <3>2
  <2>3. ASSUME NEW p \in S PROVE dependencies[p] \cap S # {}
    <3>1. PICK i \in k .. Len(stack) : p = stack[i]
      OBVIOUS
    <3>2. Len(stack) \in Nat /\ stack # <<>>
      BY <1>2, <2>1
    <3>3. CASE i < Len(stack)
      <4>1. stack[i + 1] \in dependencies[p] /\ i + 1 \in k .. Len(stack)
        BY <2>1, <3>1, <3>2, <3>3 DEF GraphInv, PathInv
      <4>. QED
        BY <4>1
    <3>4. CASE i = Len(stack)
      <4>1. name \in dependencies[p] /\ k \in k .. Len(stack)
        BY <1>5, <2>1, <3>1, <3>2, <3>4 DEF Top
      <4>. QED
        BY <2>1, <4>1
    <3>. QED
      BY <2>1, <3>1, <3>2, <3>3, <3>4
  <2>4. ~Acyclic
    BY <2>2, <2>3 DEF Acyclic
  <2>5. stage' = "rejected" /\ UNCHANGED <<stack, done, ordered>>
    BY <1>6 DEF Reject
  <2>. QED
    BY <1>2, <2>4, <2>5, GraphKept
<1>7. CASE stack' = Append(stack, name) /\ UNCHANGED <<stage, done, indegree, ready, ordered>>
  <2>1. stack' \in Seq(Packages) /\ Len(stack') = Len(stack) + 1 /\ Len(stack) \in Nat
        /\ \A i \in 1 .. Len(stack) : stack'[i] = stack[i]
        /\ stack'[Len(stack) + 1] = name
    BY <1>2, <1>4, <1>7
  <2>2. ASSUME NEW i \in 1 .. Len(stack') - 1
        PROVE  stack'[i + 1] \in dependencies[stack'[i]]
    <3>1. CASE i < Len(stack)
      BY <2>1, <3>1 DEF GraphInv, PathInv
    <3>2. CASE i = Len(stack)
      <4>1. stack # <<>>
        BY <1>2, <2>1, <3>2
      <4>. QED
        BY <1>5, <2>1, <3>2, <4>1 DEF Top
    <3>. QED
      BY <2>1, <3>1, <3>2
  <2>3. Taken' = Taken
    BY <1>7 DEF Taken
  <2>4. GraphTypes' /\ PathInv'
    BY <1>2, <1>7, <2>1, <2>2 DEF GraphInv, GraphTypes, PathInv
  <2>5. OrderInv' /\ SortInv'
    BY <1>2, <1>7, <2>3 DEF GraphInv, OrderInv, SortInv
  <2>6. OutcomeInv'
    BY <1>2, <1>7, <2>3 DEF GraphInv, OutcomeInv
  <2>. QED
    BY <2>4, <2>5, <2>6 DEF GraphInv
<1>. QED
  BY <1>1, <1>6, <1>7

\* VisitEnds keeps GraphInv.
LEMMA VisitEndsInv == ASSUME GraphInv, VisitEnds PROVE GraphInv'
<1>1. /\ UNCHANGED <<dependencies, outdated, stage, indegree, ready, ordered>>
      /\ stack' = SubSeq(stack, 1, Len(stack) - 1) /\ done' = done \cup {Top}
      /\ stack # <<>> /\ stack \in Seq(Packages) /\ stage = "visit"
  BY DEF VisitEnds, GraphInv, GraphTypes
<1>2. /\ Len(stack) \in Nat \ {0} /\ Top \in Packages
      /\ stack' \in Seq(Packages) /\ Len(stack') = Len(stack) - 1
      /\ \A i \in 1 .. Len(stack) - 1 : stack'[i] = stack[i]
  <2>1. Len(stack) \in Nat \ {0} /\ Top \in Packages
    BY <1>1 DEF Top
  <2>2. \A i \in 1 .. Len(stack) - 1 : stack[i] \in Packages
    BY <1>1, <2>1
  <2>3. /\ SubSeq(stack, 1, Len(stack) - 1) \in Seq(Packages)
        /\ Len(SubSeq(stack, 1, Len(stack) - 1)) = Len(stack) - 1
        /\ \A i \in 1 .. Len(stack) - 1 : SubSeq(stack, 1, Len(stack) - 1)[i] = stack[i]
    <3>. DEFINE before == Len(stack) - 1
    <3>1. before \in Int /\ 1 \in Int /\ \A i \in 1 .. before : stack[i] \in Packages
      BY <2>1, <2>2
    <3>. HIDE DEF before
    <3>2. /\ SubSeq(stack, 1, before) \in Seq(Packages)
          /\ Len(SubSeq(stack, 1, before)) = IF 1 <= before THEN before - 1 + 1 ELSE 0
          /\ \A i \in 1 .. before - 1 + 1 : SubSeq(stack, 1, before)[i] = stack[1 + i - 1]
      BY <3>1, SubSeqProperties
    <3>3. before \in Nat /\ before = Len(stack) - 1
      BY <2>1 DEF before
    <3>4. ASSUME NEW i \in 1 .. before PROVE SubSeq(stack, 1, before)[i] = stack[i]
      <4>1. i \in 1 .. before - 1 + 1 /\ 1 + i - 1 = i
        BY <3>3
      <4>. QED
        BY <3>2, <4>1
    <3>5. Len(SubSeq(stack, 1, before)) = before
      BY <3>2, <3>3
    <3>6. /\ SubSeq(stack, 1, before) \in Seq(Packages)
          /\ Len(SubSeq(stack, 1, before)) = before
          /\ \A i \in 1 .. before : SubSeq(stack, 1, before)[i] = stack[i]
      BY <3>2, <3>4, <3>5
    <3>. QED
      BY <3>6 DEF before
  <2>. QED
    BY <1>1, <2>1, <2>3
<1>3. Taken' = Taken
  BY <1>1 DEF Taken
<1>4. GraphTypes'
  BY <1>1, <1>2 DEF GraphInv, GraphTypes
<1>5. PathInv'
  BY <1>1, <1>2 DEF GraphInv, PathInv
<1>6. OrderInv' /\ SortInv'
  BY <1>1, <1>3 DEF GraphInv, OrderInv, SortInv
<1>7. OutcomeInv'
  BY <1>1, <1>3 DEF GraphInv, OutcomeInv
<1>. QED
  BY <1>4, <1>5, <1>6, <1>7 DEF GraphInv

\* StartSort keeps GraphInv.
LEMMA StartSortInv == ASSUME GraphInv, StartSort PROVE GraphInv'
<1>1. /\ UNCHANGED <<dependencies, outdated, stack, done, ordered>> /\ stage = "visit"
      /\ stage' = "sort" /\ ordered = <<>>
      /\ indegree' = [p \in Packages |-> Cardinality(dependencies[p])]
      /\ ready' = {p \in Packages : dependencies[p] = {}}
  BY DEF StartSort, GraphInv, GraphTypes
<1>2. Taken = {} /\ Taken' = {}
  BY <1>1 DEF Taken
<1>3. GraphTypes' /\ PathInv'
  BY <1>1 DEF GraphInv, GraphTypes, PathInv
<1>4. OrderInv' /\ OutcomeInv'
  BY <1>1, <1>2 DEF GraphInv, OrderInv, OutcomeInv
<1>5. SortInv'
  <2>1. \A p \in Packages : dependencies[p] \ Taken = dependencies[p]
    BY <1>2
  <2>. QED
    BY <1>1, <1>2, <2>1 DEF SortInv
<1>. QED
  BY <1>3, <1>4, <1>5 DEF GraphInv

\* Packages without an order among them are finitely many, and so are those
\* one of them waits for.
LEMMA PackagesFinite ==
    /\ IsFiniteSet(Packages) /\ Cardinality(Packages) = NumPackages
    /\ \A S \in SUBSET Packages : IsFiniteSet(S) /\ Cardinality(S) \in Nat
<1>1. IsFiniteSet(Packages) /\ Cardinality(Packages) = NumPackages
  BY FS_Interval, WorkspaceAssumption DEF Packages
<1>2. ASSUME NEW S \in SUBSET Packages PROVE IsFiniteSet(S) /\ Cardinality(S) \in Nat
  <2>1. IsFiniteSet(S)
    BY <1>1, FS_Subset
  <2>. QED
    BY <2>1, FS_CardinalityType
<1>. QED
  BY <1>1, <1>2

\* The package taken waits for none, so it closes no cycle.
LEMMA TakeReadyInv == ASSUME GraphInv, TakeReady PROVE GraphInv'
<1>1. PICK name \in {Min(ready)} :
        /\ ordered' = Append(ordered, name)
        /\ indegree' = [q \in Packages |-> IF q \in Dependents(name) THEN indegree[q] - 1
                                           ELSE indegree[q]]
        /\ ready' = (ready \ {name}) \cup Freed(name)
  BY DEF TakeReady
<1>2. /\ UNCHANGED <<dependencies, outdated, stage, stack, done>> /\ stage = "sort"
      /\ dependencies \in [Packages -> SUBSET Packages] /\ ordered \in Seq(Packages)
      /\ ready = {p \in Packages \ Taken : dependencies[p] \subseteq Taken}
      /\ indegree = [p \in Packages |-> Cardinality(dependencies[p] \ Taken)]
  BY DEF TakeReady, GraphInv, GraphTypes, SortInv
<1>3. name \in Packages /\ name \notin Taken /\ dependencies[name] \subseteq Taken
  <2>1. ready # {} /\ ready \in SUBSET Nat
    BY <1>2, WorkspaceAssumption DEF TakeReady, Packages
  <2>2. name \in ready
    BY <1>1, <2>1, MinIsLeast
  <2>. QED
    BY <1>2, <2>2
<1>4. /\ ordered' \in Seq(Packages) /\ Len(ordered') = Len(ordered) + 1 /\ Len(ordered) \in Nat
      /\ \A i \in 1 .. Len(ordered) : ordered'[i] = ordered[i]
      /\ ordered'[Len(ordered) + 1] = name
      /\ DOMAIN ordered = 1 .. Len(ordered) /\ DOMAIN ordered' = 1 .. Len(ordered) + 1
  BY <1>1, <1>2, <1>3
<1>5. Taken' = Taken \cup {name} /\ Taken \subseteq Packages
  BY <1>2, <1>4 DEF Taken
<1>6. GraphTypes' /\ PathInv'
  BY <1>2, <1>4 DEF GraphInv, GraphTypes, PathInv
<1>7. OrderInv'
  <2>1. ASSUME NEW i \in DOMAIN ordered', NEW q \in dependencies[ordered'[i]]
        PROVE  \E j \in 1 .. i - 1 : ordered'[j] = q
    <3>1. CASE i \in 1 .. Len(ordered)
      <4>1. PICK j \in 1 .. i - 1 : ordered[j] = q
        BY <1>4, <2>1, <3>1 DEF GraphInv, OrderInv
      <4>. QED
        BY <1>4, <3>1, <4>1
    <3>2. CASE i = Len(ordered) + 1
      <4>1. q \in Taken
        BY <1>3, <1>4, <2>1, <3>2
      <4>2. PICK j \in 1 .. Len(ordered) : ordered[j] = q
        BY <1>4, <4>1 DEF Taken
      <4>. QED
        BY <1>4, <3>2, <4>2
    <3>. QED
      BY <1>4, <3>1, <3>2
  <2>2. ASSUME NEW i \in DOMAIN ordered', NEW j \in DOMAIN ordered', ordered'[i] = ordered'[j]
        PROVE  i = j
    <3>1. \A k \in 1 .. Len(ordered) : ordered'[k] \in Taken /\ ordered'[k] # name
      BY <1>3, <1>4 DEF Taken
    <3>2. CASE i \in 1 .. Len(ordered) /\ j \in 1 .. Len(ordered)
      BY <1>4, <2>2, <3>2 DEF GraphInv, OrderInv
    <3>3. CASE i = Len(ordered) + 1 \/ j = Len(ordered) + 1
      BY <1>4, <2>2, <3>1, <3>3
    <3>. QED
      BY <1>4, <3>2, <3>3
  <2>3. ASSUME NEW S \in (SUBSET (Taken \cup {name})) \ {{}}
        PROVE  \E p \in S : dependencies[p] \cap S = {}
    <3>1. \A p \in Taken : dependencies[p] \subseteq Taken
      <4>1. ASSUME NEW p \in Taken, NEW q \in dependencies[p] PROVE q \in Taken
        <5>1. PICK i \in 1 .. Len(ordered) : ordered[i] = p
          BY <1>4 DEF Taken
        <5>2. PICK j \in 1 .. i - 1 : ordered[j] = q
          BY <1>4, <4>1, <5>1 DEF GraphInv, OrderInv
        <5>. QED
          BY <1>4, <5>1, <5>2 DEF Taken
      <4>. QED
        BY <4>1
    <3>2. CASE S \ {name} = {}
      <4>1. S = {name}
        BY <2>3, <3>2
      <4>. QED
        BY <1>3, <4>1
    <3>3. CASE S \ {name} # {}
      <4>1. S \ {name} \in (SUBSET Taken) \ {{}}
        BY <2>3, <3>3
      <4>2. PICK p \in S \ {name} : dependencies[p] \cap (S \ {name}) = {}
        BY <4>1 DEF GraphInv, OrderInv
      <4>3. dependencies[p] \subseteq Taken
        BY <3>1, <4>1, <4>2
      <4>. QED
        BY <1>3, <4>2, <4>3
    <3>. QED
      BY <3>2, <3>3
  <2>. QED
    BY <1>2, <1>5, <2>1, <2>2, <2>3 DEF OrderInv
<1>8. SortInv'
  <2>. DEFINE waits(q) == dependencies[q] \ Taken
  <2>1. ASSUME NEW q \in Packages
        PROVE  /\ IsFiniteSet(waits(q))
               /\ waits(q) \ {name} = dependencies[q] \ (Taken \cup {name})
               /\ q \in Dependents(name) <=> name \in waits(q)
    BY <1>2, <1>3, PackagesFinite DEF Dependents
  <2>2. ASSUME NEW q \in Packages
        PROVE  Cardinality(waits(q) \ {name}) =
                  IF name \in waits(q) THEN Cardinality(waits(q)) - 1 ELSE Cardinality(waits(q))
    BY <2>1, FS_RemoveElement
  <2>3. indegree' = [q \in Packages |-> Cardinality(dependencies[q] \ (Taken \cup {name}))]
    <3>1. \A q \in Packages :
             (IF q \in Dependents(name) THEN indegree[q] - 1 ELSE indegree[q]) =
             Cardinality(dependencies[q] \ (Taken \cup {name}))
      BY <1>2, <2>1, <2>2
    <3>. QED
      BY <1>1, <3>1
  <2>4. ASSUME NEW q \in Packages
        PROVE  q \in ready' <=> q \notin Taken \cup {name} /\ dependencies[q] \subseteq Taken \cup {name}
    <3>1. q \in Freed(name) <=> name \in waits(q) /\ Cardinality(waits(q)) = 1
      BY <1>2, <2>1 DEF Freed, Dependents
    <3>2. name \in waits(q) => (Cardinality(waits(q)) = 1 <=> waits(q) \ {name} = {})
      <4>1. Cardinality(waits(q) \ {name}) = 0 <=> waits(q) \ {name} = {}
        BY <2>1, FS_RemoveElement, FS_EmptySet
      <4>2. Cardinality(waits(q)) \in Nat
        BY <2>1, FS_CardinalityType
      <4>. QED
        BY <2>2, <4>1, <4>2
    <3>3. q \in Taken => waits(q) = {}
      <4>1. ASSUME q \in Taken, NEW r \in dependencies[q] PROVE r \in Taken
        <5>1. PICK i \in 1 .. Len(ordered) : ordered[i] = q
          BY <1>4, <4>1 DEF Taken
        <5>2. PICK j \in 1 .. i - 1 : ordered[j] = r
          BY <1>4, <4>1, <5>1 DEF GraphInv, OrderInv
        <5>. QED
          BY <1>4, <5>1, <5>2 DEF Taken
      <4>. QED
        BY <4>1
    <3>4. q \in ready <=> q \notin Taken /\ waits(q) = {}
      BY <1>2
    <3>5. waits(name) = {}
      BY <1>3
    <3>6. q \in ready' <=> (q \in ready /\ q # name) \/ q \in Freed(name)
      BY <1>1
    <3>7. dependencies[q] \subseteq Taken \cup {name} <=> waits(q) \ {name} = {}
      OBVIOUS
    <3>. HIDE DEF waits
    <3>. QED
      BY <3>1, <3>2, <3>3, <3>4, <3>5, <3>6, <3>7
  <2>5. ready' \subseteq Packages
    BY <1>1, <1>2 DEF Freed, Dependents
  <2>6. ready' = {p \in Packages \ (Taken \cup {name}) : dependencies[p] \subseteq Taken \cup {name}}
    BY <2>4, <2>5
  <2>. QED
    BY <1>2, <1>5, <2>3, <2>6 DEF SortInv
<1>9. OutcomeInv'
  BY <1>2 DEF GraphInv, OutcomeInv
<1>. QED
  BY <1>6, <1>7, <1>8, <1>9 DEF GraphInv

\* SortEnds keeps GraphInv.
LEMMA SortEndsInv == ASSUME GraphInv, SortEnds PROVE GraphInv'
<1>1. /\ UNCHANGED <<dependencies, outdated, stack, done, ordered>> /\ stage = "sort"
      /\ ready = {} /\ stage' = IF Len(ordered) = NumPackages THEN "sorted" ELSE "rejected"
      /\ ready = {p \in Packages \ Taken : dependencies[p] \subseteq Taken}
      /\ ordered \in Seq(Packages) /\ dependencies \in [Packages -> SUBSET Packages]
      /\ outdated = {}
  BY DEF SortEnds, GraphInv, GraphTypes, SortInv, OutcomeInv
<1>2. Taken \subseteq Packages /\ IsFiniteSet(Taken) /\ Cardinality(Taken) = Len(ordered)
  <2>1. Taken \subseteq Packages /\ DOMAIN ordered = 1 .. Len(ordered) /\ Len(ordered) \in Nat
    BY <1>1 DEF Taken
  <2>2. ordered \in Bijection(1 .. Len(ordered), Taken)
    <3>1. ordered \in [1 .. Len(ordered) -> Taken]
      BY <1>1, <2>1 DEF Taken
    <3>2. \A i, j \in 1 .. Len(ordered) : ordered[i] = ordered[j] => i = j
      BY <2>1 DEF GraphInv, OrderInv
    <3>3. \A p \in Taken : \E i \in 1 .. Len(ordered) : ordered[i] = p
      BY <2>1 DEF Taken
    <3>. QED
      BY <3>1, <3>2, <3>3 DEF Bijection, Injection, Surjection, IsInjective
  <2>3. IsFiniteSet(1 .. Len(ordered)) /\ Cardinality(1 .. Len(ordered)) = Len(ordered)
    <3>. DEFINE n == Len(ordered)
    <3>1. n \in Nat
      BY <2>1
    <3>. HIDE DEF n
    <3>2. IsFiniteSet(1 .. n) /\ Cardinality(1 .. n) = IF 1 > n THEN 0 ELSE n - 1 + 1
      BY <3>1, FS_Interval
    <3>3. IsFiniteSet(1 .. n) /\ Cardinality(1 .. n) = n
      BY <3>1, <3>2
    <3>. QED
      BY <3>3 DEF n
  <2>4. ExistsBijection(1 .. Len(ordered), Taken)
    BY <2>2 DEF ExistsBijection
  <2>. QED
    BY <2>1, <2>3, <2>4, FS_Bijection
<1>3. CASE Taken = Packages
  <2>1. stage' = "sorted"
    BY <1>1, <1>2, <1>3, PackagesFinite
  <2>. QED
    BY <1>1, <1>3, <2>1, GraphKept
<1>4. CASE Taken # Packages
  <2>1. Len(ordered) # NumPackages
    BY <1>2, <1>4, PackagesFinite, FS_Subset
  <2>. DEFINE S == Packages \ Taken
  <2>2. S \in (SUBSET Packages) \ {{}}
    BY <1>2, <1>4
  <2>3. \A p \in S : dependencies[p] \cap S # {}
    BY <1>1
  <2>4. ~Acyclic
    BY <2>2, <2>3 DEF Acyclic
  <2>. QED
    BY <1>1, <2>1, <2>4, GraphKept
<1>. QED
  BY <1>3, <1>4

\* Every step keeps GraphInv.
LEMMA GraphNextInv == ASSUME GraphInv, GraphNext PROVE GraphInv'
BY BuildGraphInv, VisitInv, VisitEndsInv, StartSortInv, TakeReadyInv, SortEndsInv DEF GraphNext

\* A graph that was ordered has no cycle and no stale range.
LEMMA SortedIsAcyclic ==
    ASSUME GraphInv, stage \in {"sorted", "running", "passed", "failed"}
    PROVE  Acyclic /\ outdated = {}
BY DEF GraphInv, OrderInv, OutcomeInv, Acyclic

-----------------------------------------------------------------------------
(* AffectedValidation: what a plan selects                                  *)

ReachStep(g, seeds, edges, n) ==
    IF n = 0 THEN seeds ELSE g[n - 1] \cup UNION {edges[p] : p \in g[n - 1]}
IsReach(g, seeds, edges, k) == g = [n \in 0 .. k |-> ReachStep(g, seeds, edges, n)]

\* The stages of a closure exist, up to any of them.
LEMMA ReachExists ==
    ASSUME NEW seeds, NEW edges, NEW k \in Nat
    PROVE  \E g : IsReach(g, seeds, edges, k)
<1>. DEFINE Has(m) == \E g : IsReach(g, seeds, edges, m)
            Lacking == {m \in Nat : ~Has(m)}
<1>1. SUFFICES ASSUME Lacking # {} PROVE FALSE
  OBVIOUS
<1>2. PICK m \in Lacking : \A y \in Lacking : m <= y
  <2>. HIDE DEF Has
  <2>. QED
    BY <1>1, LeastNumber
<1>3. CASE m = 0
  <2>. DEFINE g == [n \in 0 .. 0 |-> seeds]
  <2>1. IsReach(g, seeds, edges, 0)
    BY DEF IsReach, ReachStep
  <2>. QED
    BY <1>2, <1>3, <2>1
<1>4. CASE m # 0
  <2>1. m - 1 \in Nat /\ m - 1 \notin Lacking
    BY <1>2, <1>4
  <2>2. PICK h : IsReach(h, seeds, edges, m - 1)
    BY <2>1
  <2>. DEFINE g == [n \in 0 .. m |-> IF n = m THEN ReachStep(h, seeds, edges, m) ELSE h[n]]
  <2>3. ASSUME NEW n \in 0 .. m PROVE g[n] = ReachStep(g, seeds, edges, n)
    <3>1. n # 0 => n - 1 \in 0 .. m - 1 /\ g[n - 1] = h[n - 1]
      BY <1>2
    <3>2. n # m => h[n] = ReachStep(h, seeds, edges, n)
      <4>1. n # m => n \in 0 .. m - 1
        BY <2>1
      <4>. HIDE DEF g
      <4>. QED
        BY <2>2, <4>1 DEF IsReach
    <3>3. g[n] = IF n = m THEN ReachStep(h, seeds, edges, m) ELSE h[n]
      OBVIOUS
    <3>. HIDE DEF g
    <3>4. ReachStep(g, seeds, edges, n) = ReachStep(h, seeds, edges, n)
      BY <3>1 DEF ReachStep
    <3>. QED
      BY <3>2, <3>3, <3>4
  <2>4. IsReach(g, seeds, edges, m)
    <3>1. g = [n \in 0 .. m |-> g[n]]
      OBVIOUS
    <3>. HIDE DEF g
    <3>. QED
      BY <2>3, <3>1 DEF IsReach
  <2>. HIDE DEF g
  <2>5. Has(m)
    BY <2>4
  <2>. QED
    BY <1>2, <2>5
<1>. QED
  BY <1>3, <1>4

\* transitiveClosure() returns the least set with the seeds that the edges do not leave:
\* each stage but the last adds a package or is closed already.
LEMMA ClosureIsClosed ==
    ASSUME NEW seeds \in SUBSET Packages, NEW edges \in [Packages -> SUBSET Packages]
    PROVE  /\ seeds \subseteq Closure(seeds, edges) /\ Closure(seeds, edges) \subseteq Packages
           /\ \A p \in Closure(seeds, edges) : edges[p] \subseteq Closure(seeds, edges)
           /\ seeds = {} => Closure(seeds, edges) = {}
<1>1. PICK reach : /\ reach = [n \in 0 .. NumPackages |-> ReachStep(reach, seeds, edges, n)]
                   /\ Closure(seeds, edges) = reach[NumPackages]
  <2>. DEFINE r == CHOOSE h : h = [n \in 0 .. NumPackages |->
                  IF n = 0 THEN seeds ELSE h[n - 1] \cup UNION {edges[p] : p \in h[n - 1]}]
  <2>1. Closure(seeds, edges) = r[NumPackages]
    BY DEF Closure
  <2>2. r = [n \in 0 .. NumPackages |->
                IF n = 0 THEN seeds ELSE r[n - 1] \cup UNION {edges[p] : p \in r[n - 1]}]
    <3>1. \E h : IsReach(h, seeds, edges, NumPackages)
      BY ReachExists, WorkspaceAssumption
    <3>2. \E h : h = [n \in 0 .. NumPackages |->
              IF n = 0 THEN seeds ELSE h[n - 1] \cup UNION {edges[p] : p \in h[n - 1]}]
      BY <3>1 DEF IsReach, ReachStep
    <3>. QED
      BY <3>2
  <2>. HIDE DEF r
  <2>. QED
    BY <2>1, <2>2 DEF ReachStep
<1>2. /\ reach[0] = seeds
      /\ \A n \in 0 .. NumPackages : n # 0 =>
            reach[n] = reach[n - 1] \cup UNION {edges[p] : p \in reach[n - 1]}
  <2>1. \A n \in 0 .. NumPackages : reach[n] = ReachStep(reach, seeds, edges, n)
    BY <1>1
  <2>2. 0 \in 0 .. NumPackages
    BY WorkspaceAssumption
  <2>. QED
    BY <2>1, <2>2 DEF ReachStep
<1>. DEFINE Closed(n) == \A p \in reach[n] : edges[p] \subseteq reach[n]
            Good(n) == /\ seeds \subseteq reach[n] /\ reach[n] \subseteq Packages
                       /\ (seeds = {} => reach[n] = {})
                       /\ Closed(n) \/ Cardinality(reach[n]) > n
            Bad == {n \in 0 .. NumPackages : ~Good(n)}
<1>3. Good(0)
  <2>1. CASE seeds = {}
    BY <1>2, <2>1
  <2>2. CASE seeds # {}
    <3>1. IsFiniteSet(seeds) /\ Cardinality(seeds) \in Nat /\ Cardinality(seeds) # 0
      BY <2>2, PackagesFinite, FS_EmptySet
    <3>. QED
      BY <1>2, <3>1
  <2>. QED
    BY <2>1, <2>2
<1>4. ASSUME NEW n \in 1 .. NumPackages, Good(n - 1) PROVE Good(n)
  <2>1. /\ n \in Nat /\ n - 1 \in 0 .. NumPackages /\ n \in 0 .. NumPackages
        /\ reach[n] = reach[n - 1] \cup UNION {edges[p] : p \in reach[n - 1]}
    BY <1>2, WorkspaceAssumption
  <2>2. /\ seeds \subseteq reach[n] /\ reach[n] \subseteq Packages
        /\ seeds = {} => reach[n] = {}
    BY <1>4, <2>1
  <2>3. CASE Closed(n - 1)
    <3>1. reach[n] = reach[n - 1]
      BY <2>1, <2>3
    <3>. QED
      BY <2>2, <2>3, <3>1
  <2>4. CASE ~Closed(n - 1)
    <3>0. PICK p \in reach[n - 1] : ~(edges[p] \subseteq reach[n - 1])
      BY <2>4
    <3>1. PICK x \in edges[p] : x \notin reach[n - 1]
      BY <3>0
    <3>2. /\ (reach[n - 1] \cup {x}) \subseteq reach[n] /\ reach[n - 1] \subseteq Packages
          /\ x \in Packages
      BY <1>4, <2>1, <3>1
    <3>3. IsFiniteSet(reach[n - 1]) /\ IsFiniteSet(reach[n])
          /\ Cardinality(reach[n - 1]) \in Nat /\ Cardinality(reach[n]) \in Nat
      BY <2>2, <3>2, PackagesFinite
    <3>4. Cardinality(reach[n - 1] \cup {x}) = Cardinality(reach[n - 1]) + 1
      <4>. DEFINE R == reach[n - 1]
      <4>1. IsFiniteSet(R) /\ x \notin R
        BY <3>1, <3>3
      <4>. HIDE DEF R
      <4>2. Cardinality(R \cup {x}) = Cardinality(R) + 1
        BY <4>1, FS_AddElement
      <4>. QED
        BY <4>2 DEF R
    <3>5. Cardinality(reach[n - 1] \cup {x}) <= Cardinality(reach[n])
      BY <3>2, <3>3, FS_Subset
    <3>6. Cardinality(reach[n - 1]) > n - 1
      BY <1>4, <2>4
    <3>. QED
      BY <2>1, <2>2, <3>3, <3>4, <3>5, <3>6
  <2>. QED
    BY <2>3, <2>4
<1>5. Good(NumPackages)
  <2>. HIDE DEF Good
  <2>1. SUFFICES ASSUME Bad # {} PROVE FALSE
    BY WorkspaceAssumption
  <2>2. PICK n \in Bad : \A y \in Bad : n <= y
    <3>1. Bad \in SUBSET Nat
      BY WorkspaceAssumption
    <3>. HIDE DEF Bad
    <3>. QED
      BY <2>1, <3>1, LeastNumber
  <2>3. n # 0 /\ n \in 1 .. NumPackages
    BY <1>3, <2>2
  <2>4. n - 1 \notin Bad /\ n - 1 \in 0 .. NumPackages
    <3>1. n \in Nat /\ ~(n <= n - 1) /\ n - 1 \in 0 .. NumPackages
      BY <2>3, WorkspaceAssumption
    <3>. QED
      BY <2>2, <3>1
  <2>. QED
    BY <1>4, <2>2, <2>3, <2>4
<1>6. Closed(NumPackages)
  <2>1. Cardinality(reach[NumPackages]) <= NumPackages
    BY <1>5, PackagesFinite, FS_Subset
  <2>2. Cardinality(reach[NumPackages]) \in Nat
    BY <1>5, PackagesFinite
  <2>. QED
    BY <1>5, <2>1, <2>2, WorkspaceAssumption
<1>. QED
  BY <1>1, <1>5, <1>6

\* What a closed set holds, it holds with all that its members depend on.
LEMMA ClosedUnderDependsOn ==
    ASSUME NEW S \in SUBSET Packages, \A p \in S : dependencies[p] \subseteq S,
           NEW p \in S, NEW q, DependsOn(p, q)
    PROVE  q \in S
BY DEF DependsOn

\* A set closed under dependents holds every package that depends on one of its members.
LEMMA ClosedUnderDependents ==
    ASSUME dependencies \in [Packages -> SUBSET Packages], NEW D \in SUBSET Packages,
           \A x \in D : Dependents(x) \subseteq D,
           NEW p \in Packages, NEW q \in D, DependsOn(p, q)
    PROVE  p \in D
<1>. SUFFICES ASSUME p \notin D PROVE FALSE
  OBVIOUS
<1>1. \A y \in Packages \ D : dependencies[y] \subseteq Packages \ D
  BY DEF Dependents
<1>2. Packages \ D \in SUBSET Packages /\ dependencies[p] \subseteq Packages \ D
  BY <1>1
<1>. QED
  BY <1>1, <1>2 DEF DependsOn

\* What a plan is made of, its parts named.
RuntimeOwners(files)  == Owners({f \in files : IsRuntime(f)})
BuiltOwners(files)    == Owners({f \in files : IsBuilt(f)})
UnitTestOwners(files) == Owners({f \in files : IsUnitTested(f)})
PackedOwners(files)   == Owners({f \in files : IsPacked(f)})
DependentsOf(files)   == Closure(RuntimeOwners(files), [p \in Packages |-> Dependents(p)])
Imports(files)        == IF "e2e" \in UNION {GatesOf(f) : f \in files} THEN AppImports ELSE {}
Helper(files)         == IF UnitTestOwners(files) # {} THEN {TestingPackage} ELSE {}
BuildSeeds(files)     == BuiltOwners(files) \cup PackedOwners(files) \cup Imports(files)
                             \cup Helper(files) \cup DependentsOf(files)

\* What an affected plan consists of, and the gates its parts select.
LEMMA AffectedPlanParts ==
    ASSUME NEW files
    PROVE  LET plan == AffectedPlan(files) IN
           /\ plan.global = FALSE
           /\ plan.build = Closure(BuildSeeds(files), dependencies)
           /\ plan.test = UnitTestOwners(files) \cup DependentsOf(files)
           /\ plan.pack = PackedOwners(files)
           /\ plan.build # {} => "build" \in plan.gates
           /\ plan.test # {} => "unitTests" \in plan.gates
           /\ plan.pack # {} => "packageDryRun" \in plan.gates
           /\ "e2e" \in plan.gates => "e2e" \in UNION {GatesOf(f) : f \in files}
BY DEF AffectedPlan, RuntimeOwners, BuiltOwners, UnitTestOwners, PackedOwners, DependentsOf,
       Imports, Helper, BuildSeeds

\* What the plan selects is built with what it needs, tested with the helper package, and
\* covers what the files can break.
PlanGood(plan, files) ==
    /\ plan.global \in BOOLEAN
    /\ plan.build \subseteq Packages /\ plan.test \subseteq Packages /\ plan.pack \subseteq plan.build
    /\ \A p \in plan.build : dependencies[p] \subseteq plan.build
    /\ plan.test # {} => plan.test \cup {TestingPackage} \subseteq plan.build
    /\ "e2e" \in plan.gates => AppImports \subseteq plan.build
    /\ plan.build # {} => "build" \in plan.gates
    /\ plan.test # {} => "unitTests" \in plan.gates
    /\ plan.pack # {} => "packageDryRun" \in plan.gates
    /\ \A f \in files :
          /\ IsRuntime(f) => \A p \in Packages :
                 p = f.owner \/ DependsOn(p, f.owner) => p \in plan.build \cap plan.test
          /\ IsUnitTested(f) => f.owner \in plan.build \cap plan.test
          /\ IsPacked(f) => f.owner \in plan.pack
          /\ IsRoot(f, "globalBuild") => plan.build \cap plan.test \cap plan.pack = Packages

\* The complete plan misses nothing.
LEMMA CompletePlanGood ==
    ASSUME dependencies \in [Packages -> SUBSET Packages], NEW files \in ChangeSets
    PROVE  PlanGood(CompletePlan, files)
<1>1. /\ CompletePlan.global = TRUE /\ CompletePlan.build = Packages
      /\ CompletePlan.test = Packages /\ CompletePlan.pack = Packages
      /\ {"build", "unitTests", "packageDryRun"} \subseteq CompletePlan.gates
  BY DEF CompletePlan, AllGates
<1>2. ASSUME NEW f \in files, f.owner # 0 PROVE f.owner \in Packages
  BY <1>2, AffectedAssumption, WorkspaceAssumption DEF Packages
<1>. QED
  BY <1>1, <1>2, AffectedAssumption DEF PlanGood, IsRuntime, IsUnitTested, IsPacked

\* The plan of the affected packages misses nothing.
LEMMA AffectedPlanGood ==
    ASSUME dependencies \in [Packages -> SUBSET Packages], NEW files \in ChangeSets,
           \A f \in files : ~IsRoot(f, "globalBuild")
    PROVE  PlanGood(AffectedPlan(files), files)
<1>. DEFINE plan == AffectedPlan(files)
            D == DependentsOf(files)
            B == Closure(BuildSeeds(files), dependencies)
<1>1. /\ plan.global = FALSE /\ plan.build = B
      /\ plan.test = UnitTestOwners(files) \cup D /\ plan.pack = PackedOwners(files)
      /\ plan.build # {} => "build" \in plan.gates
      /\ plan.test # {} => "unitTests" \in plan.gates
      /\ plan.pack # {} => "packageDryRun" \in plan.gates
      /\ "e2e" \in plan.gates => "e2e" \in UNION {GatesOf(f) : f \in files}
  BY AffectedPlanParts
<1>2. ASSUME NEW f \in files, f.owner # 0 PROVE f.owner \in Packages
  BY <1>2, AffectedAssumption, WorkspaceAssumption DEF Packages
<1>3. /\ RuntimeOwners(files) \subseteq Packages /\ BuiltOwners(files) \subseteq Packages
      /\ UnitTestOwners(files) \subseteq Packages /\ PackedOwners(files) \subseteq Packages
      /\ RuntimeOwners(files) \subseteq UnitTestOwners(files)
      /\ UnitTestOwners(files) \subseteq BuiltOwners(files)
      /\ RuntimeOwners(files) \subseteq BuiltOwners(files)
  <2>1. \A f \in files :
          /\ IsRuntime(f) => IsUnitTested(f)
          /\ IsUnitTested(f) => IsBuilt(f)
          /\ IsBuilt(f) \/ IsPacked(f) => f.owner \in Packages
    BY <1>2 DEF IsRuntime, IsBuilt, IsUnitTested, IsPacked, TestKinds
  <2>. QED
    BY <2>1 DEF RuntimeOwners, BuiltOwners, UnitTestOwners, PackedOwners, Owners
<1>4. /\ RuntimeOwners(files) \subseteq D /\ D \subseteq Packages
      /\ \A p \in D : Dependents(p) \subseteq D
      /\ RuntimeOwners(files) = {} => D = {}
  <2>. DEFINE edges == [p \in Packages |-> Dependents(p)]
  <2>1. edges \in [Packages -> SUBSET Packages] /\ \A p \in Packages : edges[p] = Dependents(p)
    BY DEF Dependents
  <2>. HIDE DEF edges
  <2>2. /\ RuntimeOwners(files) \subseteq Closure(RuntimeOwners(files), edges)
        /\ Closure(RuntimeOwners(files), edges) \subseteq Packages
        /\ \A p \in Closure(RuntimeOwners(files), edges) :
              edges[p] \subseteq Closure(RuntimeOwners(files), edges)
        /\ RuntimeOwners(files) = {} => Closure(RuntimeOwners(files), edges) = {}
    BY <1>3, <2>1, ClosureIsClosed
  <2>3. D = Closure(RuntimeOwners(files), edges)
    BY DEF DependentsOf, edges
  <2>. HIDE DEF D
  <2>. QED
    BY <2>1, <2>2, <2>3
<1>5. BuildSeeds(files) \subseteq Packages
  BY <1>3, <1>4, AffectedAssumption DEF BuildSeeds, Imports, Helper
<1>6. /\ BuildSeeds(files) \subseteq B /\ B \subseteq Packages
      /\ \A p \in B : dependencies[p] \subseteq B
  BY <1>5, ClosureIsClosed
<1>7. /\ BuiltOwners(files) \cup PackedOwners(files) \cup D \subseteq B
      /\ UnitTestOwners(files) # {} => TestingPackage \in B
      /\ "e2e" \in UNION {GatesOf(f) : f \in files} => AppImports \subseteq B
  BY <1>6 DEF BuildSeeds, Imports, Helper
<1>8. ASSUME NEW f \in files
      PROVE  /\ IsRuntime(f) => f.owner \in RuntimeOwners(files)
             /\ IsUnitTested(f) => f.owner \in UnitTestOwners(files)
             /\ IsPacked(f) => f.owner \in PackedOwners(files)
  BY DEF RuntimeOwners, UnitTestOwners, PackedOwners, Owners
<1>9. ASSUME NEW f \in files, IsRuntime(f), NEW p \in Packages,
             p = f.owner \/ DependsOn(p, f.owner)
      PROVE  p \in D
  <2>1. f.owner \in D
    BY <1>4, <1>8, <1>9
  <2>. HIDE DEF D
  <2>2. CASE DependsOn(p, f.owner)
    BY <1>4, <2>1, <2>2, ClosedUnderDependents
  <2>. QED
    BY <1>9, <2>1, <2>2
<1>. HIDE DEF plan, D, B
<1>10. PlanGood(plan, files)
  <2>1. plan.test # {} => plan.test \cup {TestingPackage} \subseteq plan.build
    BY <1>1, <1>3, <1>4, <1>7
  <2>2. \A f \in files :
          /\ IsRuntime(f) => \A p \in Packages :
                 p = f.owner \/ DependsOn(p, f.owner) => p \in plan.build \cap plan.test
          /\ IsUnitTested(f) => f.owner \in plan.build \cap plan.test
          /\ IsPacked(f) => f.owner \in plan.pack
    BY <1>1, <1>3, <1>7, <1>8, <1>9
  <2>3. /\ plan.global \in BOOLEAN
        /\ plan.build \subseteq Packages /\ plan.test \subseteq Packages
        /\ plan.pack \subseteq plan.build
        /\ \A p \in plan.build : dependencies[p] \subseteq plan.build
        /\ "e2e" \in plan.gates => AppImports \subseteq plan.build
    BY <1>1, <1>3, <1>4, <1>6, <1>7
  <2>. QED
    BY <1>1, <2>1, <2>2, <2>3 DEF PlanGood
<1>. QED
  BY <1>10 DEF plan

\* Whichever plan is made misses nothing.
LEMMA PlanIsGood ==
    ASSUME dependencies \in [Packages -> SUBSET Packages], NEW files \in ChangeSets
    PROVE  PlanGood(PlanOf(files), files)
BY CompletePlanGood, AffectedPlanGood DEF PlanOf

-----------------------------------------------------------------------------
(* AffectedValidation: the run                                              *)

\* NextIn is the next selected place, with none between.
LEMMA NextInOrder ==
    ASSUME NEW order, Len(order) \in Nat, NEW selected, NEW place \in 0 .. Len(order)
    PROVE  /\ NextIn(order, selected, place) \in place + 1 .. Len(order) + 1
           /\ NextIn(order, selected, place) <= Len(order) =>
                 order[NextIn(order, selected, place)] \in selected
           /\ \A i \in place + 1 .. NextIn(order, selected, place) - 1 : order[i] \notin selected
<1>. DEFINE places == {i \in place + 1 .. Len(order) : order[i] \in selected}
            T == places \cup {Len(order) + 1}
            next == NextIn(order, selected, place)
<1>1. T \in SUBSET Nat /\ T # {}
  OBVIOUS
<1>2. next = Min(T)
  BY DEF NextIn
<1>. HIDE DEF next
<1>3. next \in T /\ \A y \in T : next <= y
  <2>. HIDE DEF T
  <2>. QED
    BY <1>1, <1>2, MinIsLeast
<1>4. next \in place + 1 .. Len(order) + 1 /\ (next <= Len(order) => order[next] \in selected)
  BY <1>3
<1>5. ASSUME NEW i \in place + 1 .. next - 1 PROVE order[i] \notin selected
  <2>1. i \in place + 1 .. Len(order) /\ i < next
    BY <1>4
  <2>. QED
    BY <1>3, <2>1
<1>. QED
  BY <1>4, <1>5 DEF next

\* Where the gates stand that the properties are about.
BuildPlace(plan) == IF plan.global THEN 8 ELSE 7
TestPlace(plan)  == IF plan.global THEN 13 ELSE 11
E2ePlace(plan)   == IF plan.global THEN 14 ELSE 12
PackPlace(plan)  == IF plan.global THEN 16 ELSE 14

\* Where the gates with a package list stand in the order of a run.
LEMMA GatePlaces ==
    ASSUME NEW plan
    PROVE  /\ Len(Order(plan)) \in Nat /\ Len(Order(plan)) > 16
           /\ DOMAIN Order(plan) = 1 .. Len(Order(plan))
           /\ \A i \in DOMAIN Order(plan) :
                 /\ Order(plan)[i] = "build" <=> i = BuildPlace(plan)
                 /\ Order(plan)[i] = "unitTests" <=> i = TestPlace(plan)
                 /\ Order(plan)[i] = "e2e" <=> i = E2ePlace(plan)
                 /\ Order(plan)[i] = "packageDryRun" <=> i = PackPlace(plan)
<1>1. /\ Len(AffectedOrder) = 19 /\ DOMAIN AffectedOrder = 1 .. 19
      /\ \A i \in 1 .. 19 : /\ AffectedOrder[i] = "build" <=> i = 7
                            /\ AffectedOrder[i] = "unitTests" <=> i = 11
                            /\ AffectedOrder[i] = "e2e" <=> i = 12
                            /\ AffectedOrder[i] = "packageDryRun" <=> i = 14
  BY DEF AffectedOrder
<1>2. /\ Len(CompleteOrder) = 21 /\ DOMAIN CompleteOrder = 1 .. 21
      /\ \A i \in 1 .. 21 : /\ CompleteOrder[i] = "build" <=> i = 8
                            /\ CompleteOrder[i] = "unitTests" <=> i = 13
                            /\ CompleteOrder[i] = "e2e" <=> i = 14
                            /\ CompleteOrder[i] = "packageDryRun" <=> i = 16
  BY DEF CompleteOrder
<1>. DEFINE o == Order(plan)
            b == BuildPlace(plan)
            t == TestPlace(plan)
            e == E2ePlace(plan)
            k == PackPlace(plan)
<1>3. \/ o = CompleteOrder /\ b = 8 /\ t = 13 /\ e = 14 /\ k = 16
      \/ o = AffectedOrder /\ b = 7 /\ t = 11 /\ e = 12 /\ k = 14
  BY DEF Order, BuildPlace, TestPlace, E2ePlace, PackPlace
<1>. HIDE DEF o, b, t, e, k
<1>4. /\ Len(o) \in Nat /\ Len(o) > 16 /\ DOMAIN o = 1 .. Len(o)
      /\ \A i \in DOMAIN o : /\ o[i] = "build" <=> i = b
                             /\ o[i] = "unitTests" <=> i = t
                             /\ o[i] = "e2e" <=> i = e
                             /\ o[i] = "packageDryRun" <=> i = k
  <2>1. CASE o = CompleteOrder /\ b = 8 /\ t = 13 /\ e = 14 /\ k = 16
    <3>1. Len(o) = 21 /\ DOMAIN o = 1 .. 21
      BY <1>2, <2>1
    <3>2. \A i \in 1 .. 21 : /\ o[i] = "build" <=> i = b
                             /\ o[i] = "unitTests" <=> i = t
                             /\ o[i] = "e2e" <=> i = e
                             /\ o[i] = "packageDryRun" <=> i = k
      BY <1>2, <2>1
    <3>. QED
      BY <3>1, <3>2
  <2>2. CASE o = AffectedOrder /\ b = 7 /\ t = 11 /\ e = 12 /\ k = 14
    <3>1. Len(o) = 19 /\ DOMAIN o = 1 .. 19
      BY <1>1, <2>2
    <3>2. \A i \in 1 .. 19 : /\ o[i] = "build" <=> i = b
                             /\ o[i] = "unitTests" <=> i = t
                             /\ o[i] = "e2e" <=> i = e
                             /\ o[i] = "packageDryRun" <=> i = k
      BY <1>1, <2>2
    <3>. QED
      BY <3>1, <3>2
  <2>. QED
    BY <1>3, <2>1, <2>2
<1>. QED
  BY <1>4 DEF o, b, t, e, k

\* Which gate a place holds, and in what order they come.
LEMMA GateAtPlaces ==
    ASSUME NEW plan, NEW place
    PROVE  /\ GateAt(plan, place) = "build" <=> place = BuildPlace(plan)
           /\ GateAt(plan, place) = "unitTests" <=> place = TestPlace(plan)
           /\ GateAt(plan, place) = "e2e" <=> place = E2ePlace(plan)
           /\ GateAt(plan, place) = "packageDryRun" <=> place = PackPlace(plan)
           /\ BuildPlace(plan) \in DOMAIN Order(plan) /\ TestPlace(plan) \in DOMAIN Order(plan)
           /\ E2ePlace(plan) \in DOMAIN Order(plan) /\ PackPlace(plan) \in DOMAIN Order(plan)
           /\ BuildPlace(plan) < TestPlace(plan) /\ TestPlace(plan) < E2ePlace(plan)
           /\ E2ePlace(plan) < PackPlace(plan)
<1>. DEFINE o == Order(plan)
            b == BuildPlace(plan)
            t == TestPlace(plan)
            e == E2ePlace(plan)
            k == PackPlace(plan)
<1>1. /\ b \in 1 .. 16 /\ t \in 1 .. 16 /\ e \in 1 .. 16 /\ k \in 1 .. 16
      /\ b < t /\ t < e /\ e < k
  BY DEF BuildPlace, TestPlace, E2ePlace, PackPlace
<1>2. /\ Len(o) \in Nat /\ Len(o) > 16 /\ DOMAIN o = 1 .. Len(o)
      /\ \A i \in DOMAIN o : /\ o[i] = "build" <=> i = b
                             /\ o[i] = "unitTests" <=> i = t
                             /\ o[i] = "e2e" <=> i = e
                             /\ o[i] = "packageDryRun" <=> i = k
  BY GatePlaces
<1>3. GateAt(plan, place) = IF place \in DOMAIN o THEN o[place] ELSE "none"
  BY DEF GateAt
<1>. HIDE DEF o, b, t, e, k
<1>4. b \in DOMAIN o /\ t \in DOMAIN o /\ e \in DOMAIN o /\ k \in DOMAIN o
  BY <1>1, <1>2
<1>5. /\ GateAt(plan, place) = "build" <=> place = b
      /\ GateAt(plan, place) = "unitTests" <=> place = t
      /\ GateAt(plan, place) = "e2e" <=> place = e
      /\ GateAt(plan, place) = "packageDryRun" <=> place = k
  <2>1. CASE place \in DOMAIN o
    BY <1>2, <1>3, <2>1
  <2>2. CASE place \notin DOMAIN o
    BY <1>3, <1>4, <2>2
  <2>. QED
    BY <2>1, <2>2
<1>. QED
  BY <1>1, <1>4, <1>5 DEF o, b, t, e, k

\* Where the run is after it goes on, and what it went past.
LEMMA GoOnMoves ==
    ASSUME ordered \in Seq(Packages), NEW plan, NEW place \in 0 .. Len(Order(plan)),
           GoOn(plan, place)
    PROVE  /\ gate' \in place + 1 .. Len(Order(plan)) + 1
           /\ gate' <= Len(Order(plan)) => Order(plan)[gate'] \in plan.gates
           /\ \A i \in place + 1 .. gate' - 1 : Order(plan)[i] \notin plan.gates
           /\ turn' \in 1 .. Len(ordered) + 1
           /\ turn' <= Len(ordered) =>
                 ordered[turn'] \in CommandsOf(plan, GateAt(plan, gate'))
           /\ \A i \in 1 .. turn' - 1 :
                 ordered[i] \notin CommandsOf(plan, GateAt(plan, gate'))
<1>1. Len(Order(plan)) \in Nat /\ Len(ordered) \in Nat
  BY GatePlaces
<1>2. /\ gate' \in place + 1 .. Len(Order(plan)) + 1
      /\ gate' <= Len(Order(plan)) => Order(plan)[gate'] \in plan.gates
      /\ \A i \in place + 1 .. gate' - 1 : Order(plan)[i] \notin plan.gates
  <2>1. gate' = NextIn(Order(plan), plan.gates, place)
    BY DEF GoOn
  <2>. QED
    BY <1>1, <2>1, NextInOrder
<1>3. /\ turn' \in 1 .. Len(ordered) + 1
      /\ turn' <= Len(ordered) => ordered[turn'] \in CommandsOf(plan, GateAt(plan, gate'))
      /\ \A i \in 1 .. turn' - 1 : ordered[i] \notin CommandsOf(plan, GateAt(plan, gate'))
  <2>. DEFINE commands == CommandsOf(plan, GateAt(plan, gate'))
  <2>1. turn' = NextIn(ordered, commands, 0)
    BY DEF GoOn
  <2>. HIDE DEF commands
  <2>2. 0 \in 0 .. Len(ordered)
    BY <1>1
  <2>3. /\ turn' \in 0 + 1 .. Len(ordered) + 1
        /\ turn' <= Len(ordered) => ordered[turn'] \in commands
        /\ \A i \in 0 + 1 .. turn' - 1 : ordered[i] \notin commands
    BY <1>1, <2>1, <2>2, NextInOrder
  <2>4. 0 + 1 = 1
    OBVIOUS
  <2>5. /\ turn' \in 1 .. Len(ordered) + 1
        /\ turn' <= Len(ordered) => ordered[turn'] \in commands
        /\ \A i \in 1 .. turn' - 1 : ordered[i] \notin commands
    BY <2>3, <2>4
  <2>. QED
    BY <2>5 DEF commands
<1>. QED
  BY <1>2, <1>3

\* What of S is done by its gate at the place at, when the run is at place g and turn t.
DoneBy(S, at, order, g, t) ==
    IF g < at THEN {}
    ELSE IF g = at THEN {order[i] : i \in 1 .. t - 1} \cap S
    ELSE S

\* None of an order's members from one place up to another is in S, and all of Packages is.
NoneIn(S, order, from, to) == \A i \in from .. to : order[i] \notin S
TakesAll(order) == \A p \in Packages : \E i \in DOMAIN order : order[i] = p

\* Going on from a gate that is through leaves nothing of it undone.
LEMMA GoingOnKeepsDone ==
    ASSUME NEW order \in Seq(Packages), TakesAll(order),
           NEW S \in SUBSET Packages, NEW at \in Nat, NEW g \in Nat, NEW h \in Nat, g < h,
           NEW t \in Nat, NEW u \in Nat, t > Len(order),
           h = at => NoneIn(S, order, 1, u - 1),
           g < at /\ at < h => S = {}, t <= Len(order) + 1
    PROVE  DoneBy(S, at, order, h, u) = DoneBy(S, at, order, g, t)
<1>1. Len(order) \in Nat /\ DOMAIN order = 1 .. Len(order) /\ t = Len(order) + 1
  OBVIOUS
<1>2. CASE g < at
  <2>1. h = at => {order[i] : i \in 1 .. u - 1} \cap S = {}
    BY DEF NoneIn
  <2>. QED
    BY <1>2, <2>1 DEF DoneBy
<1>3. CASE g = at
  <2>1. {order[i] : i \in 1 .. t - 1} \cap S = S
    BY <1>1 DEF TakesAll
  <2>2. DoneBy(S, at, order, g, t) = S
    BY <1>3, <2>1 DEF DoneBy
  <2>3. DoneBy(S, at, order, h, u) = S
    BY <1>3 DEF DoneBy
  <2>. QED
    BY <2>2, <2>3
<1>4. CASE g > at
  BY <1>4 DEF DoneBy
<1>. QED
  BY <1>2, <1>3, <1>4

\* The member of S at place t of an order is followed by the next at u, or by none.
Follows(S, order, t, u) ==
    /\ order \in Seq(Packages) /\ t \in 1 .. Len(order) /\ u \in t + 1 .. Len(order) + 1
    /\ order[t] \in S /\ NoneIn(S, order, t + 1, u - 1)

\* One more command of the gate the run is at.
LEMMA OneMoreDone ==
    ASSUME NEW S, NEW order, NEW g \in Nat, NEW t, NEW u, Follows(S, order, t, u)
    PROVE  DoneBy(S, g, order, g, u) = DoneBy(S, g, order, g, t) \cup {order[t]}
<1>. USE DEF Follows
<1>1. Len(order) \in Nat
  OBVIOUS
<1>2. \A i \in 1 .. u - 1 : i \in 1 .. t - 1 \/ i = t \/ i \in t + 1 .. u - 1
  BY <1>1
<1>3. \A i \in 1 .. t - 1 : i \in 1 .. u - 1
  BY <1>1
<1>4. t \in 1 .. u - 1
  BY <1>1
<1>5. {order[i] : i \in 1 .. u - 1} \cap S = ({order[i] : i \in 1 .. t - 1} \cap S) \cup {order[t]}
  BY <1>2, <1>3, <1>4 DEF NoneIn
<1>. QED
  BY <1>5 DEF DoneBy

-----------------------------------------------------------------------------
(* AffectedValidation: the run does what was planned, in order              *)

Underway == stage \in {"running", "passed", "failed"}

RunTypes ==
    /\ built \in Seq(Packages)
    /\ ~Underway => built = <<>> /\ packed = {} /\ tested = {}
    /\ stage = "passed" => gate > Len(Order(selection))

BuiltInv == \A i \in DOMAIN built : dependencies[built[i]] \subseteq BuiltBefore(i)

\* The run is at a gate the plan selects, before a package that gate goes through.
PlaceInv == Underway =>
    /\ gate \in 1 .. Len(Order(selection)) + 1
    /\ gate <= Len(Order(selection)) => Order(selection)[gate] \in selection.gates
    /\ turn \in 1 .. Len(ordered) + 1
    /\ turn <= Len(ordered) =>
          ordered[turn] \in CommandsOf(selection, GateAt(selection, gate))

\* What is done is what the plan selects, as far as the run has come.
ProgressInv == Underway =>
    /\ PlanGood(selection, changes)
    /\ Built = DoneBy(selection.build, BuildPlace(selection), ordered, gate, turn)
    /\ packed = DoneBy(selection.pack, PackPlace(selection), ordered, gate, turn)
    /\ gate > TestPlace(selection) => selection.test \subseteq tested

RunInv == GraphInv /\ RunTypes /\ BuiltInv /\ PlaceInv /\ ProgressInv

\* The initial states satisfy RunInv.
LEMMA AffectedInitInv == ASSUME AffectedInit PROVE RunInv
<1>1. GraphInv /\ stage = "graph"
  BY GraphInitInv DEF AffectedInit, GraphInit
<1>. QED
  BY <1>1 DEF AffectedInit, RunInv, RunTypes, BuiltInv, PlaceInv, ProgressInv, Underway

\* GraphStep keeps RunInv.
LEMMA GraphStepInv == ASSUME RunInv, GraphStep PROVE RunInv'
<1>1. GraphInv' /\ ~Underway /\ ~Underway' /\ UNCHANGED <<built, packed, tested>>
  <2>1. ~Underway /\ ~Underway'
    BY DEF GraphStep, GraphNext, Underway, BuildGraph, Visit, VisitEnds, StartSort, TakeReady,
           SortEnds, Reject
  <2>. QED
    BY <2>1, GraphNextInv DEF GraphStep, RunInv
<1>2. built = <<>> /\ packed = {} /\ tested = {}
  BY <1>1 DEF RunInv, RunTypes
<1>3. RunTypes'
  BY <1>1, <1>2 DEF RunTypes, Underway
<1>. QED
  BY <1>1, <1>2, <1>3 DEF RunInv, BuiltInv, PlaceInv, ProgressInv

\* PlanStep keeps RunInv.
LEMMA PlanStepInv == ASSUME RunInv, Plan PROVE RunInv'
<1>1. /\ stage = "sorted" /\ stage' = "running"
      /\ UNCHANGED <<dependencies, outdated, stack, done, ordered, built, tested, packed>>
      /\ dependencies \in [Packages -> SUBSET Packages] /\ ordered \in Seq(Packages)
      /\ GoOn(selection', 0)
  BY DEF Plan, RunInv, GraphInv, GraphTypes
<1>2. PICK files \in ChangeSets : changes' = files /\ selection' = PlanOf(files)
  BY DEF Plan
<1>3. GraphInv'
  BY <1>1, GraphKept DEF RunInv, GraphInv, OutcomeInv
<1>4. built = <<>> /\ packed = {} /\ tested = {} /\ built' = <<>> /\ packed' = {} /\ tested' = {}
  BY <1>1 DEF RunInv, RunTypes, Underway
<1>5. RunTypes' /\ BuiltInv'
  BY <1>1, <1>4 DEF RunTypes, BuiltInv, Underway
<1>. DEFINE p == PlanOf(files)
<1>6. /\ PlanGood(p, files)
      /\ 0 \in 0 .. Len(Order(p)) /\ Len(Order(p)) \in Nat
  BY <1>1, PlanIsGood, GatePlaces
<1>7. /\ gate' \in 1 .. Len(Order(p)) + 1
      /\ gate' <= Len(Order(p)) => Order(p)[gate'] \in p.gates
      /\ \A i \in 1 .. gate' - 1 : Order(p)[i] \notin p.gates
      /\ turn' \in 1 .. Len(ordered) + 1
      /\ turn' <= Len(ordered) => ordered[turn'] \in CommandsOf(p, GateAt(p, gate'))
      /\ \A i \in 1 .. turn' - 1 : ordered[i] \notin CommandsOf(p, GateAt(p, gate'))
  <2>. HIDE DEF p
  <2>1. GoOn(p, 0)
    BY <1>1, <1>2 DEF p
  <2>. QED
    BY <1>1, <1>6, <2>1, GoOnMoves
<1>8. PlaceInv'
  <2>. HIDE DEF p
  <2>1. selection' = p
    BY <1>2 DEF p
  <2>. QED
    BY <1>1, <1>7, <2>1 DEF PlaceInv
<1>9. PlanGood(selection, changes)'
  BY <1>1, <1>2, <1>6 DEF PlanGood, DependsOn
<1>. DEFINE b == BuildPlace(p)
            k == PackPlace(p)
            t == TestPlace(p)
<1>10. /\ b \in DOMAIN Order(p) /\ k \in DOMAIN Order(p) /\ t \in DOMAIN Order(p)
       /\ DOMAIN Order(p) = 1 .. Len(Order(p))
       /\ Order(p)[b] = "build" /\ Order(p)[k] = "packageDryRun" /\ Order(p)[t] = "unitTests"
       /\ GateAt(p, b) = "build" /\ GateAt(p, k) = "packageDryRun"
  BY GateAtPlaces, GatePlaces
<1>11. /\ p.build # {} => "build" \in p.gates
       /\ p.test # {} => "unitTests" \in p.gates
       /\ p.pack # {} => "packageDryRun" \in p.gates
  BY <1>6 DEF PlanGood
<1>12. CommandsOf(p, "build") = p.build /\ CommandsOf(p, "packageDryRun") = p.pack
  BY DEF CommandsOf
<1>. HIDE DEF p, b, k, t
<1>13. DoneBy(p.build, b, ordered, gate', turn') = {}
  <2>1. CASE gate' < b
    BY <2>1 DEF DoneBy
  <2>2. CASE gate' = b
    <3>1. \A i \in 1 .. turn' - 1 : ordered[i] \notin p.build
      BY <1>7, <1>10, <1>12, <2>2
    <3>. QED
      BY <2>2, <3>1 DEF DoneBy
  <2>3. CASE gate' > b
    <3>1. b \in 1 .. gate' - 1
      BY <1>6, <1>7, <1>10, <2>3
    <3>2. p.build = {}
      BY <1>7, <1>10, <1>11, <3>1
    <3>. QED
      BY <3>2 DEF DoneBy
  <2>. QED
    BY <1>6, <1>7, <1>10, <2>1, <2>2, <2>3
<1>14. DoneBy(p.pack, k, ordered, gate', turn') = {}
  <2>1. CASE gate' < k
    BY <2>1 DEF DoneBy
  <2>2. CASE gate' = k
    <3>1. \A i \in 1 .. turn' - 1 : ordered[i] \notin p.pack
      BY <1>7, <1>10, <1>12, <2>2
    <3>. QED
      BY <2>2, <3>1 DEF DoneBy
  <2>3. CASE gate' > k
    <3>1. k \in 1 .. gate' - 1
      BY <1>6, <1>7, <1>10, <2>3
    <3>2. p.pack = {}
      BY <1>7, <1>10, <1>11, <3>1
    <3>. QED
      BY <3>2 DEF DoneBy
  <2>. QED
    BY <1>6, <1>7, <1>10, <2>1, <2>2, <2>3
<1>15. gate' > t => p.test = {}
  <2>1. gate' > t => t \in 1 .. gate' - 1
    BY <1>6, <1>7, <1>10
  <2>. QED
    BY <1>7, <1>10, <1>11, <2>1
<1>16. selection' = p /\ BuildPlace(p) = b /\ PackPlace(p) = k /\ TestPlace(p) = t
  BY <1>2 DEF p, b, k, t
<1>17. Built' = {}
  BY <1>4 DEF Built, BuiltBefore
<1>18. ProgressInv'
  BY <1>1, <1>4, <1>9, <1>13, <1>14, <1>15, <1>16, <1>17 DEF ProgressInv
<1>. QED
  BY <1>3, <1>5, <1>8, <1>18 DEF RunInv

\* What the steps of the run start from.
LEMMA RunFacts ==
    ASSUME RunInv, stage = "running"
    PROVE  /\ Underway /\ GraphInv /\ Taken = Packages
           /\ dependencies \in [Packages -> SUBSET Packages]
           /\ ordered \in Seq(Packages) /\ built \in Seq(Packages)
           /\ gate \in 1 .. Len(Order(selection)) + 1 /\ Len(Order(selection)) \in Nat
           /\ turn \in 1 .. Len(ordered) + 1 /\ Len(ordered) \in Nat
           /\ PlanGood(selection, changes)
BY GatePlaces DEF RunInv, GraphInv, GraphTypes, OutcomeInv, RunTypes, PlaceInv, ProgressInv, Underway

\* The steps of the run leave the graph and the plan alone.
LEMMA PlanKept ==
    ASSUME RunInv, stage = "running", Untouched, stage' \in {"running", "passed", "failed"}
    PROVE  /\ GraphInv' /\ Underway' /\ PlanGood(selection, changes)'
           /\ selection' = selection /\ ordered' = ordered /\ dependencies' = dependencies
<1>1. UNCHANGED <<dependencies, outdated, stack, done, ordered, changes, selection>>
  BY DEF Untouched
<1>2. GraphInv'
  BY <1>1, RunFacts, GraphKept DEF GraphInv, OutcomeInv
<1>3. PlanGood(selection, changes)'
  BY <1>1, RunFacts DEF PlanGood, DependsOn
<1>. QED
  BY <1>1, <1>2, <1>3 DEF Underway

\* BuildPackage keeps RunInv.
LEMMA BuildPackageInv == ASSUME RunInv, BuildPackage PROVE RunInv'
<1>1. /\ stage = "running" /\ GateAt(selection, gate) = "build" /\ turn <= Len(ordered)
      /\ built' = Append(built, ordered[turn])
      /\ turn' = NextIn(ordered, selection.build, turn)
      /\ UNCHANGED <<stage, gate, tested, packed>> /\ Untouched
  BY RunFacts DEF BuildPackage, AtGate, AllRun
<1>2. /\ ordered \in Seq(Packages) /\ built \in Seq(Packages) /\ Taken = Packages
      /\ turn \in 1 .. Len(ordered) /\ Len(ordered) \in Nat /\ DOMAIN ordered = 1 .. Len(ordered)
      /\ gate \in Nat /\ dependencies \in [Packages -> SUBSET Packages]
  BY <1>1, RunFacts
<1>3. /\ GraphInv' /\ Underway' /\ PlanGood(selection, changes)'
      /\ selection' = selection /\ ordered' = ordered /\ dependencies' = dependencies
  BY <1>1, PlanKept
<1>4. gate = BuildPlace(selection) /\ gate < PackPlace(selection) /\ gate < TestPlace(selection)
  BY <1>1, GateAtPlaces, <1>2 DEF BuildPlace, PackPlace, TestPlace
<1>5. CommandsOf(selection, GateAt(selection, gate)) = selection.build
  BY <1>1 DEF CommandsOf
<1>6. ordered[turn] \in selection.build /\ ordered[turn] \in Packages
  BY <1>1, <1>2, <1>5, RunFacts DEF RunInv, PlaceInv
<1>7. /\ turn' \in turn + 1 .. Len(ordered) + 1
      /\ turn' <= Len(ordered) => ordered[turn'] \in selection.build
      /\ \A i \in turn + 1 .. turn' - 1 : ordered[i] \notin selection.build
  <2>1. turn \in 0 .. Len(ordered)
    BY <1>2
  <2>. QED
    BY <1>1, <1>2, <2>1, NextInOrder
<1>8. PlaceInv'
  <2>1. turn' \in 1 .. Len(ordered) + 1
    BY <1>2, <1>7
  <2>. QED
    BY <1>1, <1>3, <1>5, <1>7, <2>1, RunFacts DEF RunInv, PlaceInv
<1>9. /\ built' \in Seq(Packages) /\ Len(built') = Len(built) + 1 /\ Len(built) \in Nat
      /\ \A i \in 1 .. Len(built) : built'[i] = built[i]
      /\ built'[Len(built) + 1] = ordered[turn]
  BY <1>1, <1>2, <1>6
<1>10. RunTypes'
  BY <1>1, <1>3, <1>9 DEF RunTypes, Underway
<1>11. \A i \in 1 .. Len(built) + 1 : BuiltBefore(i)' = BuiltBefore(i)
  BY <1>9 DEF BuiltBefore
<1>12. Built = {ordered[i] : i \in 1 .. turn - 1} \cap selection.build
  <2>1. Built = DoneBy(selection.build, gate, ordered, gate, turn)
    BY <1>1, <1>4, RunFacts DEF RunInv, ProgressInv
  <2>. QED
    BY <1>2, <2>1 DEF DoneBy
<1>13. dependencies[ordered[turn]] \subseteq Built
  <2>1. dependencies[ordered[turn]] \subseteq selection.build
    BY <1>1, <1>6, RunFacts DEF PlanGood
  <2>2. \A q \in dependencies[ordered[turn]] : \E j \in 1 .. turn - 1 : ordered[j] = q
    BY <1>1, <1>2, RunFacts DEF GraphInv, OrderInv
  <2>. QED
    BY <1>12, <2>1, <2>2
<1>14. BuiltInv'
  <2>1. \A i \in 1 .. Len(built) : dependencies[built[i]] \subseteq BuiltBefore(i)
    BY <1>2 DEF RunInv, BuiltInv
  <2>2. DOMAIN built' = 1 .. Len(built) + 1
    BY <1>9
  <2>3. ASSUME NEW i \in 1 .. Len(built) + 1
        PROVE  dependencies[built'[i]] \subseteq BuiltBefore(i)
    <3>1. CASE i = Len(built) + 1
      BY <1>9, <1>13, <3>1 DEF Built
    <3>2. CASE i \in 1 .. Len(built)
      BY <1>9, <2>1, <3>2
    <3>. QED
      BY <1>9, <3>1, <3>2
  <2>. QED
    BY <1>3, <1>11, <2>2, <2>3 DEF BuiltInv
<1>15. Built' = Built \cup {ordered[turn]}
  <2>1. Built' = {built'[j] : j \in 1 .. Len(built) + 1}
    BY <1>9 DEF Built, BuiltBefore
  <2>2. Built = {built[j] : j \in 1 .. Len(built)}
    BY <1>9 DEF Built, BuiltBefore
  <2>. QED
    BY <1>9, <2>1, <2>2
<1>16. ProgressInv'
  <2>1. Built' = DoneBy(selection.build, gate, ordered, gate, turn')
    <3>1. Built = DoneBy(selection.build, gate, ordered, gate, turn)
      BY <1>1, <1>4, RunFacts DEF RunInv, ProgressInv
    <3>2. DoneBy(selection.build, gate, ordered, gate, turn')
              = DoneBy(selection.build, gate, ordered, gate, turn) \cup {ordered[turn]}
      <4>1. NoneIn(selection.build, ordered, turn + 1, turn' - 1)
        BY <1>7 DEF NoneIn
      <4>2. Follows(selection.build, ordered, turn, turn')
        BY <1>2, <1>6, <1>7, <4>1 DEF Follows
      <4>3. gate \in Nat
        BY <1>2
      <4>. QED
        BY <4>2, <4>3, OneMoreDone
    <3>. QED
      BY <1>15, <3>1, <3>2
  <2>2. packed' = DoneBy(selection.pack, PackPlace(selection), ordered, gate, turn')
    BY <1>1, <1>4, RunFacts DEF RunInv, ProgressInv, DoneBy
  <2>3. ~(gate > TestPlace(selection))
    BY <1>2, <1>4 DEF TestPlace
  <2>. QED
    BY <1>1, <1>3, <1>4, <2>1, <2>2, <2>3 DEF ProgressInv
<1>. QED
  BY <1>3, <1>8, <1>10, <1>14, <1>16 DEF RunInv

\* PackPackage keeps RunInv.
LEMMA PackPackageInv == ASSUME RunInv, PackPackage PROVE RunInv'
<1>1. /\ stage = "running" /\ GateAt(selection, gate) = "packageDryRun" /\ turn <= Len(ordered)
      /\ packed' = packed \cup {ordered[turn]}
      /\ turn' = NextIn(ordered, selection.pack, turn)
      /\ UNCHANGED <<stage, gate, built, tested>> /\ Untouched
  BY RunFacts DEF PackPackage, AtGate, AllRun
<1>2. /\ ordered \in Seq(Packages) /\ built \in Seq(Packages)
      /\ turn \in 1 .. Len(ordered) /\ Len(ordered) \in Nat /\ DOMAIN ordered = 1 .. Len(ordered)
      /\ gate \in Nat
  BY <1>1, RunFacts
<1>3. /\ GraphInv' /\ Underway' /\ PlanGood(selection, changes)'
      /\ selection' = selection /\ ordered' = ordered /\ dependencies' = dependencies
  BY <1>1, PlanKept
<1>4. gate = PackPlace(selection) /\ gate > BuildPlace(selection)
  BY <1>1, GateAtPlaces, <1>2 DEF BuildPlace, PackPlace, TestPlace
<1>5. CommandsOf(selection, GateAt(selection, gate)) = selection.pack
  BY <1>1 DEF CommandsOf
<1>6. ordered[turn] \in selection.pack
  BY <1>1, <1>2, <1>5, RunFacts DEF RunInv, PlaceInv
<1>7. /\ turn' \in turn + 1 .. Len(ordered) + 1
      /\ turn' <= Len(ordered) => ordered[turn'] \in selection.pack
      /\ \A i \in turn + 1 .. turn' - 1 : ordered[i] \notin selection.pack
  <2>1. turn \in 0 .. Len(ordered)
    BY <1>2
  <2>. QED
    BY <1>1, <1>2, <2>1, NextInOrder
<1>8. PlaceInv'
  <2>1. turn' \in 1 .. Len(ordered) + 1
    BY <1>2, <1>7
  <2>. QED
    BY <1>1, <1>3, <1>5, <1>7, <2>1, RunFacts DEF RunInv, PlaceInv
<1>9. Built' = Built /\ \A i : BuiltBefore(i)' = BuiltBefore(i)
  BY <1>1 DEF Built, BuiltBefore
<1>10. RunTypes' /\ BuiltInv'
  <2>1. RunTypes'
    BY <1>1, <1>2, <1>3 DEF RunTypes
  <2>2. BuiltInv'
    BY <1>1, <1>3, <1>9 DEF RunInv, BuiltInv
  <2>. QED
    BY <2>1, <2>2
<1>11. ProgressInv'
  <2>1. packed' = DoneBy(selection.pack, gate, ordered, gate, turn')
    <3>1. packed = DoneBy(selection.pack, gate, ordered, gate, turn)
      BY <1>1, <1>4, RunFacts DEF RunInv, ProgressInv
    <3>2. DoneBy(selection.pack, gate, ordered, gate, turn')
              = DoneBy(selection.pack, gate, ordered, gate, turn) \cup {ordered[turn]}
      <4>1. NoneIn(selection.pack, ordered, turn + 1, turn' - 1)
        BY <1>7 DEF NoneIn
      <4>2. Follows(selection.pack, ordered, turn, turn')
        BY <1>2, <1>6, <1>7, <4>1 DEF Follows
      <4>3. gate \in Nat
        BY <1>2
      <4>. QED
        BY <4>2, <4>3, OneMoreDone
    <3>. QED
      BY <1>1, <3>1, <3>2
  <2>2. Built' = DoneBy(selection.build, BuildPlace(selection), ordered, gate, turn')
    <3>1. Built = DoneBy(selection.build, BuildPlace(selection), ordered, gate, turn)
      BY <1>1, RunFacts DEF RunInv, ProgressInv
    <3>2. ~(gate < BuildPlace(selection)) /\ gate # BuildPlace(selection)
      BY <1>2, <1>4 DEF BuildPlace
    <3>. QED
      BY <1>9, <3>1, <3>2 DEF DoneBy
  <2>3. gate > TestPlace(selection) => selection.test \subseteq tested
    BY <1>1, RunFacts DEF RunInv, ProgressInv
  <2>. QED
    BY <1>1, <1>3, <1>4, <2>1, <2>2, <2>3 DEF ProgressInv
<1>. QED
  BY <1>3, <1>8, <1>10, <1>11 DEF RunInv

\* GatePasses keeps RunInv.
LEMMA GatePassesInv == ASSUME RunInv, GatePasses PROVE RunInv'
<1>1. /\ stage = "running" /\ gate <= Len(Order(selection)) /\ turn > Len(ordered)
      /\ tested' = IF GateAt(selection, gate) # "unitTests" THEN tested
                   ELSE IF "fullUnitTests" \in selection.gates THEN Packages ELSE selection.test
      /\ GoOn(selection, gate)
      /\ UNCHANGED <<stage, built, packed>> /\ Untouched
  BY DEF GatePasses, AtGate, AllRun
<1>2. /\ ordered \in Seq(Packages) /\ built \in Seq(Packages) /\ Taken = Packages
      /\ turn \in 1 .. Len(ordered) + 1 /\ Len(ordered) \in Nat
      /\ gate \in 1 .. Len(Order(selection)) /\ Len(Order(selection)) \in Nat
  BY <1>1, RunFacts
<1>3. /\ GraphInv' /\ Underway' /\ PlanGood(selection, changes)'
      /\ selection' = selection /\ ordered' = ordered /\ dependencies' = dependencies
  BY <1>1, PlanKept
<1>4. /\ gate' \in gate + 1 .. Len(Order(selection)) + 1
      /\ gate' <= Len(Order(selection)) => Order(selection)[gate'] \in selection.gates
      /\ \A i \in gate + 1 .. gate' - 1 : Order(selection)[i] \notin selection.gates
      /\ turn' \in 1 .. Len(ordered) + 1
      /\ turn' <= Len(ordered) => ordered[turn'] \in CommandsOf(selection, GateAt(selection, gate'))
      /\ \A i \in 1 .. turn' - 1 : ordered[i] \notin CommandsOf(selection, GateAt(selection, gate'))
  <2>1. gate \in 0 .. Len(Order(selection))
    BY <1>2
  <2>. QED
    BY <1>1, <1>2, <2>1, GoOnMoves
<1>5. PlaceInv'
  <2>1. gate' \in 1 .. Len(Order(selection)) + 1
    BY <1>2, <1>4
  <2>. QED
    BY <1>3, <1>4, <2>1 DEF PlaceInv
<1>6. Built' = Built /\ \A i : BuiltBefore(i)' = BuiltBefore(i)
  BY <1>1 DEF Built, BuiltBefore
<1>7. RunTypes' /\ BuiltInv'
  <2>1. RunTypes'
    BY <1>1, <1>2, <1>3 DEF RunTypes
  <2>2. BuiltInv'
    BY <1>1, <1>3, <1>6 DEF RunInv, BuiltInv
  <2>. QED
    BY <2>1, <2>2
<1>. DEFINE p == selection
            b == BuildPlace(p)
            k == PackPlace(p)
            t == TestPlace(p)
            o == Order(p)
<1>8. /\ b \in DOMAIN o /\ k \in DOMAIN o /\ t \in DOMAIN o /\ DOMAIN o = 1 .. Len(o)
      /\ o[b] = "build" /\ o[k] = "packageDryRun" /\ o[t] = "unitTests"
      /\ GateAt(p, b) = "build" /\ GateAt(p, k) = "packageDryRun"
      /\ GateAt(p, gate) = "unitTests" <=> gate = t
  BY GateAtPlaces, GatePlaces
<1>9. /\ p.build # {} => "build" \in p.gates
      /\ p.test # {} => "unitTests" \in p.gates
      /\ p.pack # {} => "packageDryRun" \in p.gates
      /\ p.build \subseteq Packages /\ p.pack \subseteq Packages /\ p.test \subseteq Packages
  BY <1>1, RunFacts DEF PlanGood
<1>10. CommandsOf(p, "build") = p.build /\ CommandsOf(p, "packageDryRun") = p.pack
  BY DEF CommandsOf
<1>11. /\ Built = DoneBy(p.build, b, ordered, gate, turn)
       /\ packed = DoneBy(p.pack, k, ordered, gate, turn)
       /\ gate > t => p.test \subseteq tested
  BY <1>1, RunFacts DEF RunInv, ProgressInv
<1>12. /\ selection' = p /\ BuildPlace(selection)' = b /\ PackPlace(selection)' = k
       /\ TestPlace(selection)' = t
  BY <1>3
<1>13. /\ gate' \in gate + 1 .. Len(o) + 1 /\ gate \in 1 .. Len(o) /\ Len(o) \in Nat
       /\ \A i \in gate + 1 .. gate' - 1 : o[i] \notin p.gates
       /\ \A i \in 1 .. turn' - 1 : ordered[i] \notin CommandsOf(p, GateAt(p, gate'))
       /\ tested' = IF GateAt(p, gate) # "unitTests" THEN tested
                    ELSE IF "fullUnitTests" \in p.gates THEN Packages ELSE p.test
  BY <1>1, <1>2, <1>4
<1>. HIDE DEF p, b, k, t, o
<1>14. /\ gate \in Nat /\ gate' \in Nat /\ gate < gate' /\ turn \in Nat /\ turn' \in Nat
       /\ b \in Nat /\ k \in Nat /\ turn <= Len(ordered) + 1 /\ turn > Len(ordered)
  BY <1>1, <1>2, <1>4, <1>8, <1>13
<1>15. TakesAll(ordered)
  BY <1>2 DEF Taken, TakesAll
<1>16. DoneBy(p.build, b, ordered, gate', turn') = Built
  <2>1. gate' = b => NoneIn(p.build, ordered, 1, turn' - 1)
    BY <1>8, <1>10, <1>13 DEF NoneIn
  <2>2. gate < b /\ b < gate' => p.build = {}
    <3>1. gate < b /\ b < gate' => b \in gate + 1 .. gate' - 1
      BY <1>8, <1>13
    <3>. QED
      BY <1>8, <1>9, <1>13, <3>1
  <2>3. DoneBy(p.build, b, ordered, gate', turn') = DoneBy(p.build, b, ordered, gate, turn)
    <3>1. p.build \in SUBSET Packages /\ ordered \in Seq(Packages)
      BY <1>2, <1>9
    <3>. QED
      BY <1>14, <1>15, <2>1, <2>2, <3>1, GoingOnKeepsDone
  <2>. QED
    BY <1>11, <2>3
<1>17. DoneBy(p.pack, k, ordered, gate', turn') = packed
  <2>1. gate' = k => NoneIn(p.pack, ordered, 1, turn' - 1)
    BY <1>8, <1>10, <1>13 DEF NoneIn
  <2>2. gate < k /\ k < gate' => p.pack = {}
    <3>1. gate < k /\ k < gate' => k \in gate + 1 .. gate' - 1
      BY <1>8, <1>13
    <3>. QED
      BY <1>8, <1>9, <1>13, <3>1
  <2>3. DoneBy(p.pack, k, ordered, gate', turn') = DoneBy(p.pack, k, ordered, gate, turn)
    <3>1. p.pack \in SUBSET Packages /\ ordered \in Seq(Packages)
      BY <1>2, <1>9
    <3>. QED
      BY <1>14, <1>15, <2>1, <2>2, <3>1, GoingOnKeepsDone
  <2>. QED
    BY <1>11, <2>3
<1>18. gate' > t => p.test \subseteq tested'
  <2>1. CASE gate = t
    BY <1>8, <1>9, <1>13, <2>1
  <2>2. CASE gate > t
    BY <1>8, <1>11, <1>13, <2>2
  <2>3. CASE gate < t
    <3>1. gate' > t => t \in gate + 1 .. gate' - 1
      BY <1>8, <1>13, <2>3
    <3>. QED
      BY <1>8, <1>9, <1>13, <3>1
  <2>. QED
    BY <1>8, <1>13, <2>1, <2>2, <2>3
<1>19. ProgressInv'
  BY <1>1, <1>3, <1>6, <1>12, <1>16, <1>17, <1>18 DEF ProgressInv
<1>. QED
  BY <1>3, <1>5, <1>7, <1>19 DEF RunInv

\* A gate that fails and the end of the run change the stage only.
LEMMA RunEndsInv == ASSUME RunInv, GateFails \/ RunPasses PROVE RunInv'
<1>1. /\ stage = "running" /\ stage' \in {"passed", "failed"}
      /\ stage' = "passed" => gate > Len(Order(selection))
      /\ UNCHANGED <<gate, turn, built, tested, packed>> /\ Untouched
  BY DEF GateFails, RunPasses
<1>2. /\ GraphInv' /\ Underway' /\ PlanGood(selection, changes)'
      /\ selection' = selection /\ ordered' = ordered /\ dependencies' = dependencies
  BY <1>1, PlanKept
<1>3. Built' = Built /\ \A i : BuiltBefore(i)' = BuiltBefore(i)
  BY <1>1 DEF Built, BuiltBefore
<1>4. RunTypes'
  BY <1>1, <1>2, RunFacts DEF RunTypes
<1>5. BuiltInv'
  BY <1>1, <1>2, <1>3 DEF RunInv, BuiltInv
<1>6. PlaceInv'
  BY <1>1, <1>2, RunFacts DEF RunInv, PlaceInv
<1>7. ProgressInv'
  BY <1>1, <1>2, <1>3, RunFacts DEF RunInv, ProgressInv
<1>. QED
  BY <1>2, <1>4, <1>5, <1>6, <1>7 DEF RunInv

\* Every step keeps RunInv.
LEMMA AffectedNextInv == ASSUME RunInv, [AffectedNext]_affectedVars PROVE RunInv'
<1>1. CASE UNCHANGED affectedVars
  <2>1. /\ UNCHANGED <<dependencies, outdated, stage, stack, done, indegree, ready, ordered>>
        /\ UNCHANGED <<changes, selection, gate, turn, built, tested, packed>>
    BY <1>1 DEF affectedVars, graphVars
  <2>2. GraphInv'
    <3>1. Taken' = Taken /\ Acyclic' = Acyclic
      BY <2>1 DEF Taken, Acyclic
    <3>2. GraphTypes' /\ PathInv'
      BY <2>1 DEF RunInv, GraphInv, GraphTypes, PathInv
    <3>3. OrderInv'
      BY <2>1, <3>1 DEF RunInv, GraphInv, OrderInv
    <3>4. SortInv' /\ OutcomeInv'
      BY <2>1, <3>1 DEF RunInv, GraphInv, SortInv, OutcomeInv
    <3>. QED
      BY <3>2, <3>3, <3>4 DEF GraphInv
  <2>3. Built' = Built /\ (\A i : BuiltBefore(i)' = BuiltBefore(i)) /\ Underway' = Underway
    BY <2>1 DEF Built, BuiltBefore, Underway
  <2>4. RunTypes' /\ BuiltInv' /\ PlaceInv'
    BY <2>1, <2>3 DEF RunInv, RunTypes, BuiltInv, PlaceInv
  <2>5. PlanGood(selection, changes)' = PlanGood(selection, changes)
    BY <2>1 DEF PlanGood, DependsOn
  <2>6. ProgressInv'
    BY <2>1, <2>3, <2>5 DEF RunInv, ProgressInv
  <2>. QED
    BY <2>2, <2>4, <2>6 DEF RunInv
<1>. QED
  BY <1>1, GraphStepInv, PlanStepInv, BuildPackageInv, PackPackageInv, GatePassesInv, RunEndsInv
     DEF AffectedNext

\* The invariant of the validation, whose variables stay as they are while
\* the other tool is followed.
LEMMA RunHolds == ToolsSpec => []RunInv
<1>1. ToolsInit => RunInv
  BY AffectedInitInv DEF ToolsInit
<1>2. RunInv /\ [ToolsNext]_toolsVars => RunInv'
  BY AffectedNextInv DEF ToolsNext, toolsVars
<1>. QED
  BY <1>1, <1>2, PTL DEF ToolsSpec

\* For any graph of packages, any changed files and any failures: a graph is refused exactly
\* when it has a cycle or a stale range, every package is built after all it depends on, and
\* what is tested or packed was built with everything it loads.
THEOREM PackagesComeInOrder == ToolsSpec => []PackagesInOrder
<1>1. ASSUME RunInv PROVE PackagesInOrder
  <2>1. stage = "rejected" => ~Acyclic \/ outdated # {}
    BY <1>1 DEF RunInv, GraphInv, OutcomeInv
  <2>2. stage \in {"sorted", "running", "passed", "failed"} => Acyclic /\ outdated = {}
    BY <1>1, SortedIsAcyclic DEF RunInv
  <2>3. \A i \in DOMAIN built : dependencies[built[i]] \subseteq BuiltBefore(i)
    BY <1>1 DEF RunInv, BuiltInv
  <2>4. ASSUME NEW S \in SUBSET selection.build, stage = "running",
               gate > BuildPlace(selection)
        PROVE  WithDependencies(S) \subseteq Built
    <3>1. ~(gate < BuildPlace(selection)) /\ gate # BuildPlace(selection)
      BY <1>1, <2>4, RunFacts DEF BuildPlace
    <3>2. Built = selection.build
      BY <1>1, <2>4, <3>1, RunFacts DEF RunInv, ProgressInv, DoneBy
    <3>3. /\ selection.build \in SUBSET Packages
          /\ \A p \in selection.build : dependencies[p] \subseteq selection.build
      BY <1>1, <2>4, RunFacts DEF PlanGood
    <3>. QED
      BY <3>2, <3>3, ClosedUnderDependsOn DEF WithDependencies
  <2>5. AtGate("unitTests") /\ selection.test # {} =>
          WithDependencies(selection.test \cup {TestingPackage}) \subseteq Built
    <3>. SUFFICES ASSUME AtGate("unitTests"), selection.test # {}
                  PROVE  WithDependencies(selection.test \cup {TestingPackage}) \subseteq Built
      OBVIOUS
    <3>1. stage = "running" /\ gate > BuildPlace(selection)
      BY GateAtPlaces DEF AtGate, BuildPlace, TestPlace
    <3>2. selection.test \cup {TestingPackage} \in SUBSET selection.build
      BY <1>1, <3>1, RunFacts DEF PlanGood
    <3>. QED
      BY <2>4, <3>1, <3>2
  <2>6. AtGate("e2e") => WithDependencies(AppImports) \subseteq Built
    <3>. SUFFICES ASSUME AtGate("e2e") PROVE WithDependencies(AppImports) \subseteq Built
      OBVIOUS
    <3>1. stage = "running" /\ gate = E2ePlace(selection) /\ gate \in DOMAIN Order(selection)
      BY GateAtPlaces DEF AtGate
    <3>2. gate > BuildPlace(selection)
      BY <3>1 DEF BuildPlace, E2ePlace
    <3>3. "e2e" \in selection.gates
      <4>1. Order(selection)[gate] = "e2e" /\ gate <= Len(Order(selection))
        BY <3>1, GatePlaces
      <4>. QED
        BY <1>1, <3>1, <4>1, RunFacts DEF RunInv, PlaceInv
    <3>4. AppImports \in SUBSET selection.build
      BY <1>1, <3>1, <3>3, RunFacts DEF PlanGood
    <3>. QED
      BY <2>4, <3>1, <3>2, <3>4
  <2>7. packed \subseteq Built
    <3>1. CASE ~Underway
      BY <1>1, <3>1 DEF RunInv, RunTypes
    <3>2. CASE Underway
      <4>1. /\ Built = DoneBy(selection.build, BuildPlace(selection), ordered, gate, turn)
            /\ packed = DoneBy(selection.pack, PackPlace(selection), ordered, gate, turn)
            /\ selection.pack \subseteq selection.build
            /\ gate \in 1 .. Len(Order(selection)) + 1 /\ Len(Order(selection)) \in Nat
        BY <1>1, <3>2, GatePlaces DEF RunInv, ProgressInv, PlaceInv, PlanGood
      <4>2. CASE gate < PackPlace(selection)
        BY <4>1, <4>2 DEF DoneBy
      <4>3. CASE ~(gate < PackPlace(selection))
        <5>1. packed \subseteq selection.pack
          BY <4>1, <4>3 DEF DoneBy
        <5>2. ~(gate < BuildPlace(selection)) /\ gate # BuildPlace(selection)
          BY <4>1, <4>3 DEF BuildPlace, PackPlace
        <5>3. Built = selection.build
          BY <4>1, <5>2 DEF DoneBy
        <5>. QED
          BY <4>1, <5>1, <5>3
      <4>. QED
        BY <4>2, <4>3
    <3>. QED
      BY <3>1, <3>2
  <2>. QED
    BY <2>1, <2>2, <2>3, <2>5, <2>6, <2>7 DEF PackagesInOrder
<1>. QED
  BY <1>1, RunHolds, PTL

\* For any graph, changed files and failures: a run that passed built and tested the package
\* of every changed source and all that depend on it, and packed what changed in an archive.
THEOREM PassedRunsCover == ToolsSpec => []PassedIsCovered
<1>1. ASSUME RunInv PROVE PassedIsCovered
  <2>. SUFFICES ASSUME stage = "passed"
                PROVE  \A f \in changes :
                  /\ IsRuntime(f) => \A p \in Packages :
                         p = f.owner \/ DependsOn(p, f.owner) => p \in Built \cap tested
                  /\ IsUnitTested(f) => f.owner \in Built \cap tested
                  /\ IsPacked(f) => f.owner \in packed
                  /\ IsRoot(f, "globalBuild") => tested \cap packed \cap Built = Packages
    BY DEF PassedIsCovered
  <2>1. /\ Underway /\ gate > Len(Order(selection)) /\ gate \in Nat
        /\ Len(Order(selection)) \in Nat /\ Len(Order(selection)) > 16
    BY <1>1, GatePlaces DEF Underway, RunInv, RunTypes, PlaceInv
  <2>2. gate > BuildPlace(selection) /\ gate > PackPlace(selection) /\ gate > TestPlace(selection)
    BY <2>1 DEF BuildPlace, PackPlace, TestPlace
  <2>3. /\ BuildPlace(selection) \in Nat /\ PackPlace(selection) \in Nat
    BY DEF BuildPlace, PackPlace
  <2>4. /\ Built = selection.build /\ packed = selection.pack /\ selection.test \subseteq tested
        /\ PlanGood(selection, changes)
    BY <1>1, <2>1, <2>2, <2>3 DEF RunInv, ProgressInv, DoneBy
  <2>. QED
    BY <2>4 DEF PlanGood
<1>. QED
  BY <1>1, RunHolds, PTL

-----------------------------------------------------------------------------
(* Release: what npm and the tags say stays true while main advances.       *)

CommitState == [source : [Released -> Nat], version : [Released -> Versions]]

ReleaseTypes ==
    /\ history \in Seq(CommitState) /\ history # <<>>
    /\ npm \in [Released -> [Versions -> 0 .. HeadSha]]
    /\ tags \in [Released -> [Versions -> 0 .. HeadSha]]

\* npm recorded a commit that has the version.
NpmInv == \A p \in Released, v \in Versions : npm[p][v] # 0 => VersionAt(npm[p][v], p) = v

\* A tag is at what npm has, or at the same artifact; what is announced is tagged.
TagInv ==
    /\ \A p \in Released, v \in Versions :
          tags[p][v] # 0 => npm[p][v] # 0 /\ ~ArtifactDiffers(npm[p][v], tags[p][v], p, v)
    /\ \A p \in Released, v \in Versions : <<p, v>> \in releases => tags[p][v] # 0

\* A plan is for a commit of main and releases the versions of its manifests.
PlanInv ==
    job # "idle" =>
        /\ ApprovedHead \in 1 .. HeadSha
        /\ \A p \in Released : Planned(p) => approved.packages[p].new = VersionAt(ApprovedHead, p)

\* Once npm was verified, it has what the plan releases at the plan's target,
\* where a prepared release finds no other tag.
VerifiedInv ==
    /\ job \in {"tag", "announce"} => \A p \in Candidates :
          /\ approved.packages[p].new \in Versions /\ TagTarget(p) # 0
          /\ npm[p][approved.packages[p].new] = TagTarget(p)
          /\ approved.operation = "release" =>
                tags[p][approved.packages[p].new] \in {0, TagTarget(p)}
    /\ job = "announce" => \A p \in Candidates : tags[p][approved.packages[p].new] # 0

ReleaseInv == ReleaseTypes /\ NpmInv /\ TagInv /\ PlanInv /\ VerifiedInv

\* The initial states satisfy ReleaseInv.
LEMMA ReleaseInitInv == ASSUME ReleaseInit PROVE ReleaseInv
<1>1. 1 \in Versions
  BY ReleaseAssumption DEF Versions
<1>2. HeadSha = 1 /\ history[1].version = [p \in Released |-> 1]
      /\ history \in Seq(CommitState) /\ history # <<>>
  <2>1. [source |-> [p \in Released |-> 0], version |-> [p \in Released |-> 1]] \in CommitState
    BY <1>1 DEF CommitState
  <2>. QED
    BY <2>1 DEF ReleaseInit, HeadSha
<1>3. PICK old \in SUBSET Released : \E tagged \in SUBSET old :
        /\ npm = [p \in Released |-> [v \in Versions |-> IF p \in old /\ v = 1 THEN 1 ELSE 0]]
        /\ tags = [p \in Released |-> [v \in Versions |-> IF p \in tagged /\ v = 1 THEN 1 ELSE 0]]
  BY DEF ReleaseInit
<1>4. PICK tagged \in SUBSET old :
        /\ npm = [p \in Released |-> [v \in Versions |-> IF p \in old /\ v = 1 THEN 1 ELSE 0]]
        /\ tags = [p \in Released |-> [v \in Versions |-> IF p \in tagged /\ v = 1 THEN 1 ELSE 0]]
  BY <1>3
<1>5. ReleaseTypes
  BY <1>2, <1>4 DEF ReleaseTypes
<1>6. NpmInv /\ TagInv
  BY <1>2, <1>4 DEF NpmInv, TagInv, VersionAt, ArtifactDiffers, SourceChanged, ReleaseInit
<1>7. PlanInv /\ VerifiedInv
  BY DEF PlanInv, VerifiedInv, ReleaseInit
<1>. QED
  BY <1>5, <1>6, <1>7 DEF ReleaseInv

\* Commits of main stay what they are, and one more names versions there are.
LEMMA HistoryGrows ==
    ASSUME ReleaseTypes, Commit
    PROVE  /\ history' \in Seq(CommitState) /\ history' # <<>>
           /\ HeadSha' = HeadSha + 1 /\ HeadSha \in Nat \ {0}
           /\ \A c \in 1 .. HeadSha : history'[c] = history[c]
<1>1. history \in Seq(CommitState) /\ HeadSha \in Nat \ {0}
  BY DEF ReleaseTypes, HeadSha
<1>2. PICK commit \in Commits :
        /\ \A p \in commit[2] : VersionAt(HeadSha, p) < MaxVersion
        /\ history' = Append(history,
              [source  |-> [p \in Released |-> history[HeadSha].source[p] +
                                               IF p \in commit[1] THEN 1 ELSE 0],
               version |-> [p \in Released |-> VersionAt(HeadSha, p) +
                                               IF p \in commit[2] THEN 1 ELSE 0]])
  BY DEF Commit
<1>3. history[HeadSha] \in CommitState
  BY <1>1 DEF HeadSha
<1>4. ASSUME NEW p \in Released
      PROVE  /\ history[HeadSha].source[p] + (IF p \in commit[1] THEN 1 ELSE 0) \in Nat
             /\ VersionAt(HeadSha, p) + (IF p \in commit[2] THEN 1 ELSE 0) \in Versions
  BY <1>2, <1>3, ReleaseAssumption DEF CommitState, Versions, VersionAt
<1>. DEFINE added == [source  |-> [p \in Released |-> history[HeadSha].source[p] +
                                               IF p \in commit[1] THEN 1 ELSE 0],
                      version |-> [p \in Released |-> VersionAt(HeadSha, p) +
                                               IF p \in commit[2] THEN 1 ELSE 0]]
<1>5. added \in CommitState
  BY <1>4 DEF CommitState
<1>6. history' = Append(history, added)
  BY <1>2
<1>. QED
  BY <1>1, <1>5, <1>6 DEF HeadSha

\* A commit keeps ReleaseInv.
LEMMA CommitInv == ASSUME ReleaseInv, Commit PROVE ReleaseInv'
<1>1. /\ history' \in Seq(CommitState) /\ history' # <<>>
      /\ HeadSha' = HeadSha + 1 /\ HeadSha \in Nat \ {0}
      /\ \A c \in 1 .. HeadSha : history'[c] = history[c]
  BY HistoryGrows DEF ReleaseInv
<1>2. UNCHANGED <<npm, tags, releases, approved, job>>
  BY DEF Commit
<1>3. /\ npm \in [Released -> [Versions -> 0 .. HeadSha]]
      /\ tags \in [Released -> [Versions -> 0 .. HeadSha]]
  BY DEF ReleaseInv, ReleaseTypes
<1>4. ReleaseTypes'
  <2>1. 0 .. HeadSha \subseteq 0 .. HeadSha'
    BY <1>1
  <2>. QED
    BY <1>1, <1>2, <1>3, <2>1 DEF ReleaseTypes
<1>5. \A p \in Released, c \in 1 .. HeadSha : VersionAt(c, p)' = VersionAt(c, p)
  BY <1>1 DEF VersionAt
<1>6. ASSUME NEW p \in Released, NEW v \in Versions
      PROVE  /\ npm[p][v] \in 0 .. HeadSha /\ tags[p][v] \in 0 .. HeadSha
             /\ npm[p][v] # 0 => npm[p][v] \in 1 .. HeadSha
             /\ tags[p][v] # 0 => tags[p][v] \in 1 .. HeadSha
  BY <1>1, <1>3
<1>7. NpmInv'
  BY <1>2, <1>5, <1>6 DEF ReleaseInv, NpmInv
<1>8. TagInv'
  <2>1. ASSUME NEW p \in Released, NEW v \in Versions, tags[p][v] # 0
        PROVE  npm[p][v] # 0 /\ ~ArtifactDiffers(npm[p][v], tags[p][v], p, v)'
    <3>1. npm[p][v] # 0 /\ ~ArtifactDiffers(npm[p][v], tags[p][v], p, v)
      BY <2>1 DEF ReleaseInv, TagInv
    <3>. QED
      BY <1>1, <1>2, <1>6, <2>1, <3>1 DEF ArtifactDiffers, SourceChanged, VersionAt
  <2>. QED
    BY <1>2, <2>1 DEF ReleaseInv, TagInv
<1>9. PlanInv'
  BY <1>1, <1>2, <1>5 DEF ReleaseInv, PlanInv, ApprovedHead, Planned
<1>10. VerifiedInv'
  BY <1>2 DEF ReleaseInv, VerifiedInv, Candidates, Awaited, Planned, TagTarget
<1>. QED
  BY <1>4, <1>7, <1>8, <1>9, <1>10 DEF ReleaseInv

\* Dispatch keeps ReleaseInv.
LEMMA DispatchInv == ASSUME ReleaseInv, Dispatch PROVE ReleaseInv'
<1>1. PICK operation \in {"bootstrap", "release"} :
        approved' = [operation |-> operation, headSha |-> HeadSha,
                     packages |-> ItemsOf(operation, HeadSha),
                     moves |-> MovesOf(operation, HeadSha)]
  BY DEF Dispatch
<1>2. UNCHANGED <<history, npm, tags, releases>> /\ job' = "approved"
  BY DEF Dispatch
<1>3. ReleaseTypes' /\ NpmInv' /\ TagInv'
  BY <1>2 DEF ReleaseInv, ReleaseTypes, NpmInv, TagInv, HeadSha, VersionAt, ArtifactDiffers,
              SourceChanged
<1>4. ASSUME NEW p \in Released, Planned(p)'
      PROVE  approved'.packages[p].new = VersionAt(HeadSha, p)
  <2>1. approved'.packages[p] = ItemsOf(operation, HeadSha)[p] /\ approved'.packages[p] # NoItem
    BY <1>1, <1>4 DEF Planned, NoItem
  <2>2. CASE operation = "bootstrap"
    BY <2>1, <2>2 DEF ItemsOf, BootstrapItem
  <2>3. CASE operation = "release"
    <3>1. approved'.packages[p] = PreparedItem(p, HeadSha, FALSE)
      BY <2>1, <2>3 DEF ItemsOf
    <3>2. PreparedItem(p, HeadSha, FALSE) = NoItem
          \/ PreparedItem(p, HeadSha, FALSE).new = VersionAt(HeadSha, p)
      BY DEF PreparedItem
    <3>. QED
      BY <2>1, <3>1, <3>2
  <2>. QED
    BY <2>2, <2>3
<1>5. HeadSha \in Nat \ {0}
  BY DEF ReleaseInv, ReleaseTypes, HeadSha
<1>6. PlanInv'
  BY <1>1, <1>2, <1>4, <1>5 DEF PlanInv, ApprovedHead, VersionAt, HeadSha
<1>. QED
  BY <1>2, <1>3, <1>6 DEF ReleaseInv, VerifiedInv

\* What a step leaves alone stays true.
LEMMA WorldKept ==
    ASSUME ReleaseInv, UNCHANGED <<history, npm, tags, releases, approved>>
    PROVE  /\ ReleaseTypes' /\ NpmInv' /\ TagInv'
           /\ (job = "idle" => job' = "idle") => PlanInv'
           /\ job' \notin {"tag", "announce"} \/ job' = job => VerifiedInv'
<1>1. ReleaseTypes' /\ NpmInv' /\ TagInv'
  BY DEF ReleaseInv, ReleaseTypes, NpmInv, TagInv, HeadSha, VersionAt, ArtifactDiffers,
         SourceChanged
<1>2. ASSUME job = "idle" => job' = "idle" PROVE PlanInv'
  BY <1>2 DEF ReleaseInv, PlanInv, ApprovedHead, Planned, VersionAt, HeadSha
<1>3. ASSUME job' \notin {"tag", "announce"} \/ job' = job PROVE VerifiedInv'
  BY <1>3 DEF ReleaseInv, VerifiedInv, Candidates, Awaited, Planned, TagTarget
<1>. QED
  BY <1>1, <1>2, <1>3

\* The steps that decide, and touch neither npm nor a tag.
LEMMA DecisionInv ==
    ASSUME ReleaseInv,
           \/ JobFails \/ Rerun \/ VerifyHead \/ RefreshPrepared \/ AllPublished
           \/ AllAnnounced \/ RegistryCatchesUp
    PROVE  ReleaseInv'
<1>1. UNCHANGED <<history, npm, tags, releases, approved>>
  BY DEF JobFails, Rerun, VerifyHead, RefreshPrepared, AllPublished, AllAnnounced,
         RegistryCatchesUp, World
<1>2. /\ job = "idle" => job' = "idle"
      /\ job' \notin {"tag", "announce"} \/ job' = job
  BY DEF JobFails, Rerun, VerifyHead, RefreshPrepared, AllPublished, AllAnnounced,
         RegistryCatchesUp, JobAt, Goes
<1>. QED
  BY <1>1, <1>2, WorldKept DEF ReleaseInv

-----------------------------------------------------------------------------
(* What the job does to npm, to the tags and to the GitHub Releases         *)

\* A commit of main names a version of every package.
LEMMA VersionTyped ==
    ASSUME ReleaseTypes, NEW c \in 1 .. HeadSha, NEW p \in Released
    PROVE  VersionAt(c, p) \in Versions
<1>1. history[c] \in CommitState
  BY DEF ReleaseTypes, HeadSha
<1>2. history[c].version \in [Released -> Versions]
  BY <1>1 DEF CommitState
<1>. QED
  BY <1>2 DEF VersionAt

\* Publish keeps ReleaseInv.
LEMMA PublishInv == ASSUME ReleaseInv, Publish PROVE ReleaseInv'
<1>1. PICK p \in Missing :
        npm' = [npm EXCEPT ![p][VersionAt(ApprovedHead, p)] = ApprovedHead]
  BY DEF Publish
<1>2. UNCHANGED <<history, tags, releases, approved, job>> /\ job = "publish"
  BY DEF Publish, JobAt
<1>. DEFINE v == VersionAt(ApprovedHead, p)
<1>3. /\ p \in Released /\ npm[p][v] = 0 /\ ApprovedHead \in 1 .. HeadSha
      /\ history \in Seq(CommitState) /\ npm \in [Released -> [Versions -> 0 .. HeadSha]]
  BY <1>1, <1>2 DEF Missing, ReleaseInv, PlanInv, ReleaseTypes
<1>4. v \in Versions
  BY <1>3, VersionTyped DEF ReleaseInv
<1>5. /\ npm' \in [Released -> [Versions -> 0 .. HeadSha]]
      /\ npm'[p][v] = ApprovedHead
      /\ \A q \in Released, w \in Versions : npm[q][w] # 0 => npm'[q][w] = npm[q][w]
      /\ \A q \in Released, w \in Versions : npm'[q][w] # npm[q][w] => q = p /\ w = v
  BY <1>1, <1>3, <1>4
<1>6. ReleaseTypes'
  BY <1>2, <1>5 DEF ReleaseInv, ReleaseTypes, HeadSha
<1>7. NpmInv'
  BY <1>2, <1>5 DEF ReleaseInv, NpmInv, VersionAt
<1>8. TagInv'
  BY <1>2, <1>5 DEF ReleaseInv, TagInv, ArtifactDiffers, SourceChanged, VersionAt
<1>9. PlanInv' /\ VerifiedInv'
  BY <1>2 DEF ReleaseInv, PlanInv, VerifiedInv, ApprovedHead, Planned, VersionAt, HeadSha
<1>. QED
  BY <1>6, <1>7, <1>8, <1>9 DEF ReleaseInv

\* Tags put where npm has the artifact are tags as they should be.
LEMMA TaggedInv ==
    ASSUME ReleaseInv, NEW some \in SUBSET Released, tags' = Tagged(some),
           \A p \in some :
              /\ approved.packages[p].new \in Versions /\ TagTarget(p) \in 1 .. HeadSha
              /\ npm[p][approved.packages[p].new] # 0
              /\ ~ArtifactDiffers(npm[p][approved.packages[p].new], TagTarget(p), p,
                                  approved.packages[p].new),
           UNCHANGED <<history, npm, releases, approved>>
    PROVE  /\ ReleaseTypes' /\ NpmInv' /\ TagInv'
           /\ \A p \in some : tags'[p][approved.packages[p].new] = TagTarget(p)
           /\ \A p \in Released, v \in Versions : tags'[p][v] # tags[p][v] =>
                 p \in some /\ v = approved.packages[p].new /\ tags'[p][v] = TagTarget(p)
<1>1. /\ tags \in [Released -> [Versions -> 0 .. HeadSha]] /\ HeadSha' = HeadSha
      /\ HeadSha \in Nat \ {0}
  BY DEF ReleaseInv, ReleaseTypes, HeadSha
<1>2. ASSUME NEW p \in Released, NEW v \in Versions
      PROVE  /\ tags'[p][v] = IF p \in some /\ v = approved.packages[p].new THEN TagTarget(p)
                              ELSE tags[p][v]
             /\ tags'[p][v] \in 0 .. HeadSha
  BY <1>1, <1>2 DEF Tagged
<1>3. tags' \in [Released -> [Versions -> 0 .. HeadSha]]
  <2>1. tags' = [p \in Released |-> [v \in Versions |->
                    IF p \in some /\ v = approved.packages[p].new THEN TagTarget(p)
                    ELSE tags[p][v]]]
    BY DEF Tagged
  <2>2. \A p \in Released, v \in Versions :
            (IF p \in some /\ v = approved.packages[p].new THEN TagTarget(p)
             ELSE tags[p][v]) \in 0 .. HeadSha
    BY <1>2
  <2>. QED
    BY <2>1, <2>2
<1>4. ReleaseTypes' /\ NpmInv'
  BY <1>1, <1>3 DEF ReleaseInv, ReleaseTypes, NpmInv, VersionAt, HeadSha
<1>5. TagInv'
  <2>1. ASSUME NEW p \in Released, NEW v \in Versions, tags'[p][v] # 0
        PROVE  npm[p][v] # 0 /\ ~ArtifactDiffers(npm[p][v], tags'[p][v], p, v)
    <3>1. CASE p \in some /\ v = approved.packages[p].new
      BY <1>2, <3>1
    <3>2. CASE ~(p \in some /\ v = approved.packages[p].new)
      BY <1>2, <2>1, <3>2 DEF ReleaseInv, TagInv
    <3>. QED
      BY <3>1, <3>2
  <2>2. ASSUME NEW p \in Released, NEW v \in Versions, <<p, v>> \in releases
        PROVE  tags'[p][v] # 0
    BY <1>1, <1>2, <2>2 DEF ReleaseInv, TagInv
  <2>. QED
    BY <2>1, <2>2 DEF TagInv, ArtifactDiffers, SourceChanged, VersionAt
<1>. QED
  BY <1>2, <1>4, <1>5

\* What npm lacks nothing of, and the plan's commit: in range.
LEMMA PlannedVersion ==
    ASSUME ReleaseInv, job # "idle", NEW p \in Released
    PROVE  /\ ApprovedHead \in 1 .. HeadSha /\ VersionAt(ApprovedHead, p) \in Versions
           /\ \A v \in Versions : npm[p][v] # 0 =>
                 /\ npm[p][v] \in 1 .. HeadSha
                 /\ ~ArtifactDiffers(npm[p][v], npm[p][v], p, v)
<1>1. ApprovedHead \in 1 .. HeadSha /\ history \in Seq(CommitState) /\ HeadSha \in Nat
  BY DEF ReleaseInv, PlanInv, ReleaseTypes, HeadSha
<1>2. VersionAt(ApprovedHead, p) \in Versions
  BY <1>1, VersionTyped DEF ReleaseInv
<1>3. ASSUME NEW v \in Versions, npm[p][v] # 0
      PROVE  npm[p][v] \in 1 .. HeadSha /\ ~ArtifactDiffers(npm[p][v], npm[p][v], p, v)
  BY <1>1, <1>3 DEF ReleaseInv, ReleaseTypes, NpmInv, ArtifactDiffers, SourceChanged
<1>. QED
  BY <1>1, <1>2, <1>3

\* The bootstrap tags what npm has already at npm's commit, or at the head when
\* the artifact there is the same.
LEMMA RefreshBootstrapInv == ASSUME ReleaseInv, RefreshBootstrap PROVE ReleaseInv'
<1>1. UNCHANGED <<history, npm, releases, approved>> /\ job = "verified"
      /\ job' \notin {"idle", "tag", "announce"}
  BY DEF RefreshBootstrap, JobAt, Goes
<1>2. CASE tags' = tags
  BY <1>1, <1>2, WorldKept DEF ReleaseInv
<1>3. CASE BootstrapStands
  <2>1. PICK some \in SUBSET {p \in Released : approved.packages[p].action = "skip-existing"} :
          tags' = tags \/ tags' = Tagged(some)
    BY DEF RefreshBootstrap
  <2>2. ASSUME NEW p \in some
        PROVE  /\ approved.packages[p].new \in Versions /\ TagTarget(p) \in 1 .. HeadSha
               /\ npm[p][approved.packages[p].new] # 0
               /\ ~ArtifactDiffers(npm[p][approved.packages[p].new], TagTarget(p), p,
                                   approved.packages[p].new)
    <3>. DEFINE v == VersionAt(ApprovedHead, p)
    <3>1. /\ BootstrapItem(p, ApprovedHead, TRUE) = approved.packages[p] /\ p \in Released
          /\ approved.packages[p].action = "skip-existing"
      BY <1>3 DEF BootstrapStands
    <3>. DEFINE item == BootstrapItem(p, ApprovedHead, TRUE)
    <3>6. /\ item.new = v
          /\ item.action = IF Seen(p, v) THEN "skip-existing" ELSE "publish"
          /\ item.target = IF Seen(p, v) /\ ~Anchored(p, ApprovedHead, TRUE)
                           THEN npm[p][v] ELSE ApprovedHead
      BY DEF BootstrapItem
    <3>2. Seen(p, v) /\ approved.packages[p].new = v
          /\ TagTarget(p) = IF ~Anchored(p, ApprovedHead, TRUE) THEN npm[p][v] ELSE ApprovedHead
      <4>. HIDE DEF item, v
      <4>1. item = approved.packages[p] /\ item.action = "skip-existing"
        BY <3>1 DEF item
      <4>2. Seen(p, v)
        BY <4>1, <3>6
      <4>. QED
        BY <4>1, <4>2, <3>6 DEF TagTarget
    <3>3. ApprovedHead \in 1 .. HeadSha /\ v \in Versions
          /\ (npm[p][v] # 0 => /\ npm[p][v] \in 1 .. HeadSha
                               /\ ~ArtifactDiffers(npm[p][v], npm[p][v], p, v))
      BY <1>1, <3>1, PlannedVersion
    <3>4. CASE Anchored(p, ApprovedHead, TRUE)
      BY <3>2, <3>3, <3>4 DEF Anchored, Seen
    <3>5. CASE ~Anchored(p, ApprovedHead, TRUE)
      BY <3>2, <3>3, <3>5 DEF Seen
    <3>. QED
      BY <3>4, <3>5
  <2>3. CASE tags' = Tagged(some)
    <3>1. ReleaseTypes' /\ NpmInv' /\ TagInv'
      BY <1>1, <2>2, <2>3, TaggedInv
    <3>2. PlanInv' /\ VerifiedInv'
      BY <1>1 DEF ReleaseInv, PlanInv, VerifiedInv, ApprovedHead, Planned, VersionAt, HeadSha
    <3>. QED
      BY <3>1, <3>2 DEF ReleaseInv
  <2>. QED
    BY <1>2, <2>1, <2>3
<1>. QED
  BY <1>2, <1>3 DEF RefreshBootstrap

\* A prepared release goes on to tag only what npm has at the planned target,
\* and where the tag is missing or there already.
LEMMA VerifyPreparedInv == ASSUME ReleaseInv, VerifyPrepared PROVE ReleaseInv'
<1>1. UNCHANGED <<history, npm, tags, releases, approved>> /\ job = "published"
      /\ approved.operation = "release" /\ job' \in {"tag", "failed"}
  BY DEF VerifyPrepared, World, JobAt, Goes
<1>2. CASE job' = "failed"
  BY <1>1, <1>2, WorldKept DEF ReleaseInv
<1>3. CASE job' = "tag"
  <2>1. PublishedAsPlanned
    BY <1>3 DEF VerifyPrepared, Goes
  <2>2. ASSUME NEW p \in Released, Planned(p)
        PROVE  /\ approved.packages[p].new \in Versions /\ TagTarget(p) # 0
               /\ npm[p][approved.packages[p].new] = TagTarget(p)
               /\ tags[p][approved.packages[p].new] \in {0, TagTarget(p)}
    <3>. DEFINE v == VersionAt(ApprovedHead, p)
                found == BootstrapItem(p, ApprovedHead, FALSE)
    <3>1. /\ found.action = "skip-existing" /\ found.new = approved.packages[p].new
          /\ found.base = TagTarget(p) /\ found.target = TagTarget(p)
          /\ ~BootstrapFails(p, ApprovedHead, FALSE)
      BY <2>1, <2>2 DEF PublishedAsPlanned, TagTarget
    <3>2. Seen(p, v) /\ approved.packages[p].new = v /\ TagTarget(p) = npm[p][v]
      BY <3>1 DEF BootstrapItem
    <3>3. tags[p][v] \in {0, TagTarget(p)}
      BY <3>1, <3>2 DEF BootstrapFails, Anchored
    <3>4. v \in Versions
      BY <1>1, PlannedVersion
    <3>. QED
      BY <3>2, <3>3, <3>4 DEF Seen
  <2>3. VerifiedInv'
    <3>1. \A p \in Candidates : p \in Released /\ Planned(p)
      BY <1>1 DEF Candidates
    <3>2. Candidates' = Candidates /\ \A p \in Released : TagTarget(p)' = TagTarget(p)
      BY <1>1 DEF Candidates, Awaited, Planned, TagTarget
    <3>. QED
      BY <1>1, <1>3, <2>2, <3>1, <3>2 DEF VerifiedInv
  <2>. QED
    BY <1>1, <1>3, <2>3, WorldKept DEF ReleaseInv
<1>. QED
  BY <1>1, <1>2, <1>3

\* VerifyBootstrap keeps ReleaseInv.
LEMMA VerifyBootstrapInv == ASSUME ReleaseInv, VerifyBootstrap PROVE ReleaseInv'
<1>1. UNCHANGED <<history, npm, tags, releases, approved>> /\ job = "published"
      /\ approved.operation = "bootstrap" /\ job' \in {"done", "tag", "failed"}
  BY DEF VerifyBootstrap, World, JobAt, Goes
<1>2. CASE job' # "tag"
  BY <1>1, <1>2, WorldKept DEF ReleaseInv
<1>3. CASE job' = "tag"
  <2>1. BootstrapPublished
    BY <1>3 DEF VerifyBootstrap, Goes
  <2>2. ASSUME NEW p \in Awaited
        PROVE  /\ approved.packages[p].new \in Versions /\ TagTarget(p) # 0
               /\ npm[p][approved.packages[p].new] = TagTarget(p)
    <3>. DEFINE v == VersionAt(ApprovedHead, p)
    <3>1. /\ BootstrapItem(p, ApprovedHead, TRUE).action = "skip-existing"
          /\ BootstrapItem(p, ApprovedHead, TRUE).base = TagTarget(p)
      BY <2>1 DEF BootstrapPublished
    <3>2. Seen(p, v) /\ TagTarget(p) = npm[p][v]
      BY <3>1 DEF BootstrapItem
    <3>3. p \in Released /\ Planned(p)
      BY DEF Awaited, Planned, NoItem
    <3>4. approved.packages[p].new = v
      BY <1>1, <3>3 DEF ReleaseInv, PlanInv
    <3>5. v \in Versions
      BY <1>1, <3>3, PlannedVersion
    <3>. QED
      BY <3>2, <3>4, <3>5 DEF Seen
  <2>3. VerifiedInv'
    <3>1. Candidates' = Awaited /\ \A p \in Released : TagTarget(p)' = TagTarget(p)
      BY <1>1 DEF Candidates, Awaited, Planned, TagTarget
    <3>. QED
      BY <1>1, <1>3, <2>2, <3>1 DEF VerifiedInv, Awaited
  <2>. QED
    BY <1>1, <1>3, <2>3, WorldKept DEF ReleaseInv
<1>. QED
  BY <1>1, <1>2, <1>3

\* A push moves only tags that are missing, to what npm recorded.
LEMMA PushTagsEffect ==
    ASSUME ReleaseInv, PushTags
    PROVE  /\ ReleaseTypes' /\ NpmInv' /\ TagInv'
           /\ \A p \in Released, v \in Versions : tags'[p][v] # tags[p][v] =>
                 /\ tags'[p][v] = npm[p][v]
                 /\ approved.operation = "release" => tags[p][v] = 0
           /\ job' = "announce" =>
                 \A p \in Candidates : tags'[p][approved.packages[p].new] = TagTarget(p)
<1>1. UNCHANGED <<history, npm, releases, approved>> /\ job = "tag"
  BY DEF PushTags, JobAt
<1>2. PICK some \in SUBSET Candidates :
        tags' = Tagged(some) /\ (job' = "announce" => some = Candidates)
  BY DEF PushTags, Goes
<1>3. some \in SUBSET Released
  BY DEF Candidates, Awaited
<1>4. ASSUME NEW p \in some
      PROVE  /\ approved.packages[p].new \in Versions /\ TagTarget(p) \in 1 .. HeadSha
             /\ npm[p][approved.packages[p].new] # 0
             /\ npm[p][approved.packages[p].new] = TagTarget(p)
             /\ ~ArtifactDiffers(npm[p][approved.packages[p].new], TagTarget(p), p,
                                 approved.packages[p].new)
             /\ approved.operation = "release" =>
                   tags[p][approved.packages[p].new] \in {0, TagTarget(p)}
  <2>1. /\ approved.packages[p].new \in Versions /\ TagTarget(p) # 0
        /\ npm[p][approved.packages[p].new] = TagTarget(p)
        /\ approved.operation = "release" =>
              tags[p][approved.packages[p].new] \in {0, TagTarget(p)}
    BY <1>1 DEF ReleaseInv, VerifiedInv
  <2>2. /\ npm[p][approved.packages[p].new] \in 1 .. HeadSha
        /\ ~ArtifactDiffers(TagTarget(p), TagTarget(p), p, approved.packages[p].new)
    BY <1>1, <1>3, <2>1, PlannedVersion
  <2>. QED
    BY <2>1, <2>2
<1>5. /\ ReleaseTypes' /\ NpmInv' /\ TagInv'
      /\ \A p \in some : tags'[p][approved.packages[p].new] = TagTarget(p)
      /\ \A p \in Released, v \in Versions : tags'[p][v] # tags[p][v] =>
            p \in some /\ v = approved.packages[p].new /\ tags'[p][v] = TagTarget(p)
  BY <1>1, <1>2, <1>3, <1>4, TaggedInv
<1>. QED
  BY <1>2, <1>4, <1>5

\* PushTags keeps ReleaseInv.
LEMMA PushTagsInv == ASSUME ReleaseInv, PushTags PROVE ReleaseInv'
<1>1. UNCHANGED <<history, npm, releases, approved>> /\ job = "tag"
      /\ job' \in {"announce", "done", "failed"}
  BY DEF PushTags, JobAt, Goes
<1>2. PlanInv'
  BY <1>1 DEF ReleaseInv, PlanInv, ApprovedHead, Planned, VersionAt, HeadSha
<1>3. ASSUME job' = "announce" PROVE VerifiedInv'
  <2>1. Candidates' = Candidates /\ \A p \in Released : TagTarget(p)' = TagTarget(p)
    BY <1>1 DEF Candidates, Awaited, Planned, TagTarget
  <2>2. \A p \in Candidates :
          /\ p \in Released /\ tags'[p][approved.packages[p].new] = TagTarget(p)
          /\ approved.packages[p].new \in Versions /\ TagTarget(p) # 0
          /\ npm[p][approved.packages[p].new] = TagTarget(p)
    BY <1>1, <1>3, PushTagsEffect DEF ReleaseInv, VerifiedInv, Candidates, Awaited
  <2>. QED
    BY <1>1, <2>1, <2>2 DEF VerifiedInv
<1>4. VerifiedInv'
  BY <1>1, <1>3 DEF VerifiedInv
<1>. QED
  BY <1>2, <1>4, PushTagsEffect DEF ReleaseInv

\* Announce keeps ReleaseInv.
LEMMA AnnounceInv == ASSUME ReleaseInv, Announce PROVE ReleaseInv'
<1>1. UNCHANGED <<history, npm, tags, approved, job>> /\ job = "announce"
  BY DEF Announce, JobAt
<1>2. PICK p \in {Min(Unannounced)} : releases' = releases \cup {<<p, approved.packages[p].new>>}
  BY DEF Announce
<1>3. p \in Candidates
  <2>1. Unannounced # {} /\ Unannounced \subseteq Candidates /\ Candidates \subseteq Released
    BY DEF Announce, Unannounced, Candidates, Awaited
  <2>2. Unannounced \in SUBSET Nat
    BY <2>1, ReleaseAssumption
  <2>. QED
    BY <1>2, <2>1, <2>2, MinIsLeast
<1>4. TagInv'
  <2>1. tags[p][approved.packages[p].new] # 0
    BY <1>1, <1>3 DEF ReleaseInv, VerifiedInv
  <2>2. ASSUME NEW q \in Released, NEW v \in Versions, <<q, v>> \in releases'
        PROVE  tags[q][v] # 0
    <3>1. CASE <<q, v>> \in releases
      BY <3>1 DEF ReleaseInv, TagInv
    <3>2. CASE q = p /\ v = approved.packages[p].new
      BY <2>1, <3>2
    <3>. QED
      BY <1>2, <2>2, <3>1, <3>2
  <2>. QED
    BY <1>1, <2>2 DEF ReleaseInv, TagInv, ArtifactDiffers, SourceChanged, VersionAt
<1>5. ReleaseTypes' /\ NpmInv'
  BY <1>1 DEF ReleaseInv, ReleaseTypes, NpmInv, HeadSha, VersionAt
<1>6. PlanInv' /\ VerifiedInv'
  BY <1>1 DEF ReleaseInv, PlanInv, VerifiedInv, ApprovedHead, Planned, VersionAt, HeadSha,
              Candidates, Awaited, TagTarget
<1>. QED
  BY <1>4, <1>5, <1>6 DEF ReleaseInv

\* Every step keeps ReleaseInv.
LEMMA ReleaseNextInv == ASSUME ReleaseInv, [ReleaseNext]_releaseVars PROVE ReleaseInv'
<1>1. CASE UNCHANGED releaseVars
  <2>1. UNCHANGED <<history, npm, tags, releases, approved, job>>
    BY <1>1 DEF releaseVars
  <2>. QED
    BY <2>1, WorldKept DEF ReleaseInv
<1>2. CASE Commit
  BY <1>2, CommitInv
<1>3. CASE Dispatch
  BY <1>3, DispatchInv
<1>4. CASE JobFails \/ Rerun \/ VerifyHead \/ RefreshPrepared \/ AllPublished \/ AllAnnounced
           \/ RegistryCatchesUp
  BY <1>4, DecisionInv
<1>5. CASE RefreshBootstrap
  BY <1>5, RefreshBootstrapInv
<1>6. CASE Publish
  BY <1>6, PublishInv
<1>7. CASE VerifyPrepared
  BY <1>7, VerifyPreparedInv
<1>8. CASE VerifyBootstrap
  BY <1>8, VerifyBootstrapInv
<1>9. CASE PushTags
  BY <1>9, PushTagsInv
<1>10. CASE Announce
  BY <1>10, AnnounceInv
<1>. QED
  BY <1>1, <1>2, <1>3, <1>4, <1>5, <1>6, <1>7, <1>8, <1>9, <1>10 DEF ReleaseNext, JobStep

\* Under a prepared plan a tag moves only from nowhere to npm's commit, when
\* npm has all that the plan releases.
LEMMA PreparedTags ==
    ASSUME ReleaseInv, [ReleaseNext]_releaseVars, approved.operation = "release",
           NEW p \in Released, NEW v \in Versions, tags'[p][v] # tags[p][v]
    PROVE  /\ tags[p][v] = 0 /\ tags'[p][v] = npm[p][v]
           /\ \A q \in Released : Planned(q) => npm[q][approved.packages[q].new] # 0
<1>1. PushTags
  BY DEF ReleaseNext, JobStep, Commit, Dispatch, Rerun, JobFails, RegistryCatchesUp, VerifyHead,
         RefreshPrepared, RefreshBootstrap, Publish, AllPublished, VerifyPrepared,
         VerifyBootstrap, Announce, AllAnnounced, World, releaseVars
<1>2. tags[p][v] = 0 /\ tags'[p][v] = npm[p][v]
  BY <1>1, PushTagsEffect
<1>3. job = "tag"
  BY <1>1 DEF PushTags, JobAt
<1>4. \A q \in Candidates : npm[q][approved.packages[q].new] # 0
  BY <1>3 DEF ReleaseInv, VerifiedInv
<1>. QED
  BY <1>2, <1>4 DEF Candidates

\* The invariant of the release tool, whose variables stay as they are while
\* the other tool is followed.
LEMMA ReleaseHolds == ToolsSpec => []ReleaseInv
<1>1. ToolsInit => ReleaseInv
  BY ReleaseInitInv DEF ToolsInit
<1>2. ReleaseInv /\ [ToolsNext]_toolsVars => ReleaseInv'
  BY ReleaseNextInv DEF ToolsNext, toolsVars
<1>. QED
  BY <1>1, <1>2, PTL DEF ToolsSpec

\* For any packages, versions, commits and failures: tags name what npm has, at the same
\* source, GitHub Releases have their tags, and a prepared release tags a version once, at
\* npm's commit, when npm has everything the plan releases.
THEOREM ReleasesAreAsApproved == ToolsSpec => ReleasedAsApproved
<1>. DEFINE Published == \A p \in Released, v \in Versions :
              /\ tags[p][v] # 0 => npm[p][v] # 0 /\ ~ArtifactDiffers(npm[p][v], tags[p][v], p, v)
              /\ <<p, v>> \in releases => tags[p][v] # 0
            Moves == approved.operation = "release" => \A p \in Released, v \in Versions :
              tags'[p][v] # tags[p][v] =>
                  /\ tags[p][v] = 0 /\ tags'[p][v] = npm[p][v]
                  /\ \A q \in Released : Planned(q) => npm[q][approved.packages[q].new] # 0
<1>1. ReleaseInv => Published
  BY DEF ReleaseInv, TagInv
<1>2. ReleaseInv /\ [ToolsNext]_toolsVars => [Moves]_tags
  <2>. SUFFICES ASSUME ReleaseInv, [ToolsNext]_toolsVars PROVE Moves
    OBVIOUS
  <2>1. [ReleaseNext]_releaseVars
    BY DEF ToolsNext, toolsVars
  <2>. QED
    BY <2>1, PreparedTags
<1>3. ToolsSpec => []Published /\ [][Moves]_tags
  <2>. HIDE DEF Published, Moves
  <2>. QED
    BY <1>1, <1>2, ReleaseHolds, PTL DEF ToolsSpec
<1>. QED
  BY <1>3 DEF ReleasedAsApproved
=============================================================================
