--------------------------- MODULE WorkspaceGraph ---------------------------
(***************************************************************************)
(* tools/workspace-packages.js: the graph of the internal dependencies of  *)
(* the publishable packages, its check for cycles (a depth-first visit)    *)
(* and its dependency-first order.  A package is a number, and numbers are *)
(* ordered as compareStrings orders the names.                             *)
(***************************************************************************)
EXTENDS Integers, Sequences, FiniteSets, FiniteSetsExt

CONSTANT NumPackages

ASSUME WorkspaceAssumption == NumPackages \in Nat \ {0}

Packages == 1 .. NumPackages

VARIABLES
    dependencies,       \* graph.dependencies
    outdated,           \* dependencies whose range excludes the target's version
    stage,              \* how far the tool has come
    stack, done,        \* of visit(): the names being visited, those that are done
    indegree, ready,    \* of sortWorkspacePackages()
    ordered             \* the dependency-first order

graphVars == <<dependencies, outdated, stage, stack, done, indegree, ready, ordered>>

Dependents(p) == {q \in Packages : p \in dependencies[q]}

\* Any internal dependencies, at most one of them with a range that no
\* longer fits.
GraphInit ==
    /\ dependencies \in [Packages -> SUBSET Packages]
    /\ outdated \in {o \in {{}} \cup {{e} : e \in Packages \X Packages} :
                        \A e \in o : e[2] \in dependencies[e[1]]}
    /\ stage = "graph"
    /\ stack = <<>> /\ done = {}
    /\ indegree = [p \in Packages |-> 0] /\ ready = {} /\ ordered = <<>>

Reject == stage' = "rejected" /\ UNCHANGED <<stack, done, indegree, ready, ordered>>

\* buildWorkspaceGraph() throws at the first range that does not fit.
BuildGraph ==
    /\ stage = "graph"
    /\ \/ outdated # {} /\ Reject
       \/ outdated = {} /\ stage' = "visit" /\ UNCHANGED <<stack, done, indegree, ready, ordered>>
    /\ UNCHANGED <<dependencies, outdated>>

Top == stack[Len(stack)]
ToVisit == IF stack = <<>> THEN Packages \ done ELSE dependencies[Top] \ done

\* visit(name) of the next name that is not done: a name being visited closes
\* a cycle.
Visit ==
    /\ stage = "visit" /\ ToVisit # {}
    /\ \E name \in {Min(ToVisit)} :
          \/ name \in {stack[i] : i \in DOMAIN stack} /\ Reject
          \/ /\ name \notin {stack[i] : i \in DOMAIN stack}
             /\ stack' = Append(stack, name)
             /\ UNCHANGED <<stage, done, indegree, ready, ordered>>
    /\ UNCHANGED <<dependencies, outdated>>

\* Every dependency of the name was visited.
VisitEnds ==
    /\ stage = "visit" /\ ToVisit = {} /\ stack # <<>>
    /\ stack' = SubSeq(stack, 1, Len(stack) - 1)
    /\ done' = done \cup {Top}
    /\ UNCHANGED <<dependencies, outdated, stage, indegree, ready, ordered>>

StartSort ==
    /\ stage = "visit" /\ ToVisit = {} /\ stack = <<>>
    /\ stage' = "sort"
    /\ indegree' = [p \in Packages |-> Cardinality(dependencies[p])]
    /\ ready' = {p \in Packages : dependencies[p] = {}}
    /\ UNCHANGED <<dependencies, outdated, stack, done, ordered>>

\* The dependents whose last dependency was taken.
Freed_early(name) == {q \in Dependents(name) : indegree[q] = Cardinality(dependencies[q])}
Freed(name) == {q \in Dependents(name) : indegree[q] = 1}

TakeReady ==
    /\ stage = "sort" /\ ready # {}
    /\ \E name \in {Min(ready)} :
          /\ ordered' = Append(ordered, name)
          /\ indegree' = [q \in Packages |-> IF q \in Dependents(name) THEN indegree[q] - 1
                                             ELSE indegree[q]]
          /\ ready' = (ready \ {name}) \cup Freed(name)
    /\ UNCHANGED <<dependencies, outdated, stage, stack, done>>

\* 'Workspace dependency graph could not be ordered.'
SortEnds ==
    /\ stage = "sort" /\ ready = {}
    /\ stage' = IF Len(ordered) = NumPackages THEN "sorted" ELSE "rejected"
    /\ UNCHANGED <<dependencies, outdated, stack, done, indegree, ready, ordered>>

GraphNext == BuildGraph \/ Visit \/ VisitEnds \/ StartSort \/ TakeReady \/ SortEnds

-----------------------------------------------------------------------------
\* No set of packages in which each depends on another: what a graph without
\* cycles is, independently of the visit.
Acyclic == \A S \in (SUBSET Packages) \ {{}} : \E p \in S : dependencies[p] \cap S = {}

\* p depends on q, directly or through others.
DependsOn(p, q) ==
    \A S \in SUBSET Packages :
        (dependencies[p] \subseteq S /\ \A x \in S : dependencies[x] \subseteq S) => q \in S
=============================================================================
