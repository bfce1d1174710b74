------------------------- MODULE AffectedValidation -------------------------
(***************************************************************************)
(* tools/affected-validation.js over the graph of WorkspaceGraph: from the *)
(* changed files to the plan of a pull request, and the run of its gates,  *)
(* each of which may fail.  Changed files that lead to the same plan are   *)
(* one kind; every package, and the test application, has unit tests.      *)
(***************************************************************************)
EXTENDS WorkspaceGraph

CONSTANTS
    ChangeSets,         \* the sets of changed files, [owner, kind], owner 0 for the root
    TestingPackage,     \* @mikara89/cap-testing
    AppImports,         \* the packages apps/cap-test-app imports
    FrameworkPackages, StoragePackages, PrismaPackages, SmokeNestPackages, DashboardParts,
    ContractWords,      \* cap-core and cap-testing: a storage word in the path is enough
    SmokeOf             \* package -> its own pack smoke gate, or "none"

ASSUME AffectedAssumption ==
    /\ \A files \in ChangeSets : \A f \in files : f.owner \in 0 .. NumPackages
    /\ TestingPackage \in Packages /\ AppImports \subseteq Packages

VARIABLES
    changes,            \* the changed files
    selection,          \* the plan
    gate,               \* the place the run has come to in the order of the gates
    turn,               \* the place the gate has come to in the order of the packages
    built,              \* the packages built, in order
    tested, packed

affectedVars ==
    <<graphVars, changes, selection, gate, turn, built, tested, packed>>

-----------------------------------------------------------------------------
(* Classification of a changed file *)

RuntimeKinds == {"source", "storageSource", "nestSource", "index", "manifest", "buildConfig"}
TestKinds    == {"unitTest", "integrationTest", "databaseTest"}
PackageKinds == RuntimeKinds \cup TestKinds \cup {"readme", "guide"}
RootKinds    == {"globalBuild", "policy", "jestConfig", "docConfig", "smokeTool",
                 "app", "example", "databaseTest", "plain"}

IsRuntime(f)    == f.owner # 0 /\ f.kind \in RuntimeKinds
IsBuilt(f)      == f.owner # 0 /\ f.kind \in RuntimeKinds \cup TestKinds
IsUnitTested(f) == f.owner # 0 /\ f.kind \in RuntimeKinds \cup {"unitTest"}
IsPacked(f)     == f.owner # 0 /\ f.kind \in RuntimeKinds \cup {"readme"}
IsPublicApi(f)  == f.owner # 0 /\ f.kind \in {"index", "manifest"}
IsRoot(f, kind) == f = [owner |-> 0, kind |-> kind]
\* isDatabaseContractPath()
IsDatabase(f) ==
    \/ f.kind = "databaseTest"
    \/ f.kind = "manifest" /\ f.owner \in PrismaPackages
    \/ /\ f.owner \in StoragePackages
       /\ f.kind \in {"source", "storageSource", "nestSource", "index"}
    \/ f.owner \in ContractWords /\ f.kind = "storageSource"

SmokeGates == {"rabbitmqPackSmoke", "kafkaPackSmoke", "awsPackSmoke",
               "storageNestPackSmoke", "dashboardIsolationSmoke"}

\* The gates one changed file turns on by itself.
GatesOf(f) ==
    {g \in {"databaseIntegration"} : IsDatabase(f)}
    \cup {g \in {"apiDocs"} : IsRuntime(f) \/ IsRoot(f, "docConfig")}
    \cup {g \in {"examples"} :
            \/ IsPublicApi(f) \/ IsRoot(f, "example")
            \/ IsRuntime(f) /\ f.owner \in FrameworkPackages
            \/ f.kind = "nestSource" /\ f.owner \in StoragePackages}
    \cup {g \in {"e2e"} :
            \/ IsRuntime(f) /\ f.owner \in FrameworkPackages
            \/ IsRoot(f, "app")}
    \cup {g \in {"appBuild", "unitTests"} : IsRoot(f, "app")}
    \cup {g \in {"unitTests", "fullUnitTests"} : IsRoot(f, "jestConfig")}
    \cup {g \in {"releaseVerify", "releaseToolTests", "legacyNameTests"} : IsRoot(f, "policy")}
    \cup {g \in SmokeGates : IsPacked(f) /\ g = SmokeOf[f.owner]}
    \cup {g \in {"rabbitmqPackSmoke"} : IsRoot(f, "smokeTool")}
    \cup {g \in {"storageNestPackSmoke"} :
            f.owner \in SmokeNestPackages /\ f.kind \in {"manifest", "nestSource"}}
    \cup {g \in {"dashboardIsolationSmoke"} : IsRuntime(f) /\ f.owner \in DashboardParts}

-----------------------------------------------------------------------------
(* The plan *)

\* transitiveClosure(): what the seeds reach along the edges.
Closure_direct(seeds, edges) == seeds \cup UNION {edges[p] : p \in seeds}
Closure(seeds, edges) ==
    LET reach[n \in 0 .. NumPackages] ==
            IF n = 0 THEN seeds ELSE reach[n - 1] \cup UNION {edges[p] : p \in reach[n - 1]}
    IN  reach[NumPackages]

Owners(files) == {f.owner : f \in files}

AllGates == {"packageVerify", "affectedToolTests", "releaseVerify", "legacyNameTests",
             "releaseToolTests", "lint", "build", "appBuild", "examples", "apiDocs",
             "unitTests", "fullUnitTests", "e2e", "databaseIntegration", "packageDryRun",
             "workspaceLinks", "capNestTypecheck", "fallowAudit", "fallowHealth"}
            \cup SmokeGates

\* createPlanFromChangedFiles()
CompletePlan ==
    [global |-> TRUE, build |-> Packages, test |-> Packages, pack |-> Packages,
     gates |-> AllGates]

AffectedPlan(files) ==
    LET seeds(Is(_)) == Owners({f \in files : Is(f)})
        dependents == Closure(seeds(IsRuntime), [p \in Packages |-> Dependents(p)])
        gates == UNION {GatesOf(f) : f \in files}
        imports == IF "e2e" \in gates THEN AppImports ELSE {}
        helper == IF seeds(IsUnitTested) # {} THEN {TestingPackage} ELSE {}
        build == Closure(seeds(IsBuilt) \cup seeds(IsPacked) \cup imports \cup helper
                             \cup dependents, dependencies)
        test == seeds(IsUnitTested) \cup dependents
        pack == seeds(IsPacked)
    IN  [global |-> FALSE, build |-> build, test |-> test, pack |-> pack,
         gates |-> gates \cup {"packageVerify", "affectedToolTests", "lint"}
                       \cup {g \in {"build"} : build # {}}
                       \cup {g \in {"unitTests"} : test # {}}
                       \cup {g \in {"packageDryRun"} : pack # {}}]

PlanOf(files) ==
    IF \E f \in files : IsRoot(f, "globalBuild") THEN CompletePlan ELSE AffectedPlan(files)

\* The order of runAffectedValidation() and that of runCompleteValidation().
AffectedOrder ==
    <<"packageVerify", "affectedToolTests", "releaseVerify", "legacyNameTests",
      "releaseToolTests", "lint", "build", "appBuild", "examples", "apiDocs", "unitTests",
      "e2e", "databaseIntegration", "packageDryRun", "rabbitmqPackSmoke", "kafkaPackSmoke",
      "awsPackSmoke", "storageNestPackSmoke", "dashboardIsolationSmoke">>
CompleteOrder ==
    <<"packageVerify", "lint", "releaseVerify", "legacyNameTests", "releaseToolTests",
      "fallowAudit", "fallowHealth", "build", "examples", "apiDocs", "workspaceLinks",
      "capNestTypecheck", "unitTests", "e2e", "databaseIntegration", "packageDryRun",
      "rabbitmqPackSmoke", "kafkaPackSmoke", "awsPackSmoke", "storageNestPackSmoke",
      "dashboardIsolationSmoke">>
Order(plan) == IF plan.global THEN CompleteOrder ELSE AffectedOrder

-----------------------------------------------------------------------------
(* The run *)

NoSelection == [global |-> FALSE, build |-> {}, test |-> {}, pack |-> {}, gates |-> {}]

AffectedInit ==
    /\ GraphInit
    /\ changes = {} /\ selection = NoSelection
    /\ gate = 0 /\ turn = 0 /\ built = <<>> /\ tested = {} /\ packed = {}

GraphStep ==
    /\ GraphNext
    /\ UNCHANGED <<changes, selection, gate, turn, built, tested, packed>>

\* The next place in an order whose member is selected, or the place after the last.
NextIn(order, selected, place) ==
    Min({i \in place + 1 .. Len(order) : order[i] \in selected} \cup {Len(order) + 1})

GateAt(plan, place) == IF place \in DOMAIN Order(plan) THEN Order(plan)[place] ELSE "none"

\* The packages the gate goes through, one command each, dependency-first.
CommandsOf(plan, g) ==
    IF g = "build" THEN plan.build ELSE IF g = "packageDryRun" THEN plan.pack ELSE {}

\* On to the next gate of the plan, which begins with the first of its packages.
GoOn(plan, place) ==
    /\ gate' = NextIn(Order(plan), plan.gates, place)
    /\ turn' = NextIn(ordered, CommandsOf(plan, GateAt(plan, gate')), 0)

Plan ==
    /\ stage = "sorted"
    /\ stage' = "running"
    /\ \E files \in ChangeSets : changes' = files /\ selection' = PlanOf(files)
    /\ GoOn(selection', 0)
    /\ UNCHANGED <<dependencies, outdated, stack, done, indegree, ready, ordered,
                   built, tested, packed>>

AtGate(g) == stage = "running" /\ GateAt(selection, gate) = g
AllRun == turn > Len(ordered)
Untouched == UNCHANGED <<dependencies, outdated, stack, done, indegree, ready, ordered,
                         changes, selection>>

\* runWorkspaceScript() and packWorkspacePackages(): the command of one package.
BuildPackage ==
    /\ AtGate("build") /\ ~AllRun
    /\ built' = Append(built, ordered[turn])
    /\ turn' = NextIn(ordered, selection.build, turn)
    /\ UNCHANGED <<stage, gate, tested, packed>> /\ Untouched

PackPackage ==
    /\ AtGate("packageDryRun") /\ ~AllRun
    /\ packed' = packed \cup {ordered[turn]}
    /\ turn' = NextIn(ordered, selection.pack, turn)
    /\ UNCHANGED <<stage, gate, built, tested>> /\ Untouched

\* A gate passed, or it may fail without stopping the run.
GatePasses ==
    /\ stage = "running" /\ gate <= Len(Order(selection)) /\ AllRun
    /\ tested' = IF ~AtGate("unitTests") THEN tested
                 ELSE IF "fullUnitTests" \in selection.gates THEN Packages ELSE selection.test
    /\ GoOn(selection, gate)
    /\ UNCHANGED <<stage, built, packed>> /\ Untouched

\* A gate, or the command of one package, failed: the run throws.
GateFails ==
    /\ stage = "running" /\ gate <= Len(Order(selection)) /\ ~AtGate("fallowAudit")
    /\ stage' = "failed"
    /\ UNCHANGED <<gate, turn, built, tested, packed>> /\ Untouched

RunPasses ==
    /\ stage = "running" /\ gate > Len(Order(selection))
    /\ stage' = "passed"
    /\ UNCHANGED <<gate, turn, built, tested, packed>> /\ Untouched

AffectedNext ==
    GraphStep \/ Plan \/ BuildPackage \/ PackPackage \/ GatePasses \/ GateFails \/ RunPasses

AffectedSpec == AffectedInit /\ [][AffectedNext]_affectedVars

-----------------------------------------------------------------------------
(* Properties *)

BuiltBefore(i) == {built[j] : j \in 1 .. i - 1}
Built == BuiltBefore(Len(built) + 1)
WithDependencies(S) == S \cup {q \in Packages : \E p \in S : DependsOn(p, q)}

\* A graph is refused exactly when it has a cycle or a stale range; a package
\* is built only after all it depends on was built by the same run, so that a
\* clean runner needs nothing an earlier build left; selected tests and the
\* e2e suite run only when what they load was built, and only built packages
\* are packed.
PackagesInOrder ==
    /\ stage = "rejected" => ~Acyclic \/ outdated # {}
    /\ stage \in {"sorted", "running", "passed", "failed"} => Acyclic /\ outdated = {}
    /\ \A i \in DOMAIN built : dependencies[built[i]] \subseteq BuiltBefore(i)
    /\ AtGate("unitTests") /\ selection.test # {} =>
          WithDependencies(selection.test \cup {TestingPackage}) \subseteq Built
    /\ AtGate("e2e") => WithDependencies(AppImports) \subseteq Built
    /\ packed \subseteq Built

\* A run that passed covers what the change can break: the package of a
\* changed source and everything that depends on it, through any number of
\* packages, was built and tested, the packages whose archive changed were
\* packed, and a change of the build configuration took the whole workspace.
PassedIsCovered ==
    stage = "passed" => \A f \in changes :
        /\ IsRuntime(f) => \A p \in Packages :
               p = f.owner \/ DependsOn(p, f.owner) => p \in Built \cap tested
        /\ IsUnitTested(f) => f.owner \in Built \cap tested
        /\ IsPacked(f) => f.owner \in packed
        /\ IsRoot(f, "globalBuild") => tested \cap packed \cap Built = Packages
=============================================================================
