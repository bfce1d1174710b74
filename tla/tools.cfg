SPECIFICATION ToolsSpec
CONSTANTS
    NumPackages = 3
    ChangeSets <- OneOrTwoFiles
    TestingPackage = 2
    AppImports = {3}
    FrameworkPackages = {1, 3}
    StoragePackages = {2}
    PrismaPackages = {2}
    SmokeNestPackages = {2}
    DashboardParts = {1}
    ContractWords = {1}
    SmokeOf <- ThirdIsKafka
    Released = {1, 2}
    Commits <- SomeCommits
    MaxVersion = 2
    MaxCommits = 3
    MaxFailures = 2
CHECK_DEADLOCK FALSE
INVARIANTS
    PackagesInOrder PassedIsCovered
PROPERTIES
    ReleasedAsApproved ReleaseFinishes
