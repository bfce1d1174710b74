------------------------------ MODULE Release ------------------------------
(***************************************************************************)
(* tools/release-tool.js under .github/workflows/release.yml, for the two  *)
(* operations the repository releases with: bootstrap and the prepared     *)
(* stable release.  A plan is approved at the head of main and executed by *)
(* a job that checks it again, publishes what npm lacks, verifies npm,     *)
(* pushes the tags and creates the GitHub Releases; the job may fail       *)
(* between any two steps, main may advance, and npm shows a version some   *)
(* time after it took it.                                                  *)
(***************************************************************************)
EXTENDS Integers, Sequences, FiniteSets, FiniteSetsExt

CONSTANTS
    Released,           \* the packages, numbered as compareStrings orders their names
    Commits,            \* <<packages edited, packages prepared>> of a commit of main
    MaxVersion, MaxCommits,
    MaxFailures         \* bound on steps of the job that fail

ASSUME ReleaseAssumption ==
    /\ Released \subseteq Nat
    /\ {MaxVersion, MaxCommits} \subseteq Nat \ {0} /\ MaxFailures \in Nat

VARIABLES
    history,            \* main: per commit each package's source and manifest version
    npm,                \* package -> version -> gitHead, or 0
    unseen,             \* versions npm took and does not show yet
    tags,               \* package -> version -> commit of its tag on origin, or 0
    releases,           \* the GitHub Releases
    approved,           \* the plan, or NoPlan
    job,                \* how far its execution has come
    promised,           \* history: <<package, version, head of the plan>> a job began to tag
    failures

releaseVars == <<history, npm, unseen, tags, releases, approved, job, promised, failures>>

Versions == 1 .. MaxVersion
HeadSha == Len(history)
VersionAt(c, p) == history[c].version[p]

NoItem == [old |-> 0, new |-> 0, action |-> "none", base |-> 0, target |-> 0]
NoPlan == [operation |-> "none", headSha |-> 0, packages |-> [p \in Released |-> NoItem],
           moves |-> {}]
Planned(p) == approved.packages[p] # NoItem

\* The first version of a package is on npm, with its tag or without, or the
\* package is new.
ReleaseInit ==
    /\ history = <<[source  |-> [p \in Released |-> 0], version |-> [p \in Released |-> 1]]>>
    /\ \E old \in SUBSET Released : \E tagged \in SUBSET old :
          /\ npm = [p \in Released |-> [v \in Versions |-> IF p \in old /\ v = 1 THEN 1 ELSE 0]]
          /\ tags = [p \in Released |-> [v \in Versions |-> IF p \in tagged /\ v = 1 THEN 1 ELSE 0]]
    /\ unseen = {} /\ releases = {} /\ approved = NoPlan /\ job = "idle" /\ promised = {}
    /\ failures = 0

-----------------------------------------------------------------------------
(* main *)

\* A commit changes some sources and prepares some versions; an
\* administrative one does neither.
Commit ==
    /\ HeadSha < MaxCommits
    /\ \E commit \in Commits :
          LET edited == commit[1]
              prepared == commit[2]
          IN
          /\ \A p \in prepared : VersionAt(HeadSha, p) < MaxVersion
          /\ history' = Append(history,
                [source  |-> [p \in Released |-> history[HeadSha].source[p] +
                                                 IF p \in edited THEN 1 ELSE 0],
                 version |-> [p \in Released |-> VersionAt(HeadSha, p) +
                                                 IF p \in prepared THEN 1 ELSE 0]])
    /\ UNCHANGED <<npm, unseen, tags, releases, approved, job, promised, failures>>

\* sourceFilesChanged() with ignoreVersion, and with an expected version.
SourceChanged(base, head, p) == history[base].source[p] # history[head].source[p]
ArtifactDiffers(base, head, p, v) == SourceChanged(base, head, p) \/ VersionAt(head, p) # v

-----------------------------------------------------------------------------
(* Planning *)

\* registryMetadata()
Seen(p, v) == npm[p][v] # 0 /\ <<p, v>> \notin unseen
SeenVersions(p) == {v \in Versions : Seen(p, v)}
Latest(p) == Max({0} \cup SeenVersions(p))
Baseline(p, v) == Max({0} \cup {w \in SeenVersions(p) : w < v})

\* buildPreparedPackages(): p is not selected (again: a version complete at
\* the approved head is selected all the same).
Unselected(p, head, again) ==
    LET v == VersionAt(head, p) IN
    /\ Seen(p, v) /\ tags[p][v] # 0
    /\ ~(again /\ npm[p][v] = head /\ tags[p][v] = head)

\* A published version that may not be skipped or finalized.
UnfitPublished(p, head) ==
    LET v == VersionAt(head, p)
        gitHead == npm[p][v]
        tag == tags[p][v]
    IN  /\ Seen(p, v)
        /\ \/ v # Latest(p)
           \/ tag # 0 /\ gitHead # tag /\ ArtifactDiffers(gitHead, tag, p, v)
           \/ SourceChanged(gitHead, head, p)

\* The version is not newer than npm's, or what it follows has no trusted
\* baseline tag or the same source.
UnfitBaseline(p, head) ==
    LET v == VersionAt(head, p)
        baseline == Baseline(p, v)
        gitHead == npm[p][baseline]
        tag == tags[p][baseline]
    IN  \/ ~Seen(p, v) /\ v <= Latest(p)
        \/ baseline = 0
        \/ tag = 0
        \/ gitHead # tag /\ ArtifactDiffers(gitHead, tag, p, baseline)
        \/ ~SourceChanged(gitHead, head, p)

PreparedFails(p, head, again) ==
    \/ Latest(p) = 0
    \/ UnfitPublished(p, head)
    \/ ~Unselected(p, head, again) /\ UnfitBaseline(p, head)

PreparedItem(p, head, again) ==
    LET v == VersionAt(head, p)
        baseline == Baseline(p, v)
    IN  IF Unselected(p, head, again) THEN NoItem
        ELSE [old |-> baseline, new |-> v, base |-> npm[p][baseline],
              action |-> IF Seen(p, v) THEN "skip-existing" ELSE "publish",
              target |-> IF Seen(p, v) THEN npm[p][v] ELSE head]

\* buildBootstrapPackages()
Anchored(p, head, anchor) ==
    LET v == VersionAt(head, p) IN
    anchor /\ Seen(p, v) /\ npm[p][v] # head /\ ~ArtifactDiffers(npm[p][v], head, p, v)

BootstrapItem(p, head, anchor) ==
    LET v == VersionAt(head, p) IN
    [old |-> v, new |-> v, base |-> IF Seen(p, v) THEN npm[p][v] ELSE 0,
     action |-> IF Seen(p, v) THEN "skip-existing" ELSE "publish",
     target |-> IF Seen(p, v) /\ ~Anchored(p, head, anchor) THEN npm[p][v] ELSE head]

BootstrapFails(p, head, anchor) ==
    LET v == VersionAt(head, p)
        target == BootstrapItem(p, head, anchor).target
        tag == tags[p][v]
    IN  \/ ~Seen(p, v) /\ Latest(p) >= v
        \/ Seen(p, v) /\ Latest(p) # v
        \/ VersionAt(target, p) # v
        \/ /\ tag # 0 /\ tag # target
           /\ ~(Seen(p, v) /\ tag = npm[p][v])
           /\ ~(Anchored(p, head, anchor) /\ ~ArtifactDiffers(npm[p][v], tag, p, v))

PlanFails(operation, head) ==
    \E p \in Released : IF operation = "bootstrap" THEN BootstrapFails(p, head, TRUE)
                        ELSE PreparedFails(p, head, FALSE)
ItemsOf(operation, head) ==
    [p \in Released |-> IF operation = "bootstrap" THEN BootstrapItem(p, head, TRUE)
                        ELSE PreparedItem(p, head, FALSE)]

\* The packages of a bootstrap whose tagAction is "move".
MovesOf(operation, head) ==
    {p \in Released : /\ operation = "bootstrap"
                      /\ tags[p][VersionAt(head, p)] \notin {0, BootstrapItem(p, head, TRUE).target}}

TaggedOnOrigin == \E p \in Released : Planned(p) /\ tags[p][approved.packages[p].new] # 0

\* docs/release.md, Recovery: a first plan, a plan of a newer main, or, when
\* the last one was refused or failed before any of its tags was on origin,
\* the same operation again.
MayDispatch(operation) ==
    \/ job = "idle"
    \/ job \in {"done", "failed", "refused"} /\ HeadSha # approved.headSha
    \/ job = "refused" /\ operation = approved.operation
    \/ job = "failed" /\ operation = approved.operation /\ ~TaggedOnOrigin

\* createPlan(), validated and approved; a plan that fails leaves nothing.
Dispatch ==
    /\ \E operation \in {"bootstrap", "release"} :
          /\ MayDispatch(operation) /\ ~PlanFails(operation, HeadSha)
          /\ approved' = [operation |-> operation, headSha |-> HeadSha,
                          packages |-> ItemsOf(operation, HeadSha),
                          moves |-> MovesOf(operation, HeadSha)]
    /\ job' = "approved"
    /\ UNCHANGED <<history, npm, unseen, tags, releases, promised, failures>>

-----------------------------------------------------------------------------
(* executePlan() *)

ApprovedHead == approved.headSha
JobAt(step) == job = step
Goes(step) == job' = step
World == <<history, npm, unseen, tags, releases, approved, promised>>

\* A step failed, the attempts to see npm's versions ended, or the runner
\* died: the job may be run again.
JobFails ==
    /\ job \notin {"idle", "done", "failed", "refused", "approved"}
    /\ failures < MaxFailures
    /\ failures' = failures + 1
    /\ Goes("failed") /\ UNCHANGED World

Rerun ==
    /\ JobAt("failed") /\ Goes("approved") /\ UNCHANGED <<World, failures>>

\* verifyHead(), and the plan that has nothing to do.
VerifyHead ==
    /\ JobAt("approved")
    /\ Goes(IF HeadSha # ApprovedHead THEN "failed"
            ELSE IF \A p \in Released : ~Planned(p) THEN "done" ELSE "verified")
    /\ UNCHANGED <<World, failures>>

\* What the plan is compared by; a version complete at the head stays in the
\* refreshed plan, so that an interrupted job can be run again.
Refreshed_dropped(p) == PreparedItem(p, ApprovedHead, FALSE)
Refreshed(p) == PreparedItem(p, ApprovedHead, TRUE)
SameItem(a, b) == a.old = b.old /\ a.new = b.new /\ a.base = b.base /\ a.target = b.target

\* 'Prepared package or npm registry state changed after approval; generate a
\* new plan.'
PreparedStands ==
    \A p \in Released :
        ~PreparedFails(p, ApprovedHead, TRUE) /\ SameItem(Refreshed(p), approved.packages[p])

RefreshPrepared ==
    /\ JobAt("verified") /\ approved.operation = "release"
    /\ Goes(IF PreparedStands THEN "publish" ELSE "refused")
    /\ UNCHANGED <<World, failures>>

\* createBootstrapTags(): a tag of the names that is absent or moves.
TagTarget_atHead(p) == ApprovedHead
TagTarget(p) == approved.packages[p].target
Tagged(names) ==
    [p \in Released |-> [v \in Versions |->
        IF p \in names /\ v = approved.packages[p].new THEN TagTarget(p) ELSE tags[p][v]]]

BootstrapStands ==
    \A p \in Released : ~BootstrapFails(p, ApprovedHead, TRUE)
                        /\ BootstrapItem(p, ApprovedHead, TRUE) = approved.packages[p]

\* An earlier attempt moved the tag already: it is not deleted this time, and
\* `git tag -a` fails on it before anything is pushed.
AlreadyMoved == \E p \in approved.moves : tags[p][approved.packages[p].new] = TagTarget(p)

\* The tags of what npm has already are created or moved before anything is
\* published; a push that fails may have taken some.
RefreshBootstrap ==
    /\ JobAt("verified") /\ approved.operation = "bootstrap"
    /\ \/ /\ ~BootstrapStands /\ Goes("refused")
          /\ UNCHANGED <<tags, failures>>
       \/ /\ BootstrapStands /\ AlreadyMoved /\ Goes("failed")
          /\ UNCHANGED <<tags, failures>>
       \/ /\ BootstrapStands /\ ~AlreadyMoved /\ Goes("publish")
          /\ tags' = Tagged({p \in Released : approved.packages[p].action = "skip-existing"})
          /\ UNCHANGED failures
       \/ /\ BootstrapStands /\ ~AlreadyMoved /\ failures < MaxFailures /\ Goes("failed")
          /\ \E some \in SUBSET {p \in Released : approved.packages[p].action = "skip-existing"} :
                tags' = Tagged(some)
          /\ failures' = failures + 1
    /\ UNCHANGED <<history, npm, unseen, releases, approved, promised>>

\* Lerna's from-package: the versions npm lacks, one by one, with the gitHead
\* of the plan.  npm refuses a version it took before.
Missing == {p \in Released : npm[p][VersionAt(ApprovedHead, p)] = 0}

Publish ==
    /\ JobAt("publish")
    /\ \E p \in Missing :
          /\ npm' = [npm EXCEPT ![p][VersionAt(ApprovedHead, p)] = ApprovedHead]
          /\ unseen' = unseen \cup {<<p, VersionAt(ApprovedHead, p)>>}
    /\ UNCHANGED <<history, tags, releases, approved, job, promised, failures>>

AllPublished ==
    /\ JobAt("publish") /\ Missing = {} /\ Goes("published")
    /\ UNCHANGED <<World, failures>>

\* npm shows what it took.
RegistryCatchesUp ==
    /\ \E version \in unseen : unseen' = unseen \ {version}
    /\ UNCHANGED <<history, npm, tags, releases, approved, job, promised, failures>>

\* waitForPublishedTargets()
Awaited == {p \in Released : approved.packages[p].action = "publish"}
Visible == \A p \in Awaited : Seen(p, approved.packages[p].new) /\ Latest(p) = approved.packages[p].new
OtherHead == \E p \in Awaited : Seen(p, approved.packages[p].new) /\ npm[p][approved.packages[p].new] # ApprovedHead

\* The final buildBootstrapPackages(), which anchors no tag, and what it must
\* find of every package of the plan.
PublishedAsPlanned ==
    /\ \A p \in Released : ~BootstrapFails(p, ApprovedHead, FALSE)
    /\ \A p \in Released : Planned(p) =>
          LET found == BootstrapItem(p, ApprovedHead, FALSE) IN
          /\ found.action = "skip-existing" /\ found.new = approved.packages[p].new
          /\ found.base = approved.packages[p].target
          /\ found.target = approved.packages[p].target

VerifyPrepared ==
    /\ JobAt("published") /\ approved.operation = "release"
    /\ \/ OtherHead /\ Goes("failed")
       \/ ~OtherHead /\ Visible /\ Goes(IF PublishedAsPlanned THEN "tag" ELSE "failed")
    /\ UNCHANGED <<World, failures>>

\* The bootstrap does not wait: it tags what it published if npm shows it.
BootstrapPublished ==
    /\ \A p \in Released : ~BootstrapFails(p, ApprovedHead, TRUE)
    /\ \A p \in Awaited :
          LET found == BootstrapItem(p, ApprovedHead, TRUE) IN
          /\ found.action = "skip-existing" /\ found.base = TagTarget(p)
          /\ found.target = TagTarget(p)

VerifyBootstrap ==
    /\ JobAt("published") /\ approved.operation = "bootstrap"
    /\ Goes(IF Awaited = {} THEN "done" ELSE IF BootstrapPublished THEN "tag" ELSE "failed")
    /\ UNCHANGED <<World, failures>>

\* createBootstrapTags() of what the plan released: the push is not atomic.
Candidates == IF approved.operation = "release" THEN {p \in Released : Planned(p)} ELSE Awaited
PushTags ==
    /\ JobAt("tag")
    /\ promised' = promised \cup
          {<<p, approved.packages[p].new, ApprovedHead>> :
              p \in {q \in Candidates : approved.operation = "release"}}
    /\ \/ /\ tags' = Tagged(Candidates)
          /\ Goes(IF approved.operation = "release" THEN "announce" ELSE "done")
          /\ UNCHANGED failures
       \/ /\ failures < MaxFailures /\ failures' = failures + 1
          /\ \E some \in SUBSET Candidates : tags' = Tagged(some)
          /\ Goes("failed")
    /\ UNCHANGED <<history, npm, unseen, releases, approved>>

\* createGitHubReleases(): one after the other, those that exist are skipped.
Unannounced == {p \in Candidates : <<p, approved.packages[p].new>> \notin releases}
Announce ==
    /\ JobAt("announce") /\ Unannounced # {}
    /\ \E p \in {Min(Unannounced)} : releases' = releases \cup {<<p, approved.packages[p].new>>}
    /\ UNCHANGED <<history, npm, unseen, tags, approved, job, promised, failures>>

AllAnnounced ==
    /\ JobAt("announce") /\ Unannounced = {} /\ Goes("done")
    /\ UNCHANGED <<World, failures>>

JobStep ==
    \/ VerifyHead \/ RefreshPrepared \/ RefreshBootstrap \/ Publish \/ AllPublished
    \/ VerifyPrepared \/ VerifyBootstrap \/ PushTags \/ Announce \/ AllAnnounced

ReleaseNext ==
    \/ Commit \/ Dispatch \/ Rerun \/ JobFails \/ RegistryCatchesUp \/ JobStep

\* What the runner and the one who releases owe a plan: its job goes on, a
\* failed one is run again, a refused plan is made anew.
ReleaseGoesOn == JobStep \/ Rerun \/ (job = "refused" /\ Dispatch)

ReleaseSpec ==
    /\ ReleaseInit /\ [][ReleaseNext]_releaseVars
    /\ WF_releaseVars(ReleaseGoesOn) /\ WF_releaseVars(RegistryCatchesUp)

-----------------------------------------------------------------------------
(* Properties *)

\* A tag names a version npm has, at a commit that has its source and its
\* version, and a GitHub Release has its tag, whatever failed and was run
\* again; a prepared release tags a version once, at the commit npm recorded
\* for it, and only when npm has everything the plan releases.
ReleasedAsApproved ==
    /\ [](\A p \in Released, v \in Versions :
            /\ tags[p][v] # 0 => npm[p][v] # 0 /\ ~ArtifactDiffers(npm[p][v], tags[p][v], p, v)
            /\ <<p, v>> \in releases => tags[p][v] # 0)
    /\ [][approved.operation = "release" => \A p \in Released, v \in Versions :
            tags'[p][v] # tags[p][v] =>
                /\ tags[p][v] = 0 /\ tags'[p][v] = npm[p][v]
                /\ \A q \in Released : Planned(q) => npm[q][approved.packages[q].new] # 0]_tags

\* A bootstrap moved the tag of a version away from npm's gitHead.
Moved == \E p \in Released, v \in Versions : tags[p][v] \notin {0, npm[p][v]}
\* A plan for this head also finalized what npm has from an ancestor.
Finalized == \E r \in promised : r[3] = HeadSha /\ npm[r[1]][r[2]] # r[3]
\* The plan was refused and main is not in a state a plan can be made for.
Blocked == job = "refused" /\ PlanFails(approved.operation, HeadSha)
Complete == job = "done" /\ \A r \in promised : r[3] = HeadSha => <<r[1], r[2]>> \in releases

\* A release that main does not overtake ends with everything published,
\* tagged and announced, whatever step of it failed and was run again.  It
\* need not after a bootstrap moved a tag, nor when the plan finalizes an
\* ancestor (see the README).
ReleaseFinishes ==
    <>[](job = "idle" \/ HeadSha # ApprovedHead \/ Moved \/ Finalized \/ Blocked \/ Complete)
=============================================================================
