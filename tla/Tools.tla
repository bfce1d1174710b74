------------------------------- MODULE Tools -------------------------------
(***************************************************************************)
(* One run of the repository's tools: a behaviour is one pull request that *)
(* is validated or one history of releases; the variables of the other     *)
(* stay as they began.                                                     *)
(***************************************************************************)
EXTENDS AffectedValidation, Release

VARIABLE tool

toolsVars == <<affectedVars, releaseVars, tool>>

\* A tool that is not followed begins in one way only.
ToolsInit ==
    /\ tool \in {"affected-validation", "release-tool"}
    /\ AffectedInit /\ ReleaseInit
    /\ tool = "affected-validation" => \A p \in Released : Latest(p) = 0
    /\ tool = "release-tool" => \A p \in Packages : dependencies[p] = {}

ToolsNext ==
    \/ tool = "affected-validation" /\ AffectedNext /\ UNCHANGED <<releaseVars, tool>>
    \/ tool = "release-tool" /\ ReleaseNext /\ UNCHANGED <<affectedVars, tool>>

ToolsSpec ==
    /\ ToolsInit /\ [][ToolsNext]_toolsVars
    /\ WF_toolsVars(tool = "release-tool" /\ ReleaseGoesOn /\ UNCHANGED <<affectedVars, tool>>)
    /\ WF_toolsVars(tool = "release-tool" /\ RegistryCatchesUp /\ UNCHANGED <<affectedVars, tool>>)
=============================================================================
