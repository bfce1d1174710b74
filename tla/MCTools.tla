------------------------------ MODULE MCTools ------------------------------
EXTENDS Tools, TLC
Files == [owner : Packages, kind : PackageKinds] \cup [owner : {0}, kind : RootKinds]
Common == {f \in Files : f.kind \in {"source", "unitTest", "readme", "jestConfig"}}
\* No change, one file, or one of any kind beside a common one.
OneOrTwoFiles == {{}} \cup {{f} : f \in Files} \cup {{f, g} : f \in Files, g \in Common}
\* An administrative commit, unprepared work, one or two prepared packages,
\* a package prepared with work on the other, one prepared without work.
SomeCommits == {<<{}, {}>>, <<{1}, {}>>, <<{2}, {2}>>, <<{1, 2}, {1, 2}>>,
                <<{1, 2}, {1}>>, <<{}, {1}>>}
ThirdIsKafka == <<"none", "none", "kafkaPackSmoke">>
=============================================================================
