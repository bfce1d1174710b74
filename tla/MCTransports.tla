---------------------------- MODULE MCTransports ----------------------------
EXTENDS Transports, TLC
CONSTANTS c1, c2, t1, t2, p1, p2, g1, g2, m1, m2, s1, s2, grp
OneGroup   == s1 :> grp @@ s2 :> grp
TopicsOf   == m1 :> s1 @@ m2 :> s2
\* Two messages and one fault, or no message and two.
TwoLoads   == {{}, {m1, m2}}
FaultsOf   == {} :> 2 @@ {m1, m2} :> 1
\* Two calls in one process or in two, for one topic or two.
TwoHomes   == {c1 :> p1 @@ c2 :> p1, c1 :> p1 @@ c2 :> p2}
TwoWishes  == {c1 :> t1 @@ c2 :> t1, c1 :> t1 @@ c2 :> t2}
FirstIsBad == {<<t1, 1>>}
EachItsArn == c1 :> t1 @@ c2 :> t2
SameTopic  == c1 :> t1 @@ c2 :> t1
TwoGroups  == c1 :> g1 @@ c2 :> g2
=============================================================================
