------------------------- MODULE MCRabbitSubscriber -------------------------
EXTENDS RabbitSubscriber, TLC
CONSTANTS s1, s2, grp, m1, m2
OneGroup  == s1 :> grp @@ s2 :> grp
TopicsOf  == m1 :> s1 @@ m2 :> s2
BothLoaded == {{m1, m2}}
TwoFaults == {m1, m2} :> 2
=============================================================================
