----------------------- MODULE MCSubscriptionLifecycle -----------------------
(* Instances of CapExpress and of the engine alone for TLC.                *)
EXTENDS CapExpress

CONSTANTS s1, s2, a1, a2, a3, u1, u2, u3
==============================================================================
