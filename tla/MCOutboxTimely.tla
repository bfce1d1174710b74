--------------------------- MODULE MCOutboxTimely ----------------------------
(* Instances of OutboxTimely for TLC.                                      *)
EXTENDS OutboxTimely, TLC

CONSTANTS w1, w2, t1, t2, t3, t4

TokenSymmetry == Permutations(Tokens)

NoSkew == [w \in Workers |-> 0]
==============================================================================
