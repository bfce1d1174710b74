--------------------------- MODULE MCOutboxDirect ----------------------------
(* Instances of OutboxDirect for TLC.                                      *)
EXTENDS OutboxDirect, TLC

CONSTANTS w1, w2, t1, t2, t3

TokenSymmetry == Permutations(Tokens)

NoSkew == [w \in Workers |-> 0]
==============================================================================
