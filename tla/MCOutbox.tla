------------------------------ MODULE MCOutbox -------------------------------
(* Instances of Outbox for TLC.                                            *)
EXTENDS Outbox, TLC

CONSTANTS w1, w2, t1, t2, t3, t4

TokenSymmetry == Permutations(Tokens)

\* Both clocks agree, or the second worker's runs one tick ahead.
NoSkew  == [w \in Workers |-> 0]
AheadW2 == [w \in Workers |-> IF w = w2 THEN 1 ELSE 0]
==============================================================================
