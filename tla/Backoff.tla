------------------------------- MODULE Backoff -------------------------------
(***************************************************************************)
(* Retry delays: expJitter of libs/cap-core/src/engine/backoff.ts.  A      *)
(* delay is base * 2^attempt plus a random jitter below one base, capped.  *)
(* The random draw makes the result a set of possible delays.              *)
(***************************************************************************)
EXTENDS Integers

CONSTANTS
    BaseDelay,      \* baseMs, in clock ticks
    MaxDelay        \* maxMs, in clock ticks

ASSUME BackoffAssumption ==
    /\ BaseDelay \in Nat \ {0}
    /\ MaxDelay \in Nat \ {0}

Smaller(a, b) == IF a <= b THEN a ELSE b

ExpJitter(attempt) ==
    { d \in 0 .. MaxDelay :
        \E jitter \in 0 .. (BaseDelay - 1) :
            d = Smaller(BaseDelay * 2 ^ attempt + jitter, MaxDelay) }
==============================================================================
