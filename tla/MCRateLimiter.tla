---------------------------- MODULE MCRateLimiter ----------------------------
(* Instances of RateLimiter for TLC.  The third call alone exceeds the      *)
(* token limit.                                                            *)
EXTENDS RateLimiter, TLC

CONSTANTS c1, c2, c3

TwoCalls == {c1, c2}

ThreeCalls == {c1, c2, c3}

Small == [c \in ThreeCalls |-> 1]

OneOversized == [c \in ThreeCalls |-> IF c = c3 THEN 7 ELSE 2]

(* The two calls that fit differ in nothing.                               *)
EqualCalls == Permutations({c1, c2})
=============================================================================
