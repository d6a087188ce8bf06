----------------------------- MODULE MCLlmCall -----------------------------
(* Instances of LlmCall for TLC.                                           *)
EXTENDS LlmCall, TLC

CONSTANTS c1, c2, c3, p1

ThreeCalls == {c1, c2, c3}

OneProcess == {p1}

AllThere == [c \in ThreeCalls |-> p1]

EqualCalls == Permutations(ThreeCalls)
=============================================================================
