---------------------------- MODULE Collections ----------------------------
(* Parts of sequences and changes of functions, in terms of sets: as         *)
(* SelectSeq, :> and @@ do it, whose definitions the provers do not see; and *)
(* rounding as round() does it.                                            *)
EXTENDS Integers, Sequences, FiniteSets

IsList(s) == s \in Seq({s[i] : i \in DOMAIN s})

(* The n-th of a set of places.                                            *)
Place(places, n) == CHOOSE i \in places : Cardinality({j \in places : j <= i}) = n

(* What a sequence has at some of its places.                              *)
Subsequence(s, places) == [n \in 1..Cardinality(places) |-> s[Place(places, n)]]

(* Each element once, where it is first.                                   *)
Distinct(s) == Subsequence(s, {i \in DOMAIN s : \A j \in 1..(i - 1) : s[j] # s[i]})

Over(f, g) == [x \in DOMAIN f \cup DOMAIN g |-> IF x \in DOMAIN f THEN f[x] ELSE g[x]]

(* A sum of natural numbers, as the number of what they count.               *)
Total(f) == Cardinality(UNION {{x} \X (1..f[x]) : x \in DOMAIN f})

(* n / d to the nearest integer, a half to the even one (a half that a float   *)
(* cannot hold may go to the other).                                       *)
Rounded(n, d) == LET q == n \div d
                     r == 2 * (n % d)
                 IN  IF r > d \/ (r = d /\ q % 2 = 1) THEN q + 1 ELSE q

Put(f, key, value) == Over([x \in {key} |-> value], f)
=============================================================================
