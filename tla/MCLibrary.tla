----------------------------- MODULE MCLibrary -----------------------------
(* An instance of Library for TLC.                                         *)
EXTENDS Library, TLC

CONSTANTS b1, b2, b3, shared, noId

ThreeBatches == {b1, b2, b3}

Item(id, solution, industry, sections) ==
  [id |-> id, solution |-> solution, industry |-> industry, sections |-> sections]

(* The first and the third bring the same id, the first one twice; the      *)
(* second creates the types of the first in the opposite order, for        *)
(* records without an id, and comes from another source.                   *)
Records == b1 :> << Item(shared, "cloud", "bank", <<"pricing", "team">>),
                    Item(shared, "cloud", "bank", <<"team">>) >>
        @@ b2 :> << Item(noId, "data", "bank", <<"team">>),
                    Item(noId, "data", "bank", <<"pricing", "team">>) >>
        @@ b3 :> << Item(shared, "cloud", "bank", <<"team">>) >>

Sources == [b \in ThreeBatches |-> IF b = b2 THEN "upload" ELSE "api"]

NoIds == {noId}

Query(section, solution, industry) ==
  [section |-> section, solution |-> solution, industry |-> industry, top_k |-> 3]

SomeQueries == { Query({"pricing"}, {"cloud"}, {}) }
=============================================================================
