-------------------------- MODULE MCRevisionHistory --------------------------
(* Three concurrent revise requests on one section; the third supplies the  *)
(* text it revises.                                                        *)
EXTENDS RevisionHistory

CONSTANTS r1, r2, r3

ThreeRequests == {r1, r2, r3}

OneSupplied == {r3}
=============================================================================
