------------------------------ MODULE Library ------------------------------
(* The library of past proposals: requests ingest batches while a search   *)
(* reads what is committed.                                                *)
EXTENDS Ingestion

CONSTANTS Queries

ASSUME QueriesAssumption == \A q \in Queries : q.top_k \in Nat

VARIABLES query, attempt, results, applied

search == <<query, attempt, results, applied>>

(* embedding_chunks, joined with the section, solution and document rows.   *)
StoredChunks ==
  UNION {{[document |-> <<d.batch, d.index>>, text |-> x, section |-> x[2],
           solution |-> d.solution, industry |-> d.industry] : x \in d.chunks} : d \in docs}

R == INSTANCE Retrieval WITH library <- StoredChunks

LibraryInit == Init /\ R!Init

LibraryNext == \/ Next /\ UNCHANGED search
               \/ R!Next /\ UNCHANGED vars

LibrarySpec == LibraryInit /\ [][LibraryNext]_<<vars, search>> /\ Fairness

FiltersTruthful == R!FiltersTruthful
=============================================================================
