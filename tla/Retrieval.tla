----------------------------- MODULE Retrieval -----------------------------
(***************************************************************************)
(* A search of the stored chunks (services/retrieval_service.py over       *)
(* tools/retrieval_tool.py): with every filter first, then with fewer      *)
(* until enough chunks come back.  Each attempt is a query of its own, and *)
(* chunks may be stored between two of them.                               *)
(***************************************************************************)
EXTENDS Naturals, Sequences, FiniteSets

CONSTANTS Queries  \* filters asked for: section and industry (sets of values, {} for none),
                   \* solution ({} or one value), and top_k

VARIABLES library,   \* stored chunks, with their section, solution and industry
          query,     \* what is asked
          attempt,   \* the attempt that is next; 0 when the search is over
          results,   \* chunks found by the last attempt
          applied    \* its filters

vars == <<query, attempt, results, applied>>

Filters(q, kept) == [f \in {"section", "solution", "industry"} |-> IF f \in kept THEN q[f] ELSE {}]

(* The most specific filters go first.                                     *)
Attempts(q) == << Filters(q, {"section", "solution", "industry"}),
                  Filters(q, {"section", "industry"}),
                  Filters(q, {"section"}),
                  Filters(q, {}) >>

Enough(q) == IF q.top_k < 2 THEN 1 ELSE (q.top_k + 1) \div 2

Matches(chunk, filters) ==
  \A f \in DOMAIN filters : filters[f] # {} => chunk[f] \in filters[f]

Matching(filters) == {c \in library : Matches(c, filters)}

(* At most top_k of the chunks that match.  Which ones, and whether as many  *)
(* as there are, is up to the embeddings and to their HNSW index, whose      *)
(* scan is approximate and is filtered afterwards.                         *)
Nearest(filters, top_k) == {S \in SUBSET Matching(filters) : Cardinality(S) <= top_k}

Init == /\ query \in Queries
        /\ attempt = 1
        /\ results = {}
        /\ applied = Filters(query, {})

Attempted(n) == \E m \in 1..(n - 1) : Attempts(query)[m] = Attempts(query)[n]

Repeated == /\ attempt \in 1..4 /\ Attempted(attempt)
            /\ attempt' = (attempt + 1) % 5
            /\ UNCHANGED <<query, results, applied>>

(* Mutant: a search that has found anything stops.                          *)
GoOnIfNone(found) == IF found # {} THEN 0 ELSE (attempt + 1) % 5

GoOn(found) == IF Cardinality(found) >= Enough(query) THEN 0 ELSE (attempt + 1) % 5

Search == /\ attempt \in 1..4 /\ ~Attempted(attempt)
          /\ \E found \in Nearest(Attempts(query)[attempt], query.top_k) :
               /\ results' = found
               /\ applied' = Attempts(query)[attempt]
               /\ attempt' = GoOn(found)
          /\ UNCHANGED query

Next == Repeated \/ Search

-----------------------------------------------------------------------------
(* Correctness.                                                            *)

(* What a search returns satisfies the filters it says it applied, and is   *)
(* thin only if no filter was left to drop, whatever the index leaves out   *)
(* of an attempt and whatever is stored between two.                       *)
FiltersTruthful ==
  attempt = 0 =>
    /\ \A c \in results : Matches(c, applied)
    /\ Cardinality(results) <= query.top_k
    /\ Cardinality(results) >= Enough(query) \/ applied = Filters(query, {})
=============================================================================
