------------------------------ MODULE Research ------------------------------
(***************************************************************************)
(* One search for vendors (services/market_research_service.py): queries   *)
(* one after the other, ranking, screening by the model, then the facts of *)
(* each company from a search of its own and, side by side, from its pages *)
(* and the model.                                                          *)
(*                                                                         *)
(* Companies are numbers in the order of their names.  A page is           *)
(* [company, content, href, facts]: whose site it is (0: none of a         *)
(* company), whether its title is that of an article, its address and the  *)
(* facts named in it.                                                      *)
(***************************************************************************)
EXTENDS Integers, Sequences, SequencesExt, FiniteSetsExt, Collections

CONSTANTS Searches,    \* [offerings, summary]
          Pages,       \* what a query returns: sequences of pages
          Readings,    \* facts in the pages of a company, or read from them by the model
          Facts,       \* price, review, founded_year (the contact is left out)
          Nothing,     \* a fact that is not named
          MaxCompanies \* max_companies

(* Companies are numbered; a search returns a list, and needs an offering.   *)
ASSUME SearchesAssumption ==
  /\ MaxCompanies \in Nat
  /\ \A s \in Searches : IsList(s.offerings) /\ s.offerings # << >>
  /\ \A pages \in Pages : IsList(pages) /\ \A p \in ToSet(pages) : p.company \in Int

VARIABLES queries,   \* the tags of each query to come
          hits,      \* hits_by_company
          stage,     \* "idle", "search", "enrich", "finish" or "done"
          ranked,    \* the companies that are answered
          rejected,  \* companies the model said are not vendors
          progress   \* company -> what the thread that finishes it does next

researchVars == <<queries, hits, stage, ranked, rejected, progress>>

ResearchInit == /\ queries = << >> /\ hits = << >> /\ stage = "idle"
                /\ ranked = << >> /\ rejected = {} /\ progress = << >>

First(s, n) == SubSeq(s, 1, IF Len(s) < n THEN Len(s) ELSE n)

Queries(offerings, summary) ==
  (IF Len(offerings) >= 2
   THEN <<First(offerings, 3)>> \o [i \in 1..Len(First(offerings, 3)) |-> <<offerings[i]>>]
   ELSE << <<offerings[1]>>, <<offerings[1]>> >>)
  \o (IF summary THEN <<First(offerings, 2)>> ELSE << >>)

StartResearch ==
  /\ stage = "idle" /\ stage' = "search"
  /\ \E s \in Searches : queries' = Queries(s.offerings, s.summary)
  /\ UNCHANGED <<hits, ranked, rejected, progress>>

-----------------------------------------------------------------------------
(* Search.                                                                 *)

NewHit == [solutions |-> << >>, sources |-> {}, facts |-> [f \in Facts |-> Nothing]]

(* What was found first stays.                                             *)
Fill(facts, found) == [f \in Facts |-> IF facts[f] # Nothing THEN facts[f] ELSE found[f]]

(* The facts that the pages at some places name, read one after the other.  *)
FillFrom(facts, pages, at) ==
  LET Naming(f) == {i \in at : pages[i].facts[f] # Nothing}
  IN  Fill(facts, [f \in Facts |-> IF Naming(f) = {} THEN Nothing ELSE pages[Min(Naming(f))].facts[f]])

AddNew(s, xs) == s \o Subsequence(xs, {i \in DOMAIN xs : xs[i] \notin ToSet(s) /\ \A j \in 1..(i - 1) : xs[j] # xs[i]})

Merged(hit, tags, pages, at) ==
  [solutions |-> AddNew(hit.solutions, tags),
   sources   |-> hit.sources \cup {pages[i].href : i \in at},
   facts     |-> FillFrom(hit.facts, pages, at)]

(* Articles and pages of no company are skipped; a failed search returns    *)
(* nothing; enough companies end the search.                               *)
SearchNext ==
  /\ stage = "search" /\ queries # << >>
  /\ \E pages \in Pages \cup {<< >>} :
       LET sites == {i \in DOMAIN pages : pages[i].company # 0 /\ ~pages[i].content}
           Of(c) == {i \in sites : pages[i].company = c}
           Known(c) == IF c \in DOMAIN hits THEN hits[c] ELSE NewHit
       IN  hits' = Over([c \in {pages[i].company : i \in sites} |-> Merged(Known(c), Head(queries), pages, Of(c))],
                        hits)
  /\ queries' = IF Cardinality(DOMAIN hits') >= 2 * MaxCompanies THEN << >> ELSE Tail(queries)
  /\ UNCHANGED <<stage, ranked, rejected, progress>>

-----------------------------------------------------------------------------
(* Ranking and screening.                                                  *)

(* By the offerings matched, then by the sources, then by name.             *)
Before(a, b) ==
  LET m(c) == Len(hits[c].solutions)
      n(c) == Cardinality(hits[c].sources)
  IN  \/ m(a) > m(b)
      \/ m(a) = m(b) /\ n(a) > n(b)
      \/ m(a) = m(b) /\ n(a) = n(b) /\ a < b

(* Each company at the place that the number of those before it gives.      *)
Ranking == [n \in 1..Cardinality(DOMAIN hits) |->
              CHOOSE c \in DOMAIN hits : Cardinality({d \in DOMAIN hits : Before(d, c)}) = n - 1]

Candidates == First(Ranking, 2 * MaxCompanies)

(* Mutant: the list is cut before the model screens it.                     *)
AnsweredOfFirst(kept) == SelectSeq(First(Candidates, MaxCompanies), LAMBDA c : Contains(kept, c))

Answered(kept) == First(kept, MaxCompanies)

(* A company without a verdict is kept, and all are when there is no model. *)
VendorCheck ==
  /\ stage = "search" /\ queries = << >>
  /\ rejected' \in SUBSET ToSet(Candidates)
  /\ ranked' = Answered(Subsequence(Candidates, {i \in DOMAIN Candidates : Candidates[i] \notin rejected'}))
  /\ stage' = "enrich"
  /\ progress' = [c \in ToSet(ranked') |-> "enrich"]
  /\ UNCHANGED <<queries, hits>>

-----------------------------------------------------------------------------
(* Facts.                                                                  *)

Learn(c, found) == hits' = [hits EXCEPT ![c].facts = Fill(@, found)]

Complete(c) == \A f \in Facts : hits[c].facts[f] # Nothing

Enriched(c, pages) ==
  hits' = [hits EXCEPT ![c].facts   = FillFrom(@, pages, DOMAIN pages),
                       ![c].sources = @ \cup {p.href : p \in ToSet(pages)}]

(* One company after the other; a search is only made for what is missing.  *)
EnrichViaSearch ==
  /\ stage = "enrich"
  /\ LET left == {i \in DOMAIN ranked : progress[ranked[i]] = "enrich"}
         next == ranked[Min(left)]
     IN  IF left = {}
         THEN stage' = "finish" /\ UNCHANGED <<hits, progress>>
         ELSE /\ progress' = [progress EXCEPT ![next] = "scrape"]
              /\ \/ Complete(next) /\ UNCHANGED hits
                 \/ ~Complete(next) /\ \E pages \in Pages \cup {<< >>} : Enriched(next, pages)
              /\ UNCHANGED stage
  /\ UNCHANGED <<queries, ranked, rejected>>

(* A thread per company; without a page there is nothing for the model.     *)
ScrapeCompany(c) ==
  /\ stage = "finish" /\ progress[c] = "scrape"
  /\ \/ \E found \in Readings \cup {[f \in Facts |-> Nothing]} :
          Learn(c, found) /\ progress' = [progress EXCEPT ![c] = "extract"]
     \/ progress' = [progress EXCEPT ![c] = "done"] /\ UNCHANGED hits
  /\ UNCHANGED <<queries, stage, ranked, rejected>>

(* Mutant: what the model reads replaces what was found before.             *)
LlmOverwrites(c) ==
  /\ stage = "finish" /\ progress[c] = "extract"
  /\ progress' = [progress EXCEPT ![c] = "done"]
  /\ \/ UNCHANGED hits
     \/ \E found \in Readings : hits' = [hits EXCEPT ![c].facts = Fill(found, @)]
  /\ UNCHANGED <<queries, stage, ranked, rejected>>

(* The model may fail, or answer nothing that parses.                       *)
LlmExtract(c) ==
  /\ stage = "finish" /\ progress[c] = "extract"
  /\ progress' = [progress EXCEPT ![c] = "done"]
  /\ UNCHANGED hits \/ \E found \in Readings : Learn(c, found)
  /\ UNCHANGED <<queries, stage, ranked, rejected>>

(* The pool is left when every thread has ended.                            *)
RowsReady == /\ stage = "finish" /\ \A c \in DOMAIN progress : progress[c] = "done"
             /\ stage' = "done"
             /\ UNCHANGED <<queries, hits, ranked, rejected, progress>>

ResearchNext == \/ StartResearch \/ SearchNext \/ VendorCheck \/ EnrichViaSearch \/ RowsReady
                \/ \E c \in DOMAIN progress : ScrapeCompany(c) \/ LlmExtract(c)

-----------------------------------------------------------------------------
(* Correctness.                                                            *)

(* A company that was found and not rejected is in the answer, unless       *)
(* MaxCompanies better ones are, or so many rank before it that it was      *)
(* never screened.                                                         *)
NoVendorLost ==
  [][stage = "search" /\ stage' = "enrich" =>
       \A c \in DOMAIN hits \ (rejected' \cup ToSet(ranked')) :
         \/ Cardinality({r \in ToSet(ranked') : Before(r, c)}) = MaxCompanies
         \/ Cardinality({d \in DOMAIN hits : Before(d, c)}) >= 2 * MaxCompanies]_researchVars

(* Nothing learnt of a company is lost or replaced by a later source: facts *)
(* stay as first found, offerings and sources are only added.               *)
FactsKept ==
  [][\A c \in DOMAIN hits :
       /\ c \in DOMAIN hits'
       /\ \A f \in Facts : hits[c].facts[f] # Nothing => hits'[c].facts[f] = hits[c].facts[f]
       /\ IsPrefix(hits[c].solutions, hits'[c].solutions)
       /\ hits[c].sources \subseteq hits'[c].sources]_researchVars

(* Both, in one: a search loses no vendor, and nothing it learnt of one.     *)
ResearchSound == NoVendorLost /\ FactsKept
=============================================================================
