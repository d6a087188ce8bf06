----------------------------- MODULE BidAgents -----------------------------
(***************************************************************************)
(* What the agents of a bid compute (agents/ and services/coverage.py).    *)
(*                                                                         *)
(* A requirement is its text; a draft is [words, exact, near]: its length, *)
(* the requirements found in it by words and those only found by meaning.  *)
(* Scores are in thousandths, rounded to the nearest.                      *)
(***************************************************************************)
EXTENDS Profiles, Collections

CONSTANTS Blank,            \* a text without a word in it
          MaxRequirements,  \* MAX_REQUIREMENTS
          MaxFound,         \* the limit of extract_requirements
          Overlap,          \* words each requirement shares with each offering
          TemplateWords     \* length of a template draft

Cut(s, n) == SubSeq(s, 1, IF Len(s) < n THEN Len(s) ELSE n)

NotBlank(s) == Subsequence(s, {i \in DOMAIN s : s[i] # Blank})

-----------------------------------------------------------------------------
(* Structuring: the model's requirements, or the statements found by rules. *)

FromModel(answer) == Cut(NotBlank(answer), MaxRequirements)

Heuristic(statements) == Cut(Distinct(statements), MaxFound)

-----------------------------------------------------------------------------
(* Comparison with the catalogue.                                          *)

Matched(m) == m.coverage # "none" /\ m.code # "none"

FromCatalogue(p, requirements, answer) ==
  LET known == Subsequence(answer, {i \in DOMAIN answer : answer[i].id \in DOMAIN requirements})
  IN  [i \in DOMAIN known |->
         [requirement |-> requirements[known[i].id],
          code |-> IF known[i].code \in ToSet(p.offerings) THEN known[i].code ELSE "none",
          coverage |-> known[i].coverage]]

(* The first offering that shares the most words.                          *)
KeywordMatches(p, requirements) ==
  [i \in DOMAIN requirements |->
     LET shared == [o \in DOMAIN p.offerings |-> Overlap[requirements[i]][p.offerings[o]]]
         best   == Max(ToSet(shared))
         first  == Min({o \in DOMAIN shared : shared[o] = best})
     IN  [requirement |-> requirements[i],
          code |-> IF best > 0 THEN p.offerings[first] ELSE "none",
          coverage |-> IF best >= 3 THEN "full" ELSE IF best >= 1 THEN "partial" ELSE "none"]]

NoComparison(p) == [catalogue |-> p.offerings # << >>, matches |-> << >>, gaps |-> << >>, fit |-> {}]

(* Mutant: a requirement is a gap only if it has no match at all.           *)
Unmatched(matches, r) == \A m \in ToSet(matches) : m.requirement # r

IsGap(matches, r) == LET of == {j \in DOMAIN matches : matches[j].requirement = r}
                     IN  of # {} => ~Matched(matches[Max(of)])

(* A requirement is a gap by its last match; every match counts for the fit.*)
Summarize(requirements, matches) ==
  LET matched == {i \in DOMAIN matches : Matched(matches[i])}
      full    == {i \in matched : matches[i].coverage = "full"}
  IN  [catalogue |-> TRUE, matches |-> matches,
       gaps |-> Subsequence(requirements, {i \in DOMAIN requirements : IsGap(matches, requirements[i])}),
       fit |-> {Rounded(1000 * Cardinality(full) + 500 * Cardinality(matched \ full), Len(requirements))}]

-----------------------------------------------------------------------------
(* Coverage of requirements by a draft; a score is a set, empty when it     *)
(* cannot be measured.                                                     *)

Covered(requirements, draft, semantic) ==
  ToSet(requirements) \cap (draft.exact \cup (IF semantic THEN draft.near ELSE {}))

CoverageScore(requirements, draft, semantic) ==
  LET covered == Covered(requirements, draft, semantic)
  IN  IF requirements = << >> THEN {}
      ELSE {Rounded(1000 * Cardinality({i \in DOMAIN requirements : requirements[i] \in covered}), Len(requirements))}

TemplateDraft(requirements) ==
  [words |-> TemplateWords, exact |-> ToSet(Cut(requirements, 6)), near |-> {}]

NoText == [words |-> 0, exact |-> {}, near |-> {}]

Assembled(sections) ==
  [words |-> FoldLeft(LAMBDA n, s : n + s.text.words, 0, sections),
   exact |-> UNION {s.text.exact : s \in ToSet(sections)},
   near  |-> UNION {s.text.near : s \in ToSet(sections)}]

-----------------------------------------------------------------------------
(* Scoring.                                                                *)

(* Mutant: a section is looked up by the name the profile gives it now.     *)
SectionNow(p, sections, key) == {s \in ToSet(sections) : s.key = CanonicalKey(p, key)}

(* By the name the profile gives it now, and else by the one it was drafted *)
(* under.                                                                  *)
SectionFor(p, sections, key) ==
  LET now == {s \in ToSet(sections) : s.key = CanonicalKey(p, key)}
  IN  IF now # {} THEN now ELSE {s \in ToSet(sections) : s.key = key}

Completeness(p, sections, targets) ==
  LET Found(i) == SectionFor(p, sections, targets[i])
      present  == {i \in DOMAIN targets : \E s \in Found(i) : s.text.words > 0}
      inRange  == {i \in present : \E s \in Found(i) :
                     /\ 10 * s.text.words >= 7 * Section(p, targets[i]).low
                     /\ 10 * s.text.words <= 13 * Section(p, targets[i]).high}
  IN  IF targets = << >> THEN {}
      ELSE {Rounded(1000 * Cardinality(inRange) + 600 * Cardinality(present \ inRange), Len(targets))}

Mean(scores) == IF scores = << >> THEN {} ELSE {Rounded(FoldLeft(+, 0, scores), Len(scores))}

Clamped(score) == {IF x > 1000 THEN 1000 ELSE IF x < 0 THEN 0 ELSE x : x \in score}

Used(components, weights) ==
  {c \in DOMAIN components : components[c] # {} /\ c \in DOMAIN weights /\ weights[c] > 0}

Composite(components, weights) ==
  LET used == Used(components, weights)
      Weight(c) == weights[c]
      Part(c)   == weights[c] * Max(components[c])
  IN  IF used = {} THEN 0 ELSE Rounded(MapThenSumSet(Part, used), MapThenSumSet(Weight, used))
=============================================================================
