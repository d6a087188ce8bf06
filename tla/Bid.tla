-------------------------------- MODULE Bid --------------------------------
(***************************************************************************)
(* One proposal or document-match request by its reference plan: the tools *)
(* of agentic/tools.py over the agents of BidAgents, the answer of         *)
(* orchestration/orchestrator.py and the run that RunStore keeps of it.    *)
(*                                                                         *)
(* Every agent reads the profile again, so files edited meanwhile are seen *)
(* by the later ones; one CoverageAnalyzer serves the whole request, and   *)
(* works by words alone once its embedding model has failed.               *)
(***************************************************************************)
EXTENDS BidAgents, TLC

CONSTANTS BidRequests,  \* [kind, statements, sections, document, fast]
          FirstFiles,   \* the profile files, by name
          FileSets,     \* and what edits make of them
          ProfileName,
          Briefs, Comparisons, Texts, Rubrics,  \* answers of the model
          Evidence,     \* scores of the chunks a search returns
          MaxMishaps    \* bound: edits and failed tools of one request

(* A text of the model or of a template has a word in it (llm/service.py:439). *)
ASSUME BidsAssumption ==
  /\ {MaxRequirements, MaxFound} \subseteq Nat
  /\ \A t \in Texts : t.words \in Nat \ {0}
  /\ TemplateWords \in Nat \ {0}
  /\ \A r \in BidRequests : IsList(r.statements) /\ IsList(r.sections)
  /\ \A brief \in Briefs : IsList(brief)
  /\ \A c \in Comparisons : IsList(c)
  /\ \A f \in FileSets \cup {FirstFiles} :
       LET p == Load(f, ProfileName)
       IN  p # NotFound => IsList(p.sections) /\ IsList(p.default_sections)

VARIABLES files,       \* the profile files
          request,     \* the payload, {} before it arrives
          todo,        \* the rest of the plan
          results,     \* output of the tools whose last call was ok
          failed,      \* tools whose last call was not
          drafting,    \* {} or the state of generate_proposal_sections
          embeddings,  \* the analyzer still has its embedding model
          measured,    \* requirements each drafted section covers, as validated
          answer,      \* {} or the response
          saved,       \* rows of generated_sections
          mishaps      \* edits and failed tools so far

bidVars == <<files, request, todo, results, failed, drafting, embeddings, measured, answer, saved, mishaps>>

Profile == Load(files, ProfileName)

(* REFERENCE_PLANS, without "done".                                        *)
Plan(kind) ==
  IF kind = "proposal_generation"
  THEN <<"structure_request", "compare_solutions", "generate_proposal_sections", "score_proposal">>
  ELSE <<"structure_request", "retrieve_evidence", "compare_solutions", "score_proposal">>

BidInit == /\ files = FirstFiles
           /\ request = {} /\ todo = << >> /\ results = << >> /\ failed = {}
           /\ drafting = {} /\ embeddings = TRUE /\ measured = << >>
           /\ answer = {} /\ saved = {} /\ mishaps = 0

(* Its profile is loaded before anything else.                             *)
Receive == /\ request = {} /\ Profile # NotFound
           /\ \E r \in BidRequests : request' = {r} /\ todo' = Plan(r.kind)
           /\ UNCHANGED <<files, results, failed, drafting, embeddings, measured, answer, saved, mishaps>>

EditFiles == /\ answer = {}
             /\ mishaps < MaxMishaps /\ mishaps' = mishaps + 1
             /\ \E f \in FileSets : f # files /\ files' = f
             /\ UNCHANGED <<request, todo, results, failed, drafting, embeddings, measured,
                            answer, saved>>

Payload == CHOOSE r \in request : TRUE

Runs(tool) == request # {} /\ answer = {} /\ drafting = {} /\ todo # << >> /\ Head(todo) = tool

Requirements == IF "structure_request" \in DOMAIN results THEN results["structure_request"] ELSE << >>

Comparison == IF "compare_solutions" \in DOMAIN results THEN results["compare_solutions"]
              ELSE [NoComparison(Unset) EXCEPT !.catalogue = FALSE]

Sections == IF "generate_proposal_sections" \in DOMAIN results
            THEN results["generate_proposal_sections"].sections ELSE << >>

(* Also the rows to be stored: one for each section without an error.       *)
Rows == {i \in DOMAIN Sections : ~Sections[i].error}

Drafted == Subsequence(Sections, Rows)

Succeeds(tool, output) == /\ results' = Put(results, tool, output)
                          /\ failed' = failed \ {tool}
                          /\ todo' = Tail(todo)

(* A failure drops what an earlier call gave; the supervisor then plans the *)
(* tool again, goes on or gives up.                                        *)
ToolFails(tool) ==
  /\ mishaps < MaxMishaps /\ mishaps' = mishaps + 1
  /\ results' = [t \in DOMAIN results \ {tool} |-> results[t]]
  /\ failed' = failed \cup {tool}
  /\ todo' \in {todo, Tail(todo), << >>}

(* No profile, or no model and no degraded mode.                           *)
StepFails == /\ \E tool \in {"structure_request", "compare_solutions", "retrieve_evidence", "score_proposal"} :
                  /\ Runs(tool) /\ ToolFails(tool)
             /\ UNCHANGED <<files, request, drafting, embeddings, measured, answer, saved>>

StructureRequest ==
  /\ Runs("structure_request") /\ Profile # NotFound
  /\ \/ \E brief \in Briefs : Succeeds("structure_request", FromModel(brief))
     \/ Succeeds("structure_request", Heuristic(Payload.statements))
  /\ UNCHANGED <<files, request, drafting, embeddings, measured, answer, saved, mishaps>>

CompareSolutions ==
  /\ Runs("compare_solutions") /\ Profile # NotFound
  /\ LET needs == NotBlank(Requirements)
     IN  \/ /\ needs = << >> \/ Profile.offerings = << >>
            /\ Succeeds("compare_solutions", NoComparison(Profile))
         \/ /\ needs # << >> /\ Profile.offerings # << >>
            /\ \/ \E c \in Comparisons :
                    Succeeds("compare_solutions", Summarize(needs, FromCatalogue(Profile, needs, c)))
               \/ Succeeds("compare_solutions", Summarize(needs, KeywordMatches(Profile, needs)))
  /\ UNCHANGED <<files, request, drafting, embeddings, measured, answer, saved, mishaps>>

RetrieveEvidence ==
  /\ Runs("retrieve_evidence") /\ Profile # NotFound
  /\ \E found \in Evidence : Succeeds("retrieve_evidence", found)
  /\ UNCHANGED <<files, request, drafting, embeddings, measured, answer, saved, mishaps>>

-----------------------------------------------------------------------------
(* generate_proposal_sections.                                             *)

(* Mutant: names are compared as they were asked for.                       *)
PlannedByName(p) ==
  LET names == IF NotBlank(Payload.sections) # << >> THEN Distinct(NotBlank(Payload.sections)) ELSE DefaultSections(p)
  IN  [i \in DOMAIN names |-> CanonicalKey(p, names[i])]

(* Sections asked for, or else those of the profile, each once.             *)
Planned(p) ==
  LET names == IF Payload.sections # << >> THEN NotBlank(Payload.sections) ELSE DefaultSections(p)
  IN  Distinct([i \in DOMAIN names |-> CanonicalKey(p, names[i])])

(* Retrieval comes first, one section after the other; a search that fails  *)
(* leaves its section without evidence.                                    *)
PlanSections ==
  /\ Runs("generate_proposal_sections") /\ Profile # NotFound
  /\ Planned(Profile) # << >>
  /\ \E scores \in [ToSet(Planned(Profile)) -> Evidence \cup {<< >>}] :
       drafting' = {[keys |-> Planned(Profile), scores |-> scores, requirements |-> Requirements,
                     texts |-> << >>, rendered |-> << >>]}
  /\ UNCHANGED <<files, request, todo, results, failed, embeddings, measured, answer, saved, mishaps>>

NothingPlanned == /\ Runs("generate_proposal_sections")
                  /\ Profile # NotFound => Planned(Profile) = << >>
                  /\ ToolFails("generate_proposal_sections")
                  /\ UNCHANGED <<files, request, drafting, embeddings, measured, answer, saved>>

(* The first section alone, then the others side by side: a text of the     *)
(* model or the cache, a template in fast or degraded mode, or an error.    *)
DraftSection ==
  \E d \in drafting : \E key \in ToSet(d.keys) :
    /\ key \notin DOMAIN d.texts
    /\ key = d.keys[1] \/ d.keys[1] \in DOMAIN d.texts
    /\ \/ /\ ~Payload.fast /\ Profile # NotFound
          /\ \E text \in Texts \cup {TemplateDraft(d.requirements)} :
               drafting' = {[d EXCEPT !.texts = Put(@, key, {text})]}
       \/ /\ Payload.fast /\ Profile # NotFound
          /\ drafting' = {[d EXCEPT !.texts = Put(@, key, {TemplateDraft(d.requirements)})]}
       \/ /\ drafting' = {[d EXCEPT !.texts = Put(@, key, {})]}
    /\ UNCHANGED <<files, request, todo, results, failed, embeddings, measured, answer, saved, mishaps>>

(* Validation, in the order of the plan; the last one ends the tool, which   *)
(* is ok if one section is.                                                *)
ValidateSection ==
  \E d \in drafting :
    LET n    == Len(d.rendered) + 1
        key  == d.keys[n]
        text == d.texts[key]
        item == [key |-> key, scores |-> d.scores[key], error |-> text = {},
                 text |-> IF text = {} THEN NoText ELSE CHOOSE t \in text : TRUE]
        rendered == Append(d.rendered, item)
    IN  /\ DOMAIN d.texts = ToSet(d.keys)
        /\ embeddings' \in {embeddings} \cup (IF text = {} \/ d.requirements = << >> THEN {} ELSE {FALSE})
        /\ measured' = IF text = {} THEN measured
                       ELSE Put(measured, key, Covered(d.requirements, item.text, embeddings'))
        /\ IF n < Len(d.keys)
           THEN drafting' = {[d EXCEPT !.rendered = rendered]} /\ UNCHANGED <<results, failed, todo, mishaps>>
           ELSE /\ drafting' = {}
                /\ IF \E i \in DOMAIN rendered : ~rendered[i].error
                   THEN /\ Succeeds("generate_proposal_sections", [sections |-> rendered, requested |-> d.keys])
                        /\ UNCHANGED mishaps
                   ELSE ToolFails("generate_proposal_sections")
        /\ UNCHANGED <<files, request, answer, saved>>

-----------------------------------------------------------------------------
(* score_proposal.                                                         *)

(* The drafted sections, or else the document that came with the request.   *)
Document == IF Drafted # << >> THEN Assembled(Drafted) ELSE Payload.document

SearchScores ==
  FlattenSeq([i \in DOMAIN Drafted |-> Drafted[i].scores])
    \o (IF "retrieve_evidence" \in DOMAIN results THEN results["retrieve_evidence"] ELSE << >>)

Components(p, semantic, quality) ==
  [requirement_coverage  |-> CoverageScore(Requirements, Document, semantic),
   historical_similarity |-> Mean(SearchScores),
   solution_fit          |-> Clamped(Comparison.fit),
   completeness          |-> IF Drafted = << >> THEN {}
                             ELSE Completeness(p, Drafted, results["generate_proposal_sections"].requested),
   quality               |-> quality]

ScoreProposal ==
  /\ Runs("score_proposal") /\ Profile # NotFound
  /\ embeddings' \in {embeddings} \cup (IF Requirements = << >> \/ Document = NoText THEN {} ELSE {FALSE})
  /\ \E quality \in {{}} \cup (IF Document = NoText THEN {} ELSE {{q} : q \in Rubrics}) :
       LET components == Components(Profile, embeddings', quality)
       IN  Succeeds("score_proposal",
                    [components |-> components, composite |-> Composite(components, Profile.weights),
                     weights |-> Profile.weights,
                     covered |-> Covered(Requirements, Document, embeddings'), semantic |-> embeddings'])
  /\ UNCHANGED <<files, request, drafting, measured, answer, saved, mishaps>>

-----------------------------------------------------------------------------
(* The answer.                                                             *)

(* A run that gave up is judged done, or not, by the model.                *)
Statuses == LET partial == \/ failed # {}
                           \/ Payload.kind = "proposal_generation"
                              /\ (Sections = << >> \/ \E s \in ToSet(Sections) : s.error)
            IN  (IF failed = {} THEN {} ELSE {"incomplete"}) \cup {IF partial THEN "partial" ELSE "completed"}

(* The response is stored in one transaction, which may fail; each section  *)
(* takes the id of the last row with its key.                              *)
Answer ==
  /\ request # {} /\ answer = {} /\ drafting = {} /\ todo = << >>
  /\ \E status \in Statuses, persisted \in BOOLEAN :
       LET keyed(i) == {j \in Rows : Sections[j].key = Sections[i].key}
       IN  /\ answer' = {[status |-> status, persisted |-> persisted,
                          ids |-> [i \in DOMAIN Sections |->
                                     IF persisted /\ keyed(i) # {} THEN {Max(keyed(i))} ELSE {}]]}
           /\ saved' = IF persisted THEN Rows ELSE {}
  /\ UNCHANGED <<files, request, todo, results, failed, drafting, embeddings, measured, mishaps>>

(* A failure that no replan can mend leaves the request, whose state is lost.*)
Raise == /\ request # {} /\ answer = {}
         /\ answer' = {[status |-> "raised", persisted |-> FALSE, ids |-> << >>]}
         /\ todo' = << >> /\ results' = << >> /\ failed' = {} /\ drafting' = {} /\ measured' = << >>
         /\ UNCHANGED <<files, request, embeddings, saved, mishaps>>

BidNext == \/ Receive \/ EditFiles
           \/ StructureRequest \/ CompareSolutions \/ RetrieveEvidence \/ StepFails
           \/ PlanSections \/ NothingPlanned \/ DraftSection \/ ValidateSection
           \/ ScoreProposal \/ Answer \/ Raise

-----------------------------------------------------------------------------
(* Correctness.                                                            *)

Scored == "score_proposal" \in DOMAIN results

Score == results["score_proposal"]

(* Unless a requirement is in the brief twice, a request without gaps       *)
(* scores at least a half, although a requirement may have been matched     *)
(* more than once; and unless one was, the fit exceeds the share that is    *)
(* not a gap by half a thousandth at most, as it is rounded.               *)
FitExplained ==
  "compare_solutions" \in DOMAIN results /\ Comparison.fit # {} /\ IsInjective(NotBlank(Requirements)) =>
    LET ms  == Comparison.matches
        n   == Len(NotBlank(Requirements))
        fit == Max(Comparison.fit)
        once == \A i, j \in DOMAIN ms : ms[i].requirement = ms[j].requirement => i = j
    IN  /\ Comparison.gaps = << >> => fit >= 500
        /\ once => 2 * (n * fit) <= 2000 * (n - Len(Comparison.gaps)) + n

(* What a section was found to cover the proposal covers, unless the        *)
(* embedding model was lost in between; then what it covered by words.      *)
CoverageMonotone ==
  Scored => \A s \in ToSet(Drafted) :
              measured[s.key] \cap (IF Score.semantic THEN measured[s.key] ELSE s.text.exact)
                \subseteq Score.covered

(* Fit and coverage can be explained by what was matched and drafted.       *)
ScoresExplained == FitExplained /\ CoverageMonotone

(* Every section that was drafted counts as present, even if the profile    *)
(* has given its name to another section since: completeness is worth 600   *)
(* thousandths for each, but for the half it may lose when rounded.        *)
DraftedCounts ==
  Scored /\ Drafted # << >> =>
    LET n == Len(results["generate_proposal_sections"].requested)
        k == Cardinality({i \in DOMAIN Drafted : Drafted[i].text.words > 0})
    IN  2 * (n * Max(Score.components.completeness)) >= 1200 * k - n

(* Sections answered with an id and rows stored for the run match one to    *)
(* one: no draft is stored where no section leads to it.                    *)
SavedAsAnswered ==
  \A a \in answer : a.persisted =>
    /\ UNION {a.ids[i] : i \in DOMAIN a.ids} = saved
    /\ \A i \in Rows : a.ids[i] = {i}

(* No section is lost between drafting, scoring and storing, however the    *)
(* profile is edited meanwhile (section_for, save_workflow).               *)
NoDraftLost == DraftedCounts /\ SavedAsAnswered
=============================================================================
