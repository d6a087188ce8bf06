-------------------------------- MODULE Deal --------------------------------
(***************************************************************************)
(* One conversation analysed by its reference plan: the agents that read   *)
(* the transcript (agents/intent_detection.py, problem_framing.py,         *)
(* buyer_intelligence.py, product_fit.py) and the answer that              *)
(* run_intent_detection_workflow puts together from them.                  *)
(*                                                                         *)
(* The model's raw scores are in thousandths, as it writes them.           *)
(***************************************************************************)
EXTENDS BidAgents, TLC

CONSTANTS Talks,          \* [overview, points, mentions]: what rules find in a transcript
          DealProfiles,   \* the profile as each agent may read it
          Relationships,  \* RELATIONSHIPS
          NotStated,      \* NOT_STATED
          Today,
          Overviews, Framings, Buyers, Fits,  \* answers of the model
          MaxFailures     \* bound on the tools of one conversation that fail

(* Lists of a profile and of an answer may be empty; the rules do not look    *)
(* for the problem (regex_overview, agents/intent_detection.py:88).        *)
ASSUME DealsAssumption ==
  /\ \A t \in Talks : "problem_statement" \notin DOMAIN t.overview /\ t.points \in Nat
  /\ \A p \in DealProfiles : /\ IsList(p.categories) /\ IsList(p.stages) /\ IsList(p.offerings)
                            /\ \A s \in ToSet(p.stages) : s.max \in Int
  /\ \A a \in Buyers : a.score \in Int /\ IsList(a.identified) /\ IsList(a.people) /\ IsList(a.missing)
  /\ \A a \in Fits : a.score \in Int

VARIABLES talk,      \* {} or the transcript
          agenda,    \* the rest of the plan
          heard,     \* output of the tools that were ok
          failures,  \* tools that failed so far
          deal       \* {} or the response

dealVars == <<talk, agenda, heard, failures, deal>>

DealPlan == <<"detect_intent_fields", "frame_business_problem", "analyze_buyer_intelligence",
              "analyze_product_fit">>

DealInit == talk = {} /\ agenda = << >> /\ heard = << >> /\ failures = 0 /\ deal = {}

Listen == /\ talk = {}
          /\ \E t \in Talks : talk' = {t}
          /\ agenda' = DealPlan
          /\ UNCHANGED <<heard, failures, deal>>

Transcript == CHOOSE t \in talk : TRUE

Due(tool) == deal = {} /\ agenda # << >> /\ Head(agenda) = tool

Heard(tool, output) == /\ heard' = Put(heard, tool, output)
                       /\ agenda' = Tail(agenda)
                       /\ UNCHANGED <<talk, failures, deal>>

(* No profile, or no model and no degraded mode: planned again, passed over *)
(* or the end of the run.                                                  *)
AgentFails == /\ \E tool \in ToSet(DealPlan) : Due(tool)
              /\ failures < MaxFailures /\ failures' = failures + 1
              /\ agenda' \in {agenda, Tail(agenda), << >>}
              /\ UNCHANGED <<talk, heard, deal>>

-----------------------------------------------------------------------------
(* Coercion of the model's answers.                                        *)

(* A score up to one is taken for a share of one.                          *)
Percent(raw) == LET x == Rounded(IF raw \in 1..1000 THEN 100 * raw ELSE raw, 1000)
                IN  IF x < 0 THEN 0 ELSE IF x > 100 THEN 100 ELSE x

Choice(x, allowed, default) == IF x \in allowed THEN x ELSE default

Recognised(roles, categories) ==
  Distinct(Subsequence(roles, {i \in DOMAIN roles : roles[i] \in ToSet(categories)}))

-----------------------------------------------------------------------------
(* The agents.                                                             *)

(* What the model leaves blank keeps what the rules found.                  *)
Overview(answer) ==
  [k \in DOMAIN Transcript.overview |->
     IF k = "existing_relationship"
     THEN Choice(answer[k], Relationships, Transcript.overview[k])
     ELSE IF answer[k] # Blank THEN answer[k] ELSE Transcript.overview[k]]

Dated(overview) == [overview EXCEPT !.date_opened = IF @ = Blank THEN Today ELSE @]

Detect == /\ Due("detect_intent_fields")
          /\ \/ \E answer \in Overviews : Heard("detect_intent_fields", Dated(Overview(answer)))
             \/ Heard("detect_intent_fields", Dated(Transcript.overview))

FramedFields == {"problem_statement", "urgency_statement"}

Frame == /\ Due("frame_business_problem")
         /\ \/ \E answer \in Framings : Heard("frame_business_problem", answer)
            \/ Heard("frame_business_problem", [k \in FramedFields |-> Blank])

(* The roles named missing, or else the categories that were not identified.*)
Missing(p, identified, named) ==
  IF named # << >> THEN named
  ELSE Subsequence(p.categories, {i \in DOMAIN p.categories : p.categories[i] \notin ToSet(identified)})

(* The category of a person whose own the profile does not know.            *)
DefaultCategory(p) == IF p.categories # << >> THEN Head(p.categories) ELSE "Stakeholder"

NoRoles(p) == [identified |-> << >>, missing |-> p.categories, named |-> << >>]

Roles(p, answer) ==
  LET told   == Recognised(answer.identified, p.categories)
      people == [i \in DOMAIN answer.people |->
                   Choice(answer.people[i], ToSet(p.categories), DefaultCategory(p))]
      identified == IF told # << >> THEN told ELSE Distinct(people)  \* sorted by the code
      named  == Recognised(answer.missing, p.categories)
  IN  [identified |-> identified, missing |-> Missing(p, identified, named), named |-> named]

Readiness(p, score, roles, gaps) ==
  [score |-> score, stage |-> StageFor(p.stages, score), roles |-> roles, gaps |-> gaps]

AnalyzeBuyer ==
  /\ Due("analyze_buyer_intelligence")
  /\ \E p \in DealProfiles :
       \/ \E a \in Buyers : Heard("analyze_buyer_intelligence",
                                  Readiness(p, Percent(a.score), Roles(p, a), NotBlank(a.gaps)))
       \/ Heard("analyze_buyer_intelligence",
                Readiness(p, IF Transcript.points > 100 THEN 100 ELSE Transcript.points, NoRoles(p), << >>))

(* Offerings that the transcript shares a word with, in degraded mode.      *)
Mentioned(p) == Subsequence(p.offerings, {i \in DOMAIN p.offerings : Transcript.mentions[p.offerings[i]] > 0})

FitScore(matches) == IF 20 * Len(matches) > 100 THEN 100 ELSE 20 * Len(matches)

Fit(p, mode, score, matches) ==
  [mode |-> mode, score |-> score, stage |-> StageFor(p.stages, score), matches |-> matches]

AnalyzeFit ==
  /\ Due("analyze_product_fit")
  /\ \E p \in DealProfiles :
       \/ \E a \in Fits : Heard("analyze_product_fit", Fit(p, "llm", Percent(a.score), NotBlank(a.matches)))
       \/ Heard("analyze_product_fit", Fit(p, "heuristic", FitScore(Mentioned(p)), Mentioned(p)))

-----------------------------------------------------------------------------
(* The answer.                                                             *)

Given(tool, none) == IF tool \in DOMAIN heard THEN heard[tool] ELSE none

(* Mutant: what framing says replaces what detection found.                 *)
FramedAlways(basics, framing) == Over(framing, basics)

(* Framing replaces what detection found where it has something to say.     *)
Framed(basics, framing) ==
  Over([k \in {f \in DOMAIN framing : framing[f] \notin {Blank, NotStated}} |-> framing[k]], basics)

Basics == IF "detect_intent_fields" \in DOMAIN heard
          THEN Over([problem_statement |-> Blank], heard["detect_intent_fields"]) ELSE << >>

Respond ==
  /\ talk # {} /\ agenda = << >> /\ deal = {}
  /\ LET buyer == Given("analyze_buyer_intelligence", << >>)
     IN  deal' = {[overview |-> Framed(Basics, Given("frame_business_problem", << >>)),
                   buyer    |-> buyer,
                   rating   |-> IF buyer = << >> THEN 0 ELSE Rounded(buyer.score, 10),
                   fit      |-> Given("analyze_product_fit", << >>)]}
  /\ UNCHANGED <<talk, agenda, heard, failures>>

DealNext == Listen \/ Detect \/ Frame \/ AnalyzeBuyer \/ AnalyzeFit \/ AgentFails \/ Respond

-----------------------------------------------------------------------------
(* Correctness.                                                            *)

Stated(x) == x \notin {Blank, NotStated}

(* A field that one of the tools could fill is filled in the answer, by     *)
(* framing if both could.                                                  *)
FoundIsKept(d) ==
  \A tool \in {"detect_intent_fields", "frame_business_problem"} \cap DOMAIN heard :
    \A k \in DOMAIN heard[tool] :
      Stated(heard[tool][k]) =>
        /\ k \in DOMAIN d.overview /\ Stated(d.overview[k])
        /\ tool = "frame_business_problem" => d.overview[k] = heard[tool][k]

(* Unless the model says who is missing, each category of stakeholders is   *)
(* either identified or missing, and there are no others but the default of *)
(* a profile without categories.                                           *)
RolesSplit(roles, p) ==
  roles.named = << >> =>
    LET identified == ToSet(roles.identified)
        missing    == ToSet(roles.missing)
    IN  /\ identified \cap missing = {}
        /\ identified \cup missing \in {ToSet(p.categories)} \cup (IF p.categories = << >> THEN {{"Stakeholder"}} ELSE {})

(* The stage is the name of a lowest one that the score fits in, or of a     *)
(* highest one.                                                            *)
StageFits(finding, p) ==
  LET fitting == {s \in ToSet(p.stages) : s.max >= finding.score}
  IN  \/ \E t \in fitting : t.name = finding.stage /\ \A s \in fitting : t.max <= s.max
      \/ fitting = {} /\ \E t \in ToSet(p.stages) : t.name = finding.stage /\ \A s \in ToSet(p.stages) : s.max <= t.max
      \/ p.stages = << >> /\ finding.stage = ""

(* The rating is the score on a scale of ten; roles and stage are those of   *)
(* one profile, as it was when they were found.                            *)
ReadinessAgrees(d) ==
  d.buyer # << >> => /\ d.rating \in 0..10 /\ 10 * d.rating - d.buyer.score \in -5..5
                     /\ \E p \in DealProfiles : RolesSplit(d.buyer.roles, p) /\ StageFits(d.buyer, p)

(* The fit is as it was found, its stage is that of one profile and, in      *)
(* degraded mode, its matches are the offerings of that same profile that   *)
(* the transcript mentions, which make up its score.                       *)
FitOf(fit, p) ==
  /\ StageFits(fit, p)
  /\ fit.mode = "heuristic" =>
       /\ ToSet(fit.matches) = {o \in ToSet(p.offerings) : Transcript.mentions[o] > 0}
       /\ fit.score = FitScore(fit.matches)

FitAgrees(d) ==
  "analyze_product_fit" \in DOMAIN heard =>
    /\ d.fit = heard["analyze_product_fit"] /\ d.fit.score \in 0..100
    /\ \E p \in DealProfiles : FitOf(d.fit, p)

(* An answered conversation keeps what its agents found, and reports roles,  *)
(* readiness and a product fit each of which agrees with one profile,       *)
(* whichever agents failed or worked without the model.                    *)
DealSound == \A d \in deal : FoundIsKept(d) /\ ReadinessAgrees(d) /\ FitAgrees(d)
=============================================================================
