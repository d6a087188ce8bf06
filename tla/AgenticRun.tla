----------------------------- MODULE AgenticRun -----------------------------
(***************************************************************************)
(* One run of the agentic runtime: the plan-execute loop of                *)
(* agentic/runner.py with the four supervisor decisions of                 *)
(* agentic/supervisor.py, up to the status the orchestrator reports.       *)
(*                                                                         *)
(* Every model answer is a nondeterministic choice, and so is every tool   *)
(* outcome: a tool succeeds, fails, or raises one of the fatal errors that *)
(* escape run_agentic.  The trace is abstracted to what later decisions    *)
(* read of it: which tools ever failed, and how many calls were made.      *)
(***************************************************************************)
EXTENDS Naturals, Sequences

CONSTANTS Endpoints,            \* the endpoints (intent hints) that start runs here
          Registry,             \* the names in the tool registry
          PlannerTools,         \* the registered tools the planner model may name
          MaxModelSteps,        \* longest model plan before "done" (10 in the code)
          Budget,               \* settings.agent_budget
          MaxReplans,           \* settings.agent_max_replans
          TrustEndpointIntent,  \* settings.supervisor_trust_endpoint_intent
          LlmPlanning           \* settings.supervisor_llm_planning

VALID_INTENTS == {"proposal_generation", "revision", "document_match",
                  "market_research", "intent_detection"}

REFERENCE_PLANS ==
  [proposal_generation |-> <<"structure_request", "compare_solutions",
                             "generate_proposal_sections", "score_proposal">>,
   revision            |-> <<"retrieve_evidence", "revise_section", "validate_section">>,
   document_match      |-> <<"structure_request", "retrieve_evidence",
                             "compare_solutions", "score_proposal">>,
   market_research     |-> <<"market_research">>,
   intent_detection    |-> <<"detect_intent_fields", "frame_business_problem",
                             "analyze_buyer_intelligence", "analyze_product_fit">>]

ToolNames == {"structure_request", "compare_solutions", "retrieve_evidence",
              "generate_section", "validate_section", "generate_proposal_sections",
              "revise_section", "score_proposal", "market_research",
              "detect_intent_fields", "frame_business_problem",
              "analyze_buyer_intelligence", "analyze_product_fit"}

ASSUME ConstantsAssumption ==
  /\ Endpoints \subseteq VALID_INTENTS
  /\ Registry \subseteq ToolNames
  /\ PlannerTools \subseteq Registry
  /\ MaxModelSteps \in Nat
  /\ Budget \in Nat \ {0}
  /\ MaxReplans \in Nat
  /\ TrustEndpointIntent \in BOOLEAN
  /\ LlmPlanning \in BOOLEAN

VARIABLES pc,           \* where the runner is
          hint,         \* state.intent_hint: the endpoint that started the run
          intent,       \* state.intent
          plan,         \* state.plan: tool names, the last one "done"
          how,          \* who made the plan, as make_plan returns it: "model" or "reference"
          results,      \* state.results: the latest outcome of each tool
          failed,       \* state.failed_tools(): the tools with a failed call in the trace
          steps_taken,  \* state.steps_taken, also the number of tool_call trace entries
          replans,      \* state.replans
          done,         \* state.done
          status        \* the status of the response, "none" before it is built

vars == <<pc, hint, intent, plan, how, results, failed, steps_taken, replans, done, status>>

-----------------------------------------------------------------------------
(* Pure parts of the supervisor.                                           *)

Elements(s) == {s[i] : i \in DOMAIN s}

Sequences(S, n) == UNION {[1..k -> S] : k \in 0..n}

(* The tools whose stored result is ok ("partial" is an ok result of the   *)
(* compound tool in which some sections failed).                           *)
OkTools == {t \in ToolNames : results[t] \in {"ok", "partial"}}

AllOf(i) == CASE i = "proposal_generation" -> {"structure_request"}
              [] i = "revision"            -> {"revise_section"}
              [] i = "document_match"      -> {"structure_request", "score_proposal"}
              [] i = "market_research"     -> {"market_research"}
              [] i = "intent_detection"    -> Elements(REFERENCE_PLANS.intent_detection)

AnyOf(i) == IF i = "proposal_generation"
            THEN {{"generate_proposal_sections", "generate_section"}}
            ELSE {}

PlanSatisfies(i, names) == /\ AllOf(i) \subseteq names
                           /\ \A group \in AnyOf(i) : names \cap group # {}

(* _validate_plan turns any list of raw steps into at most MaxModelSteps   *)
(* registered tools followed by "done".                                     *)
ModelPlans == {Append(s, "done") : s \in Sequences(PlannerTools, MaxModelSteps)}

(* Mutant: plans that miss a required tool are accepted.                   *)
AcceptedPlansUnchecked == ModelPlans

AcceptedPlans == {p \in ModelPlans : PlanSatisfies(intent, Elements(p) \cup OkTools)}

FullReferencePlan == Append(REFERENCE_PLANS[intent], "done")

(* The reference plan without the tools already executed ok, in its order.  *)
Precedes(ref, a, b) == \E i, j \in DOMAIN ref : i < j /\ ref[i] = a /\ ref[j] = b

(* Mutant: the fallback plan repeats what was already executed ok.          *)
RemainingReferencePlansAll == {FullReferencePlan}

RemainingReferencePlans ==
  LET ref  == REFERENCE_PLANS[intent]
      left == Elements(ref) \ OkTools
  IN  {Append(s, "done") :
         s \in {q \in Sequences(left, Len(ref)) :
                  /\ Elements(q) = left
                  /\ \A i, j \in DOMAIN q : i < j => Precedes(ref, q[i], q[j])}}

-----------------------------------------------------------------------------
Init == /\ pc = "pick_intent"
        /\ hint \in Endpoints
        /\ intent = "none"
        /\ plan = << >>
        /\ how = "none"
        /\ results = [t \in ToolNames |-> "none"]
        /\ failed = {}
        /\ steps_taken = 0
        /\ replans = 0
        /\ done = FALSE
        /\ status = "none"

(* The endpoint's hint when it is trusted; otherwise the model's choice, or *)
(* the hint again when the model gives no usable answer.                   *)
PickIntent == /\ pc = "pick_intent"
              /\ intent' \in IF TrustEndpointIntent THEN {hint} ELSE VALID_INTENTS
              /\ pc' = "make_plan"
              /\ UNCHANGED <<hint, plan, how, results, failed, steps_taken, replans, done, status>>

(* The first plan and every new plan after a "replan" decision.            *)
PlanFromModel == /\ LlmPlanning
                 /\ plan' \in AcceptedPlans
                 /\ how' = "model"

PlanFromReference == /\ IF LlmPlanning THEN plan' \in RemainingReferencePlans
                                       ELSE plan' = FullReferencePlan
                     /\ how' = "reference"

MakePlan == /\ pc = "make_plan"
            /\ PlanFromModel \/ PlanFromReference
            /\ pc' = "loop"
            /\ UNCHANGED <<hint, intent, results, failed, steps_taken, replans, done, status>>

LoopContinues == /\ pc = "loop"
                 /\ steps_taken < Budget
                 /\ plan # << >>

StepDone == /\ LoopContinues
            /\ Head(plan) = "done"
            /\ plan' = Tail(plan)
            /\ done' = TRUE
            /\ pc' = "respond"
            /\ UNCHANGED <<hint, intent, how, results, failed, steps_taken, replans, status>>

(* Mutant: an unknown step stays in the plan.                              *)
StepUnknownToolKept == /\ LoopContinues
                       /\ Head(plan) \notin Registry \cup {"done"}
                       /\ pc' = "decide_next"
                       /\ UNCHANGED <<hint, intent, plan, how, results, failed, steps_taken, replans,
                                      done, status>>

StepUnknownTool == /\ LoopContinues
                   /\ Head(plan) \notin Registry \cup {"done"}
                   /\ plan' = Tail(plan)
                   /\ pc' = "decide_next"
                   /\ UNCHANGED <<hint, intent, how, results, failed, steps_taken, replans, done,
                                  status>>

(* What a tool returns: only the compound tool reports partial success.    *)
Outcomes(t) == {"ok", "failed"} \cup
               (IF t = "generate_proposal_sections" THEN {"partial"} ELSE {})

StepTool == /\ LoopContinues
            /\ Head(plan) \in Registry
            /\ \E o \in Outcomes(Head(plan)) :
                 /\ results' = [results EXCEPT ![Head(plan)] = o]
                 /\ failed' = IF o = "failed" THEN failed \cup {Head(plan)} ELSE failed
                 /\ pc' = IF o = "failed" THEN "decide_next" ELSE "loop"
            /\ steps_taken' = steps_taken + 1
            /\ plan' = Tail(plan)
            /\ UNCHANGED <<hint, intent, how, replans, done, status>>

LeaveLoop == /\ pc = "loop"
             /\ plan = << >> \/ steps_taken >= Budget
             /\ pc' = "decide_done"
             /\ UNCHANGED <<hint, intent, plan, how, results, failed, steps_taken, replans, done, status>>

(* decide_next: a fixed rule once the replans are used up, else the model's *)
(* answer, else "continue".                                                *)
Decisions == IF replans >= MaxReplans THEN {"abort"}
                                      ELSE {"replan", "continue", "abort"}

DecideNext == /\ pc = "decide_next"
              /\ \E action \in Decisions :
                   /\ pc' = CASE action = "replan"   -> "make_plan"
                              [] action = "continue" -> "loop"
                              [] action = "abort"    -> "decide_done"
                   /\ replans' = IF action = "replan" THEN replans + 1 ELSE replans
              /\ UNCHANGED <<hint, intent, plan, how, results, failed, steps_taken, done, status>>

(* decide_done: a rule when every call succeeded, else the model's answer,  *)
(* else whether anything ran at all.                                       *)
DoneAnswers == IF failed = {} /\ steps_taken > 0 THEN {TRUE} ELSE BOOLEAN

DecideDone == /\ pc = "decide_done"
              /\ done' \in DoneAnswers
              /\ pc' = "respond"
              /\ UNCHANGED <<hint, intent, plan, how, results, failed, steps_taken, replans, status>>

(* A fatal error leaves run_agentic from any supervisor call or tool call.  *)
ModelIsAsked == \/ pc = "pick_intent" /\ ~TrustEndpointIntent
                \/ pc = "make_plan" /\ LlmPlanning
                \/ pc = "decide_next" /\ replans < MaxReplans
                \/ pc = "decide_done" /\ ~(failed = {} /\ steps_taken > 0)

ToolIsCalled == LoopContinues /\ Head(plan) \in Registry

FatalError == /\ ModelIsAsked \/ ToolIsCalled
              /\ pc' = "raised"
              /\ status' = "error"
              /\ UNCHANGED <<hint, intent, plan, how, results, failed, steps_taken, replans, done>>

(* Whether the endpoint's own output is missing or has failed sections.    *)
EndpointPartial ==
  CASE hint = "proposal_generation" ->
         /\ results["generate_proposal_sections"] # "ok"
         /\ \/ results["generate_proposal_sections"] = "partial"
            \/ results["generate_section"] # "ok"
    [] hint = "revision" -> results["revise_section"] # "ok"
    [] OTHER -> FALSE

(* Mutant: the status forgets the failed calls.                            *)
StatusForgiving == CASE ~done -> "incomplete"
                     [] done /\ EndpointPartial -> "partial"
                     [] OTHER -> "completed"

Status == CASE ~done -> "incomplete"
            [] done /\ (EndpointPartial \/ failed # {}) -> "partial"
            [] OTHER -> "completed"

Respond == /\ pc = "respond"
           /\ status' = Status
           /\ pc' = "returned"
           /\ UNCHANGED <<hint, intent, plan, how, results, failed, steps_taken, replans, done>>

Finished == pc \in {"returned", "raised"} /\ UNCHANGED vars

Next == \/ PickIntent
        \/ MakePlan
        \/ StepDone
        \/ StepUnknownTool
        \/ StepTool
        \/ LeaveLoop
        \/ DecideNext
        \/ DecideDone
        \/ FatalError
        \/ Respond
        \/ Finished

Spec == Init /\ [][Next]_vars

(* The loop is a synchronous call and every model call has a timeout, so a *)
(* run that can take its next step takes it.                               *)
FairSpec == Spec /\ WF_vars(Next)

-----------------------------------------------------------------------------
(* Correctness.                                                            *)

PcValues == {"pick_intent", "make_plan", "loop", "decide_next", "decide_done",
             "respond", "returned", "raised"}

(* Types of the run's state, with the two limits of the settings: the       *)
(* budget and the replans.                                                 *)
TypeOK == /\ pc \in PcValues
          /\ hint \in Endpoints
          /\ intent \in VALID_INTENTS \cup {"none"}
          /\ plan \in Seq(ToolNames \cup {"done"})
          /\ how \in {"none", "model", "reference"}
          /\ results \in [ToolNames -> {"none", "ok", "partial", "failed"}]
          /\ failed \subseteq ToolNames
          /\ steps_taken \in 0..Budget
          /\ replans \in 0..MaxReplans
          /\ done \in BOOLEAN
          /\ status \in {"none", "completed", "partial", "incomplete", "error"}

ReferenceTools == UNION {Elements(REFERENCE_PLANS[i]) : i \in VALID_INTENTS}

(* The registry of build_tool_registry and the default intent setting.     *)
StandardSetup == TrustEndpointIntent /\ ReferenceTools \subseteq Registry

(* A run reported "completed" really did what its endpoint requires: every *)
(* tool _REQUIREMENTS lists for it has an ok result that no later call     *)
(* replaced, across failures, replans and model plans.  The only excuse is *)
(* a budget that ran out.                                                  *)
CompletedMeansRequired ==
  StandardSetup /\ status = "completed" /\ steps_taken < Budget
    => PlanSatisfies(hint, OkTools)

(* Work is undone only at the model's word: what a tool did ok is replaced   *)
(* by a later call only in a plan that the planner model wrote, which was   *)
(* told what is already executed.  The supervisor's own plans leave that    *)
(* out after any failures, replans and model plans before (the end of       *)
(* make_plan); with planning by the model switched off they do not, once a  *)
(* run replans.                                                            *)
OkResultsKept ==
  [][\A t \in OkTools : results'[t] # results[t] =>
       IF LlmPlanning THEN how = "model" ELSE replans > 0]_vars

(* Every run ends, by an answer or an exception: replans are bounded, and  *)
(* every pass of the loop shortens the plan or spends the budget.          *)
Termination == <>(pc \in {"returned", "raised"})

(* Why CompletedMeansRequired holds: as long as no call failed, the plan    *)
(* still to run and the tools already executed ok cover the requirements.  *)
PlanCovers ==
  StandardSetup /\ pc = "loop" /\ failed = {}
    => PlanSatisfies(hint, Elements(plan) \cup OkTools)

EndCovers ==
  StandardSetup /\ failed = {} /\ steps_taken < Budget
    => (pc = "decide_done" \/ (pc \in {"respond", "returned"} /\ done)
          => PlanSatisfies(hint, OkTools))

PlanShape == /\ \A k \in 1..Len(plan) : k < Len(plan) => plan[k] # "done"
             /\ StandardSetup => Elements(plan) \subseteq Registry \cup {"done"}

IntentChosen == pc \notin {"pick_intent", "raised"} =>
                  /\ intent \in VALID_INTENTS
                  /\ TrustEndpointIntent => intent = hint

CallsCounted == /\ failed # {} \/ OkTools # {} => steps_taken > 0
                /\ StandardSetup /\ pc = "decide_next" => failed # {}
                /\ StandardSetup /\ pc \in {"respond", "returned"} /\ done => steps_taken > 0

StatusTruthful == /\ status = "none" <=> pc \notin {"returned", "raised"}
                  /\ status = "completed" => pc = "returned" /\ done /\ failed = {}
                  /\ status = "partial" => pc = "returned" /\ done

IInv == /\ TypeOK
        /\ PlanCovers
        /\ EndCovers
        /\ PlanShape
        /\ IntentChosen
        /\ CallsCounted
        /\ StatusTruthful

(* Why OkResultsKept holds: what is still to run of a plan of the           *)
(* supervisor's own is distinct, and not yet executed ok.                   *)
FreshPlan(p) == /\ Elements(p) \cap OkTools = {}
                /\ \A i, j \in DOMAIN p : p[i] = p[j] => i = j

LeavesOutOk == how = "reference" /\ (LlmPlanning \/ replans = 0)

StepsAreFresh == /\ pc \in {"loop", "decide_next"} =>
                      /\ how = "reference" \/ (how = "model" /\ LlmPlanning)
                      /\ LeavesOutOk => FreshPlan(plan)
                 /\ pc \in {"pick_intent", "make_plan"} /\ replans = 0 => OkTools = {}

(* The run keeps the promise of WorkflowContract.                          *)
Contract == INSTANCE WorkflowContract
              WITH Tools <- Registry, Enough <- PlanSatisfies, endpoint <- hint,
                   worked <- OkTools, failures <- (failed # {}), calls <- steps_taken,
                   verdict <- IF status = "none" THEN "open" ELSE status

ImplementsContract == Contract!Spec
=============================================================================
