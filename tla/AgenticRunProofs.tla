-------------------------- MODULE AgenticRunProofs --------------------------
(* Theorems about AgenticRun, for every registry, planner, budget and limit. *)
EXTENDS AgenticRun, TLAPS

-----------------------------------------------------------------------------
(* Facts about plans and requirements.                                     *)

(* More tools never break a requirement.                                   *)
LEMMA SatisfiesMonotone ==
  ASSUME NEW i, NEW S, NEW T, S \subseteq T, PlanSatisfies(i, S)
  PROVE  PlanSatisfies(i, T)
  BY DEF PlanSatisfies

(* Every requirement names a tool, and none of them is the terminator.     *)
LEMMA RequirementsAreTools ==
  ASSUME NEW i \in VALID_INTENTS
  PROVE  /\ AllOf(i) # {}
         /\ "done" \notin AllOf(i)
         /\ \A group \in AnyOf(i) : "done" \notin group
  <1>1. Elements(REFERENCE_PLANS.intent_detection)
          = {"detect_intent_fields", "frame_business_problem",
             "analyze_buyer_intelligence", "analyze_product_fit"}
    BY DEF Elements, REFERENCE_PLANS
  <1>2. QED
    BY <1>1 DEF VALID_INTENTS, AllOf, AnyOf

(* The terminator contributes nothing to a plan's requirements.            *)
LEMMA DoneIsNoWork ==
  ASSUME NEW i \in VALID_INTENTS, NEW S, PlanSatisfies(i, S \cup {"done"})
  PROVE  PlanSatisfies(i, S)
  BY RequirementsAreTools DEF PlanSatisfies

(* Each reference plan contains what its intent requires.                  *)
LEMMA ReferencePlansSuffice ==
  ASSUME NEW i \in VALID_INTENTS
  PROVE  PlanSatisfies(i, Elements(REFERENCE_PLANS[i]))
  <1>1. CASE i = "proposal_generation"
    BY <1>1 DEF PlanSatisfies, AllOf, AnyOf, Elements, REFERENCE_PLANS
  <1>2. CASE i = "revision"
    BY <1>2 DEF PlanSatisfies, AllOf, AnyOf, Elements, REFERENCE_PLANS
  <1>3. CASE i = "document_match"
    BY <1>3 DEF PlanSatisfies, AllOf, AnyOf, Elements, REFERENCE_PLANS
  <1>4. CASE i = "market_research"
    BY <1>4 DEF PlanSatisfies, AllOf, AnyOf, Elements, REFERENCE_PLANS
  <1>5. CASE i = "intent_detection"
    BY <1>5 DEF PlanSatisfies, AllOf, AnyOf, Elements, REFERENCE_PLANS
  <1>6. QED
    BY <1>1, <1>2, <1>3, <1>4, <1>5 DEF VALID_INTENTS

(* The reference plans are sequences of known tools.                       *)
LEMMA ReferencePlansAreTools ==
  ASSUME NEW i \in VALID_INTENTS
  PROVE  /\ REFERENCE_PLANS[i] \in Seq(ToolNames)
         /\ Elements(REFERENCE_PLANS[i]) \subseteq ReferenceTools
         /\ Elements(REFERENCE_PLANS[i]) \subseteq ToolNames
  <1>1. REFERENCE_PLANS[i] \in Seq(ToolNames)
    <2>1. CASE i = "proposal_generation"
      BY <2>1 DEF REFERENCE_PLANS, ToolNames
    <2>2. CASE i = "revision"
      BY <2>2 DEF REFERENCE_PLANS, ToolNames
    <2>3. CASE i = "document_match"
      BY <2>3 DEF REFERENCE_PLANS, ToolNames
    <2>4. CASE i = "market_research"
      BY <2>4 DEF REFERENCE_PLANS, ToolNames
    <2>5. CASE i = "intent_detection"
      BY <2>5 DEF REFERENCE_PLANS, ToolNames
    <2>6. QED
      BY <2>1, <2>2, <2>3, <2>4, <2>5 DEF VALID_INTENTS
  <1>2. QED
    BY <1>1 DEF Elements, ReferenceTools

(* Whatever make_plan returns: tools, then "done", and together with the    *)
(* tools already executed ok it does what the intent requires.             *)
PlanIsGood(p) == \E s \in Seq(ToolNames) :
                   /\ p = Append(s, "done")
                   /\ StandardSetup => Elements(s) \subseteq Registry
                   /\ PlanSatisfies(intent, Elements(s) \cup OkTools)

LEMMA ElementsOfAppend ==
  ASSUME NEW S, NEW s \in Seq(S), NEW e
  PROVE  Elements(Append(s, e)) = Elements(s) \cup {e}
  <1>1. /\ DOMAIN Append(s, e) = 1..Len(s) + 1
        /\ Append(s, e)[Len(s) + 1] = e
        /\ \A k \in 1..Len(s) : Append(s, e)[k] = s[k]
        /\ Len(s) \in Nat /\ DOMAIN s = 1..Len(s)
    OBVIOUS
  <1>2. Elements(Append(s, e)) \subseteq Elements(s) \cup {e}
    BY <1>1 DEF Elements
  <1>3. Elements(s) \cup {e} \subseteq Elements(Append(s, e))
    BY <1>1 DEF Elements
  <1>4. QED
    BY <1>2, <1>3

LEMMA MakePlanIsGood ==
  ASSUME intent \in VALID_INTENTS, PlanFromModel \/ PlanFromReference
  PROVE  PlanIsGood(plan')
  <1> DEFINE ref == REFERENCE_PLANS[intent]
  <1>1. /\ ref \in Seq(ToolNames)
        /\ Elements(ref) \subseteq ReferenceTools
        /\ Elements(ref) \subseteq ToolNames
        /\ PlanSatisfies(intent, Elements(ref))
    BY ReferencePlansAreTools, ReferencePlansSuffice
  <1>2. CASE PlanFromModel
    <2>1. PICK s \in Sequences(PlannerTools, MaxModelSteps) : plan' = Append(s, "done")
      BY <1>2 DEF PlanFromModel, AcceptedPlans, ModelPlans
    <2>2. s \in Seq(ToolNames) /\ Elements(s) \subseteq Registry
      BY <2>1, ConstantsAssumption DEF Sequences, Elements
    <2>3. PlanSatisfies(intent, (Elements(s) \cup OkTools) \cup {"done"})
      <3>1. PlanSatisfies(intent, Elements(plan') \cup OkTools)
        BY <1>2 DEF PlanFromModel, AcceptedPlans
      <3>2. Elements(plan') = Elements(s) \cup {"done"}
        BY <2>1, <2>2, ElementsOfAppend
      <3>3. Elements(plan') \cup OkTools = (Elements(s) \cup OkTools) \cup {"done"}
        BY <3>2
      <3>4. QED
        BY <3>1, <3>3
    <2>4. PlanSatisfies(intent, Elements(s) \cup OkTools)
      BY <2>3, DoneIsNoWork
    <2>5. QED
      BY <2>1, <2>2, <2>4 DEF PlanIsGood
  <1>3. CASE PlanFromReference /\ LlmPlanning
    <2> DEFINE left == Elements(ref) \ OkTools
    <2>1. PICK s \in Sequences(left, Len(ref)) : plan' = Append(s, "done") /\ Elements(s) = left
      BY <1>3 DEF PlanFromReference, RemainingReferencePlans
    <2>2. s \in Seq(ToolNames)
      BY <2>1, <1>1 DEF Sequences
    <2>3. PlanSatisfies(intent, Elements(s) \cup OkTools)
      BY <2>1, <1>1, SatisfiesMonotone, Elements(ref) \subseteq Elements(s) \cup OkTools
    <2>4. StandardSetup => Elements(s) \subseteq Registry
      BY <2>1, <1>1 DEF StandardSetup
    <2>5. QED
      BY <2>1, <2>2, <2>3, <2>4 DEF PlanIsGood
  <1>4. CASE PlanFromReference /\ ~LlmPlanning
    <2>1. plan' = Append(ref, "done")
      BY <1>4 DEF PlanFromReference, FullReferencePlan
    <2>2. PlanSatisfies(intent, Elements(ref) \cup OkTools)
      BY <1>1, SatisfiesMonotone, Elements(ref) \subseteq Elements(ref) \cup OkTools
    <2>3. StandardSetup => Elements(ref) \subseteq Registry
      BY <1>1 DEF StandardSetup
    <2>4. QED
      BY <2>1, <2>2, <2>3, <1>1 DEF PlanIsGood
  <1>5. QED
    BY <1>2, <1>3, <1>4

LEMMA GoodPlanShape ==
  ASSUME NEW p, PlanIsGood(p)
  PROVE  /\ p \in Seq(ToolNames \cup {"done"})
         /\ \A k \in 1..Len(p) : k < Len(p) => p[k] # "done"
         /\ StandardSetup => Elements(p) \subseteq Registry \cup {"done"}
         /\ PlanSatisfies(intent, Elements(p) \cup OkTools)
  <1>1. PICK s \in Seq(ToolNames) :
          /\ p = Append(s, "done")
          /\ StandardSetup => Elements(s) \subseteq Registry
          /\ PlanSatisfies(intent, Elements(s) \cup OkTools)
    BY DEF PlanIsGood
  <1>2. p \in Seq(ToolNames \cup {"done"})
    BY <1>1
  <1>3. Elements(p) = Elements(s) \cup {"done"}
    BY <1>1, ElementsOfAppend
  <1>4. ASSUME NEW k \in 1..Len(p), k < Len(p)
        PROVE  p[k] # "done"
    <2>1. p[k] = s[k] /\ s[k] \in ToolNames
      BY <1>1, <1>4
    <2>2. QED
      BY <2>1 DEF ToolNames
  <1>5. PlanSatisfies(intent, Elements(p) \cup OkTools)
    BY <1>1, <1>3, SatisfiesMonotone,
       Elements(s) \cup OkTools \subseteq Elements(p) \cup OkTools
  <1>6. QED
    BY <1>1, <1>2, <1>3, <1>4, <1>5

(* Taking a step off a plan.                                               *)
LEMMA TakeStep ==
  ASSUME NEW S, NEW p \in Seq(S), p # << >>
  PROVE  /\ Tail(p) \in Seq(S)
         /\ Head(p) \in S
         /\ Elements(p) = {Head(p)} \cup Elements(Tail(p))
  <1>1. /\ Tail(p) \in Seq(S) /\ Head(p) = p[1] /\ Head(p) \in S
        /\ Len(Tail(p)) = Len(p) - 1 /\ Len(p) > 0
        /\ \A k \in 1..Len(p) - 1 : Tail(p)[k] = p[k + 1]
    OBVIOUS
  <1>2. Elements(p) \subseteq {Head(p)} \cup Elements(Tail(p))
    <2> SUFFICES ASSUME NEW k \in 1..Len(p), k # 1
                 PROVE  p[k] \in Elements(Tail(p))
      BY <1>1 DEF Elements
    <2>1. k - 1 \in DOMAIN Tail(p) /\ Tail(p)[k - 1] = p[k]
      BY <1>1
    <2>2. QED
      BY <2>1 DEF Elements
  <1>3. {Head(p)} \cup Elements(Tail(p)) \subseteq Elements(p)
    <2>1. ASSUME NEW k \in DOMAIN Tail(p)
          PROVE  Tail(p)[k] \in Elements(p)
      <3>1. k + 1 \in 1..Len(p) /\ Tail(p)[k] = p[k + 1]
        BY <1>1
      <3>2. QED
        BY <3>1 DEF Elements
    <2>2. QED
      BY <1>1, <2>1 DEF Elements
  <1>4. QED
    BY <1>1, <1>2, <1>3

-----------------------------------------------------------------------------
(* The inductive invariant.                                                *)

LEMMA InitIInv == Init => IInv
  <1> SUFFICES ASSUME Init
               PROVE  IInv
    OBVIOUS
  <1>1. Elements(plan) = {} /\ OkTools = {} /\ plan \in Seq(ToolNames \cup {"done"})
    BY DEF Init, Elements, OkTools
  <1>2. TypeOK
    <2>1. results \in [ToolNames -> {"none", "ok", "partial", "failed"}]
      BY DEF Init
    <2>2. steps_taken \in 0..Budget /\ replans \in 0..MaxReplans
      BY ConstantsAssumption DEF Init
    <2>3. QED
      BY <1>1, <2>1, <2>2 DEF Init, TypeOK, PcValues
  <1>3. PlanCovers /\ EndCovers /\ IntentChosen /\ CallsCounted /\ StatusTruthful
    BY <1>1 DEF Init, PlanCovers, EndCovers, IntentChosen, CallsCounted, StatusTruthful
  <1>4. PlanShape
    BY <1>1 DEF Init, PlanShape
  <1>5. QED
    BY <1>2, <1>3, <1>4 DEF IInv

LEMMA PickIntentIInv == IInv /\ PickIntent => IInv'
  <1> SUFFICES ASSUME IInv, PickIntent
               PROVE  IInv'
    OBVIOUS
  <1>1. OkTools' = OkTools
    BY DEF PickIntent, OkTools
  <1>2. intent' \in VALID_INTENTS /\ (TrustEndpointIntent => intent' = hint)
    BY ConstantsAssumption DEF IInv, TypeOK, PickIntent
  <1>3. TypeOK'
    BY <1>2 DEF IInv, TypeOK, PickIntent, PcValues
  <1>4. (PlanCovers /\ EndCovers /\ IntentChosen /\ CallsCounted /\ StatusTruthful)'
    BY <1>1, <1>2 DEF IInv, PickIntent, PlanCovers, EndCovers, IntentChosen, CallsCounted,
                      StatusTruthful
  <1>5. PlanShape'
    BY DEF IInv, PickIntent, PlanShape, Elements
  <1>6. QED
    BY <1>3, <1>4, <1>5 DEF IInv

LEMMA MakePlanIInv == IInv /\ MakePlan => IInv'
  <1> SUFFICES ASSUME IInv, MakePlan
               PROVE  IInv'
    OBVIOUS
  <1>1. OkTools' = OkTools /\ Elements(plan)' = Elements(plan')
    BY DEF MakePlan, OkTools
  <1>2. intent \in VALID_INTENTS /\ (TrustEndpointIntent => intent = hint)
    BY DEF IInv, IntentChosen, MakePlan
  <1>3. PlanIsGood(plan')
    BY <1>2, MakePlanIsGood DEF MakePlan
  <1>4. /\ plan' \in Seq(ToolNames \cup {"done"})
        /\ \A k \in 1..Len(plan') : k < Len(plan') => plan'[k] # "done"
        /\ StandardSetup => Elements(plan') \subseteq Registry \cup {"done"}
        /\ PlanSatisfies(intent, Elements(plan') \cup OkTools)
    BY <1>3, GoodPlanShape
  <1>5. TypeOK'
    BY <1>4 DEF IInv, TypeOK, MakePlan, PlanFromModel, PlanFromReference, PcValues
  <1>6. PlanCovers'
    BY <1>1, <1>2, <1>4 DEF MakePlan, PlanCovers, StandardSetup
  <1>7. (EndCovers /\ IntentChosen /\ CallsCounted /\ StatusTruthful)'
    BY <1>1, <1>2 DEF IInv, MakePlan, EndCovers, IntentChosen, CallsCounted, StatusTruthful
  <1>8. PlanShape'
    BY <1>4 DEF PlanShape
  <1>9. QED
    BY <1>5, <1>6, <1>7, <1>8 DEF IInv

(* What popping the head of the plan leaves, used by the three step actions. *)
LEMMA PopPlan ==
  ASSUME IInv, LoopContinues, plan' = Tail(plan)
  PROVE  /\ plan' \in Seq(ToolNames \cup {"done"})
         /\ PlanShape'
         /\ Elements(plan) = {Head(plan)} \cup Elements(plan')
         /\ Head(plan) \in ToolNames \cup {"done"}
         /\ Head(plan) = "done" => plan' = << >>
         /\ StandardSetup => Head(plan) \in Registry \cup {"done"}
  <1>1. plan \in Seq(ToolNames \cup {"done"}) /\ plan # << >>
    BY DEF IInv, TypeOK, LoopContinues
  <1>2. /\ plan' \in Seq(ToolNames \cup {"done"})
        /\ Head(plan) \in ToolNames \cup {"done"}
        /\ Elements(plan) = {Head(plan)} \cup Elements(plan')
    BY <1>1, TakeStep
  <1>3. /\ Head(plan) = plan[1] /\ Len(plan') = Len(plan) - 1 /\ Len(plan) \in Nat \ {0}
        /\ \A k \in 1..Len(plan') : plan'[k] = plan[k + 1]
    BY <1>1
  <1>4. ASSUME NEW k \in 1..Len(plan'), k < Len(plan')
        PROVE  plan'[k] # "done"
    BY <1>3, <1>4 DEF IInv, PlanShape
  <1>5. PlanShape'
    BY <1>2, <1>4 DEF IInv, PlanShape
  <1>6. Head(plan) = "done" => plan' = << >>
    <2>1. Head(plan) = "done" => Len(plan) = 1
      BY <1>3 DEF IInv, PlanShape
    <2>2. QED
      BY <2>1, <1>2, <1>3
  <1>7. QED
    BY <1>2, <1>5, <1>6 DEF IInv, PlanShape

LEMMA StepDoneIInv == IInv /\ StepDone => IInv'
  <1> SUFFICES ASSUME IInv, StepDone
               PROVE  IInv'
    OBVIOUS
  <1>1. /\ plan' \in Seq(ToolNames \cup {"done"}) /\ PlanShape' /\ plan' = << >>
        /\ Elements(plan) = {"done"} \cup Elements(plan')
    BY PopPlan DEF StepDone
  <1>2. OkTools' = OkTools /\ pc = "loop" /\ intent \in VALID_INTENTS
    BY DEF StepDone, LoopContinues, OkTools, IInv, IntentChosen
  <1>3. StandardSetup /\ failed = {} => PlanSatisfies(hint, OkTools)
    <2> SUFFICES ASSUME StandardSetup, failed = {}
                 PROVE  PlanSatisfies(hint, OkTools)
      OBVIOUS
    <2>1. PlanSatisfies(hint, Elements(plan) \cup OkTools)
      BY <1>2 DEF IInv, PlanCovers
    <2>2. Elements(plan) = {"done"}
      BY <1>1 DEF Elements
    <2>3. Elements(plan) \cup OkTools = OkTools \cup {"done"}
      BY <2>2
    <2>4. hint \in VALID_INTENTS
      BY ConstantsAssumption DEF IInv, TypeOK
    <2>5. QED
      BY <2>1, <2>3, <2>4, DoneIsNoWork
  <1>4. StandardSetup => steps_taken > 0
    <2>1. CASE failed # {}
      BY <2>1 DEF IInv, CallsCounted
    <2>2. CASE failed = {} /\ StandardSetup
      <3>1. AllOf(hint) # {} /\ AllOf(hint) \subseteq OkTools
        BY <2>2, <1>3, RequirementsAreTools, ConstantsAssumption
           DEF PlanSatisfies, IInv, TypeOK
      <3>2. QED
        BY <3>1 DEF IInv, CallsCounted
    <2>3. QED
      BY <2>1, <2>2
  <1>5. TypeOK'
    BY <1>1 DEF IInv, TypeOK, StepDone, PcValues
  <1>6. (PlanCovers /\ IntentChosen /\ StatusTruthful)'
    BY <1>2 DEF IInv, StepDone, PlanCovers, IntentChosen, StatusTruthful
  <1>7. EndCovers'
    BY <1>2, <1>3 DEF StepDone, EndCovers, StandardSetup
  <1>8. CallsCounted'
    BY <1>2, <1>4 DEF IInv, StepDone, CallsCounted, StandardSetup
  <1>9. QED
    BY <1>1, <1>5, <1>6, <1>7, <1>8 DEF IInv

LEMMA StepUnknownToolIInv == IInv /\ StepUnknownTool => IInv'
  <1> SUFFICES ASSUME IInv, StepUnknownTool
               PROVE  IInv'
    OBVIOUS
  <1>1. /\ plan' \in Seq(ToolNames \cup {"done"}) /\ PlanShape'
        /\ StandardSetup => Head(plan) \in Registry \cup {"done"}
    BY PopPlan DEF StepUnknownTool
  <1>2. ~StandardSetup
    BY <1>1 DEF StepUnknownTool
  <1>3. OkTools' = OkTools
    BY DEF StepUnknownTool, OkTools
  <1>4. TypeOK'
    BY <1>1 DEF IInv, TypeOK, StepUnknownTool, PcValues
  <1>5. (PlanCovers /\ EndCovers)'
    BY <1>2 DEF PlanCovers, EndCovers, StandardSetup
  <1>6. (IntentChosen /\ CallsCounted /\ StatusTruthful)'
    BY <1>2, <1>3 DEF IInv, StepUnknownTool, LoopContinues, IntentChosen, CallsCounted,
                      StatusTruthful, StandardSetup
  <1>7. QED
    BY <1>1, <1>4, <1>5, <1>6 DEF IInv

LEMMA StepToolIInv == IInv /\ StepTool => IInv'
  <1> SUFFICES ASSUME IInv, StepTool
               PROVE  IInv'
    OBVIOUS
  <1> DEFINE t == Head(plan)
  <1>1. /\ plan' \in Seq(ToolNames \cup {"done"}) /\ PlanShape'
        /\ Elements(plan) = {t} \cup Elements(plan')
    BY PopPlan DEF StepTool
  <1>2. t \in ToolNames
    BY ConstantsAssumption DEF StepTool
  <1>3. PICK o \in Outcomes(t) :
          /\ results' = [results EXCEPT ![t] = o]
          /\ failed' = IF o = "failed" THEN failed \cup {t} ELSE failed
          /\ pc' = IF o = "failed" THEN "decide_next" ELSE "loop"
    BY DEF StepTool
  <1>4. o \in {"ok", "partial", "failed"}
    BY DEF Outcomes
  <1>5. o # "failed" => OkTools' = OkTools \cup {t}
    BY <1>2, <1>3, <1>4 DEF IInv, TypeOK, OkTools
  <1>6. /\ steps_taken' = steps_taken + 1 /\ steps_taken' \in 0..Budget /\ steps_taken' > 0
        /\ pc = "loop"
    BY ConstantsAssumption DEF IInv, TypeOK, StepTool, LoopContinues
  <1>7. TypeOK'
    <2>1. results' \in [ToolNames -> {"none", "ok", "partial", "failed"}]
      BY <1>3, <1>4 DEF IInv, TypeOK
    <2>2. failed' \subseteq ToolNames /\ pc' \in PcValues
      BY <1>2, <1>3 DEF IInv, TypeOK, PcValues
    <2>3. QED
      BY <1>1, <1>6, <2>1, <2>2 DEF IInv, TypeOK, StepTool
  <1>8. PlanCovers'
    <2> SUFFICES ASSUME StandardSetup, pc' = "loop", failed' = {}
                 PROVE  PlanSatisfies(hint, Elements(plan') \cup OkTools')
      BY DEF PlanCovers, StandardSetup, StepTool, Elements
    <2>1. o # "failed" /\ failed = {}
      BY <1>3
    <2>2. PlanSatisfies(hint, Elements(plan) \cup OkTools)
      BY <2>1, <1>6 DEF IInv, PlanCovers
    <2>3. Elements(plan) \cup OkTools = Elements(plan') \cup OkTools'
      BY <1>1, <1>5, <2>1
    <2>4. QED
      BY <2>2, <2>3
  <1>9. EndCovers'
    BY <1>3 DEF EndCovers
  <1>10. (IntentChosen /\ CallsCounted /\ StatusTruthful)'
    BY <1>3, <1>6 DEF IInv, StepTool, IntentChosen, CallsCounted, StatusTruthful, StandardSetup
  <1>11. QED
    BY <1>1, <1>7, <1>8, <1>9, <1>10 DEF IInv

LEMMA LeaveLoopIInv == IInv /\ LeaveLoop => IInv'
  <1> SUFFICES ASSUME IInv, LeaveLoop
               PROVE  IInv'
    OBVIOUS
  <1>1. OkTools' = OkTools /\ Elements(plan') = Elements(plan) /\ PlanShape'
    BY DEF LeaveLoop, OkTools, IInv, PlanShape, Elements
  <1>2. TypeOK'
    BY DEF IInv, TypeOK, LeaveLoop, PcValues
  <1>3. EndCovers'
    <2> SUFFICES ASSUME StandardSetup, failed = {}, steps_taken < Budget
                 PROVE  PlanSatisfies(hint, OkTools)
      BY <1>1 DEF EndCovers, StandardSetup, LeaveLoop
    <2>1. plan = << >>
      BY ConstantsAssumption DEF LeaveLoop, IInv, TypeOK
    <2>2. Elements(plan) \cup OkTools = OkTools
      BY <2>1 DEF Elements
    <2>3. QED
      BY <2>2 DEF IInv, PlanCovers, LeaveLoop
  <1>4. (PlanCovers /\ IntentChosen /\ CallsCounted /\ StatusTruthful)'
    BY <1>1 DEF IInv, LeaveLoop, PlanCovers, IntentChosen, CallsCounted, StatusTruthful
  <1>5. QED
    BY <1>1, <1>2, <1>3, <1>4 DEF IInv

LEMMA DecideNextIInv == IInv /\ DecideNext => IInv'
  <1> SUFFICES ASSUME IInv, DecideNext
               PROVE  IInv'
    OBVIOUS
  <1>1. PICK action \in Decisions :
          /\ pc' = CASE action = "replan"   -> "make_plan"
                     [] action = "continue" -> "loop"
                     [] action = "abort"    -> "decide_done"
          /\ replans' = IF action = "replan" THEN replans + 1 ELSE replans
    BY DEF DecideNext
  <1>2. /\ pc' \in {"make_plan", "loop", "decide_done"}
        /\ replans' \in 0..MaxReplans
    BY <1>1, ConstantsAssumption DEF Decisions, IInv, TypeOK
  <1>3. OkTools' = OkTools /\ PlanShape' /\ (StandardSetup => failed # {})
    BY DEF DecideNext, OkTools, IInv, PlanShape, Elements, CallsCounted
  <1>4. TypeOK'
    BY <1>2 DEF IInv, TypeOK, DecideNext, PcValues
  <1>5. (PlanCovers /\ EndCovers)'
    BY <1>3 DEF PlanCovers, EndCovers, DecideNext, StandardSetup
  <1>6. (IntentChosen /\ CallsCounted /\ StatusTruthful)'
    BY <1>2, <1>3 DEF IInv, DecideNext, IntentChosen, CallsCounted, StatusTruthful
  <1>7. QED
    BY <1>3, <1>4, <1>5, <1>6 DEF IInv

LEMMA DecideDoneIInv == IInv /\ DecideDone => IInv'
  <1> SUFFICES ASSUME IInv, DecideDone
               PROVE  IInv'
    OBVIOUS
  <1>1. OkTools' = OkTools /\ PlanShape'
    BY DEF DecideDone, OkTools, IInv, PlanShape, Elements
  <1>2. done' \in BOOLEAN
    BY DEF DecideDone, DoneAnswers
  <1>3. TypeOK'
    BY <1>2 DEF IInv, TypeOK, DecideDone, PcValues
  <1>4. StandardSetup => steps_taken > 0
    <2>1. CASE failed # {}
      BY <2>1 DEF IInv, CallsCounted
    <2>2. CASE failed = {} /\ StandardSetup /\ steps_taken = 0
      <3>1. PlanSatisfies(hint, OkTools)
        BY <2>2, ConstantsAssumption DEF IInv, EndCovers, DecideDone
      <3>2. AllOf(hint) # {} /\ AllOf(hint) \subseteq OkTools
        BY <3>1, RequirementsAreTools, ConstantsAssumption DEF PlanSatisfies, IInv, TypeOK
      <3>3. QED
        BY <2>2, <3>2 DEF IInv, CallsCounted
    <2>3. QED
      BY <2>1, <2>2 DEF IInv, TypeOK
  <1>5. (PlanCovers /\ EndCovers /\ IntentChosen /\ CallsCounted /\ StatusTruthful)'
    BY <1>1, <1>4 DEF IInv, DecideDone, PlanCovers, EndCovers, IntentChosen, CallsCounted,
                      StatusTruthful, StandardSetup
  <1>6. QED
    BY <1>1, <1>3, <1>5 DEF IInv

LEMMA FatalErrorIInv == IInv /\ FatalError => IInv'
  <1> SUFFICES ASSUME IInv, FatalError
               PROVE  IInv'
    OBVIOUS
  <1>1. OkTools' = OkTools /\ PlanShape'
    BY DEF FatalError, OkTools, IInv, PlanShape, Elements
  <1>2. TypeOK'
    BY DEF IInv, TypeOK, FatalError, PcValues
  <1>3. (PlanCovers /\ EndCovers /\ IntentChosen /\ CallsCounted /\ StatusTruthful)'
    BY <1>1 DEF IInv, FatalError, PlanCovers, EndCovers, IntentChosen, CallsCounted,
                StatusTruthful
  <1>4. QED
    BY <1>1, <1>2, <1>3 DEF IInv

LEMMA RespondIInv == IInv /\ Respond => IInv'
  <1> SUFFICES ASSUME IInv, Respond
               PROVE  IInv'
    OBVIOUS
  <1>1. OkTools' = OkTools /\ PlanShape'
    BY DEF Respond, OkTools, IInv, PlanShape, Elements
  <1>2. /\ Status \in {"completed", "partial", "incomplete"}
        /\ Status = "completed" => done /\ failed = {}
        /\ Status = "partial" => done
    BY DEF Status, IInv, TypeOK
  <1>3. TypeOK'
    BY <1>2 DEF IInv, TypeOK, Respond, PcValues
  <1>4. (PlanCovers /\ EndCovers /\ IntentChosen /\ CallsCounted)'
    BY <1>1 DEF IInv, Respond, PlanCovers, EndCovers, IntentChosen, CallsCounted
  <1>5. StatusTruthful'
    BY <1>2 DEF Respond, StatusTruthful
  <1>6. QED
    BY <1>1, <1>3, <1>4, <1>5 DEF IInv

LEMMA StutterIInv == IInv /\ UNCHANGED vars => IInv'
  BY DEF IInv, TypeOK, PlanCovers, EndCovers, PlanShape, IntentChosen, CallsCounted,
         StatusTruthful, OkTools, Elements, vars

(* IInv holds throughout every run.                                        *)
THEOREM Invariance == Spec => []IInv
  <1>1. IInv /\ [Next]_vars => IInv'
    BY PickIntentIInv, MakePlanIInv, StepDoneIInv, StepUnknownToolIInv, StepToolIInv,
       LeaveLoopIInv, DecideNextIInv, DecideDoneIInv, FatalErrorIInv, RespondIInv, StutterIInv
       DEF Next, Finished
  <1>2. QED
    BY InitIInv, <1>1, PTL DEF Spec

(* The state of a run stays within its types, its budget and its replans.  *)
THEOREM TypeCorrect == Spec => []TypeOK
  <1>1. IInv => TypeOK
    BY DEF IInv
  <1>2. QED
    BY <1>1, Invariance, PTL

(* A run reported "completed" within its budget did all its endpoint needs. *)
THEOREM CompletedIsTrue == Spec => []CompletedMeansRequired
  <1>1. IInv => CompletedMeansRequired
    BY DEF IInv, CompletedMeansRequired, EndCovers, StatusTruthful
  <1>2. QED
    BY <1>1, Invariance, PTL

-----------------------------------------------------------------------------
(* What succeeded is not run again.                                        *)

LEMMA ReferencePlansAreDistinct ==
  ASSUME NEW i \in VALID_INTENTS,
         NEW a \in DOMAIN REFERENCE_PLANS[i], NEW b \in DOMAIN REFERENCE_PLANS[i],
         REFERENCE_PLANS[i][a] = REFERENCE_PLANS[i][b]
  PROVE  a = b
  <1>1. CASE i = "proposal_generation"
    BY <1>1 DEF REFERENCE_PLANS
  <1>2. CASE i = "revision"
    BY <1>2 DEF REFERENCE_PLANS
  <1>3. CASE i = "document_match"
    BY <1>3 DEF REFERENCE_PLANS
  <1>4. CASE i = "market_research"
    BY <1>4 DEF REFERENCE_PLANS
  <1>5. CASE i = "intent_detection"
    BY <1>5 DEF REFERENCE_PLANS
  <1>6. QED
    BY <1>1, <1>2, <1>3, <1>4, <1>5 DEF VALID_INTENTS

(* Distinct tools that have no ok result yet, and then "done".             *)
LEMMA AppendedIsFresh ==
  ASSUME NEW s \in Seq(ToolNames),
         Elements(s) \cap OkTools = {},
         \A i, j \in DOMAIN s : s[i] = s[j] => i = j
  PROVE  FreshPlan(Append(s, "done"))
  <1> DEFINE p == Append(s, "done")
  <1>1. /\ DOMAIN p = 1..Len(s) + 1 /\ DOMAIN s = 1..Len(s) /\ Len(s) \in Nat
        /\ p[Len(s) + 1] = "done"
        /\ \A k \in 1..Len(s) : p[k] = s[k] /\ s[k] \in ToolNames
    OBVIOUS
  <1>2. "done" \notin ToolNames
    BY DEF ToolNames
  <1>3. Elements(p) \cap OkTools = {}
    BY <1>2, ElementsOfAppend DEF OkTools
  <1>4. \A i, j \in DOMAIN p : p[i] = p[j] => i = j
    <2> SUFFICES ASSUME NEW i \in 1..Len(s) + 1, NEW j \in 1..Len(s) + 1, p[i] = p[j]
                 PROVE  i = j
      BY <1>1
    <2>1. i = Len(s) + 1 <=> j = Len(s) + 1
      BY <1>1, <1>2
    <2>2. QED
      BY <1>1, <2>1
  <1>5. QED
    BY <1>3, <1>4 DEF FreshPlan

LEMMA MakePlanIsFresh ==
  ASSUME intent \in VALID_INTENTS, PlanFromReference,
         ~LlmPlanning => OkTools = {}
  PROVE  FreshPlan(plan')
  <1> DEFINE ref == REFERENCE_PLANS[intent]
             left == Elements(ref) \ OkTools
  <1>1. ref \in Seq(ToolNames) /\ DOMAIN ref = 1..Len(ref)
    BY ReferencePlansAreTools
  <1>2. CASE LlmPlanning
    <2>1. PICK s \in Sequences(left, Len(ref)) :
            /\ plan' = Append(s, "done")
            /\ Elements(s) = left
            /\ \A i, j \in DOMAIN s : i < j => Precedes(ref, s[i], s[j])
      BY <1>2 DEF PlanFromReference, RemainingReferencePlans
    <2>2. s \in Seq(ToolNames) /\ DOMAIN s = 1..Len(s) /\ Len(s) \in Nat
      BY <2>1, ReferencePlansAreTools DEF Sequences
    <2>3. ASSUME NEW i \in DOMAIN s, NEW j \in DOMAIN s, i < j
          PROVE  s[i] # s[j]
      <3>1. PICK a, b \in DOMAIN ref : a < b /\ ref[a] = s[i] /\ ref[b] = s[j]
        BY <2>1, <2>3 DEF Precedes
      <3>2. a # b
        BY <1>1, <3>1
      <3>3. QED
        BY <3>1, <3>2, ReferencePlansAreDistinct
    <2>4. ASSUME NEW i \in DOMAIN s, NEW j \in DOMAIN s, s[i] = s[j]
          PROVE  i = j
      <3>1. i \in Nat /\ j \in Nat /\ ~(i < j) /\ ~(j < i)
        BY <2>2, <2>3, <2>4
      <3>2. QED
        BY <3>1
    <2>5. QED
      BY <2>1, <2>2, <2>4, AppendedIsFresh
  <1>3. CASE ~LlmPlanning
    <2>1. plan' = Append(ref, "done") /\ OkTools = {}
      BY <1>3 DEF PlanFromReference, FullReferencePlan
    <2>2. QED
      BY <1>1, <2>1, ReferencePlansAreDistinct, AppendedIsFresh
  <1>4. QED
    BY <1>2, <1>3

(* Taking the first step: it is not executed ok, and does not come again.   *)
LEMMA FreshStep ==
  ASSUME NEW S, NEW p \in Seq(S), p # << >>, FreshPlan(p)
  PROVE  /\ Head(p) \notin OkTools
         /\ Head(p) \notin Elements(Tail(p))
         /\ FreshPlan(Tail(p))
  <1>1. /\ Head(p) = p[1] /\ DOMAIN p = 1..Len(p) /\ Len(p) \in Nat \ {0}
        /\ DOMAIN Tail(p) = 1..(Len(p) - 1)
        /\ \A k \in 1..(Len(p) - 1) : Tail(p)[k] = p[k + 1]
    OBVIOUS
  <1>2. Elements(p) = {Head(p)} \cup Elements(Tail(p))
    BY TakeStep
  <1>3. Head(p) \notin Elements(Tail(p))
    <2> SUFFICES ASSUME NEW k \in 1..(Len(p) - 1), p[k + 1] = p[1]
                 PROVE  FALSE
      BY <1>1 DEF Elements
    <2>1. k + 1 \in DOMAIN p /\ 1 \in DOMAIN p /\ k + 1 # 1
      BY <1>1
    <2>2. QED
      BY <2>1 DEF FreshPlan
  <1>4. \A i, j \in DOMAIN Tail(p) : Tail(p)[i] = Tail(p)[j] => i = j
    <2> SUFFICES ASSUME NEW i \in 1..(Len(p) - 1), NEW j \in 1..(Len(p) - 1),
                        p[i + 1] = p[j + 1]
                 PROVE  i = j
      BY <1>1
    <2>1. i + 1 \in DOMAIN p /\ j + 1 \in DOMAIN p
      BY <1>1
    <2>2. i + 1 = j + 1
      BY <2>1 DEF FreshPlan
    <2>3. QED
      BY <2>2
  <1>5. QED
    BY <1>2, <1>3, <1>4 DEF FreshPlan

(* A run of a tool in a plan that leaves out what was executed ok: nothing   *)
(* ok is replaced, and the rest of the plan stays fresh.                    *)
LEMMA StepToolIsFresh ==
  ASSUME IInv, FreshPlan(plan), StepTool
  PROVE  /\ \A t \in OkTools : results'[t] = results[t]
         /\ FreshPlan(plan)'
  <1>1. plan \in Seq(ToolNames \cup {"done"}) /\ plan # << >>
    BY DEF IInv, TypeOK, StepTool, LoopContinues
  <1>2. /\ Head(plan) \notin OkTools
        /\ Head(plan) \notin Elements(Tail(plan))
        /\ FreshPlan(Tail(plan))
    BY <1>1, FreshStep
  <1>3. Head(plan) \in ToolNames
    BY ConstantsAssumption DEF StepTool
  <1>4. PICK o \in Outcomes(Head(plan)) : results' = [results EXCEPT ![Head(plan)] = o]
    BY DEF StepTool
  <1>5. results \in [ToolNames -> {"none", "ok", "partial", "failed"}] /\ plan' = Tail(plan)
    BY DEF IInv, TypeOK, StepTool
  <1>6. \A t \in ToolNames : t # Head(plan) => results'[t] = results[t]
    BY <1>4, <1>5
  <1>7. OkTools' \subseteq OkTools \cup {Head(plan)}
    BY <1>6 DEF OkTools
  <1>8. FreshPlan(plan)'
    <2>1. Elements(Tail(plan)) \cap OkTools' = {}
      BY <1>2, <1>7 DEF FreshPlan
    <2>2. QED
      BY <1>2, <1>5, <2>1 DEF FreshPlan, Elements
  <1>9. QED
    BY <1>2, <1>6, <1>8 DEF OkTools

(* StepsAreFresh is inductive under IInv.                                  *)
LEMMA StepsStayFresh ==
  ASSUME IInv, StepsAreFresh, [Next]_vars
  PROVE  StepsAreFresh'
  <1>1. CASE MakePlan
    <2>1. /\ intent \in VALID_INTENTS /\ OkTools' = OkTools /\ replans' = replans
          /\ replans = 0 => OkTools = {}
      BY <1>1 DEF IInv, IntentChosen, StepsAreFresh, MakePlan, OkTools
    <2>2. how' = "reference" \/ (how' = "model" /\ LlmPlanning)
      BY <1>1 DEF MakePlan, PlanFromModel, PlanFromReference
    <2>3. ASSUME LeavesOutOk'
          PROVE  FreshPlan(plan)'
      <3>1. PlanFromReference /\ (~LlmPlanning => OkTools = {})
        BY <1>1, <2>1, <2>3 DEF LeavesOutOk, MakePlan, PlanFromModel
      <3>2. FreshPlan(plan')
        BY <2>1, <3>1, MakePlanIsFresh
      <3>3. QED
        BY <2>1, <3>2 DEF FreshPlan, Elements
    <2>4. pc' = "loop"
      BY <1>1 DEF MakePlan
    <2>5. QED
      BY <2>2, <2>3, <2>4 DEF StepsAreFresh
  <1>2. CASE StepTool
    <2>1. pc' \in {"loop", "decide_next"} /\ pc = "loop" /\ UNCHANGED <<how, replans>>
      BY <1>2 DEF StepTool, LoopContinues
    <2>2. LeavesOutOk' => FreshPlan(plan)'
      BY <1>2, <2>1, StepToolIsFresh DEF StepsAreFresh, LeavesOutOk
    <2>3. QED
      BY <2>1, <2>2 DEF StepsAreFresh
  <1>3. CASE StepUnknownTool
    <2>1. plan \in Seq(ToolNames \cup {"done"}) /\ plan # << >>
      BY <1>3 DEF IInv, TypeOK, StepUnknownTool, LoopContinues
    <2>2. /\ pc = "loop" /\ pc' = "decide_next" /\ plan' = Tail(plan) /\ OkTools' = OkTools
          /\ UNCHANGED <<how, replans>>
      BY <1>3 DEF StepUnknownTool, LoopContinues, OkTools
    <2>3. ASSUME LeavesOutOk'
          PROVE  FreshPlan(plan)'
      <3>1. FreshPlan(plan)
        BY <2>2, <2>3 DEF StepsAreFresh, LeavesOutOk
      <3>2. FreshPlan(Tail(plan))
        BY <2>1, <3>1, FreshStep
      <3>3. QED
        BY <2>2, <3>2 DEF FreshPlan, Elements
    <2>4. QED
      BY <2>2, <2>3 DEF StepsAreFresh
  <1>4. CASE DecideNext
    <2>1. UNCHANGED <<plan, how, results>> /\ pc = "decide_next"
      BY <1>4 DEF DecideNext
    <2>2. \/ pc' \in {"loop", "decide_done"} /\ replans' = replans
          \/ pc' = "make_plan" /\ replans' = replans + 1
      BY <1>4 DEF DecideNext, Decisions
    <2>3. pc' = "make_plan" => replans' # 0
      BY <2>2, ConstantsAssumption DEF IInv, TypeOK
    <2>4. pc' = "loop" => (LeavesOutOk' => FreshPlan(plan)')
      BY <2>1, <2>2 DEF StepsAreFresh, LeavesOutOk, FreshPlan, Elements, OkTools
    <2>5. QED
      BY <2>1, <2>2, <2>3, <2>4 DEF StepsAreFresh
  <1>5. CASE PickIntent
    BY <1>5 DEF PickIntent, StepsAreFresh, OkTools
  <1>6. CASE StepDone \/ LeaveLoop \/ DecideDone \/ FatalError \/ Respond
    BY <1>6 DEF StepDone, LeaveLoop, DecideDone, FatalError, Respond, StepsAreFresh
  <1>7. CASE UNCHANGED vars
    BY <1>7 DEF vars, StepsAreFresh, LeavesOutOk, FreshPlan, Elements, OkTools
  <1>8. QED
    BY <1>1, <1>2, <1>3, <1>4, <1>5, <1>6, <1>7 DEF Next, Finished

(* For every registry, planner model, budget and limit: a tool that          *)
(* succeeded is run again to another result only by a plan of the planner   *)
(* model, or, with planning by the model switched off, after a replan; the  *)
(* supervisor's own plans never do it, whatever failed and whoever planned  *)
(* before.                                                                 *)
THEOREM OkResultsStay == Spec => OkResultsKept
  <1> DEFINE Kept == \A t \in OkTools : results'[t] # results[t] =>
                       IF LlmPlanning THEN how = "model" ELSE replans > 0
  <1>1. Init => StepsAreFresh
    BY DEF Init, StepsAreFresh, OkTools
  <1>2. IInv /\ StepsAreFresh /\ [Next]_vars => StepsAreFresh'
    BY StepsStayFresh
  <1>3. IInv /\ StepsAreFresh /\ [Next]_vars => [Kept]_vars
    <2> SUFFICES ASSUME IInv, StepsAreFresh, [Next]_vars
                 PROVE  UNCHANGED vars \/ Kept
      OBVIOUS
    <2>1. CASE StepTool
      <3>1. CASE LeavesOutOk
        <4>1. FreshPlan(plan)
          BY <2>1, <3>1 DEF StepsAreFresh, StepTool, LoopContinues
        <4>2. QED
          BY <2>1, <4>1, StepToolIsFresh
      <3>2. CASE ~LeavesOutOk
        <4>1. how = "reference" \/ (how = "model" /\ LlmPlanning)
          BY <2>1 DEF StepsAreFresh, StepTool, LoopContinues
        <4>2. replans = 0 \/ replans > 0
          BY ConstantsAssumption DEF IInv, TypeOK
        <4>3. QED
          BY <3>2, <4>1, <4>2 DEF LeavesOutOk
      <3>3. QED
        BY <3>1, <3>2
    <2>2. CASE ~StepTool /\ Next
      <3>1. UNCHANGED results
        BY <2>2 DEF Next, PickIntent, MakePlan, StepDone, StepUnknownTool, LeaveLoop, DecideNext,
                    DecideDone, FatalError, Respond, Finished, vars
      <3>2. QED
        BY <3>1
    <2>3. QED
      BY <2>1, <2>2
  <1>4. QED
    BY <1>1, <1>2, <1>3, Invariance, PTL DEF Spec, OkResultsKept

-----------------------------------------------------------------------------
(* The refinement: every step of a run is a contract step or invisible.     *)

LEMMA InvisibleSteps ==
  ASSUME PickIntent \/ MakePlan \/ StepDone \/ StepUnknownTool \/ LeaveLoop
           \/ DecideNext \/ DecideDone \/ UNCHANGED vars
  PROVE  UNCHANGED Contract!contractVars
  <1>1. UNCHANGED <<hint, results, failed, steps_taken, status>>
    BY DEF PickIntent, MakePlan, StepDone, StepUnknownTool, LeaveLoop, DecideNext, DecideDone,
           vars
  <1>2. QED
    BY <1>1 DEF Contract!contractVars, OkTools

LEMMA ToolStepIsCall ==
  ASSUME IInv, StepTool
  PROVE  Contract!Call(Head(plan))
  <1> DEFINE t == Head(plan)
  <1>1. t \in ToolNames
    BY ConstantsAssumption DEF StepTool
  <1>2. PICK o \in Outcomes(t) :
          /\ results' = [results EXCEPT ![t] = o]
          /\ failed' = IF o = "failed" THEN failed \cup {t} ELSE failed
    BY DEF StepTool
  <1>3. o \in {"ok", "partial", "failed"}
    BY DEF Outcomes
  <1>4. OkTools' = IF o = "failed" THEN OkTools \ {t} ELSE OkTools \cup {t}
    BY <1>1, <1>2, <1>3 DEF IInv, TypeOK, OkTools
  <1>5. (failed' # {}) = (IF o = "failed" THEN TRUE ELSE failed # {})
    BY <1>2
  <1>6. status = "none" /\ status' = "none" /\ hint' = hint
    BY DEF IInv, StatusTruthful, StepTool, LoopContinues
  <1>7. steps_taken < Budget /\ steps_taken' = steps_taken + 1
    BY DEF StepTool, LoopContinues
  <1>8. CASE o = "failed"
    BY <1>4, <1>5, <1>6, <1>7, <1>8 DEF Contract!Call
  <1>9. CASE o # "failed"
    BY <1>4, <1>5, <1>6, <1>7, <1>9 DEF Contract!Call
  <1>10. QED
    BY <1>8, <1>9

LEMMA ErrorIsConclusion ==
  ASSUME IInv, FatalError
  PROVE  Contract!Conclude("error")
  <1>1. OkTools' = OkTools
    BY DEF FatalError, OkTools
  <1>2. pc \notin {"returned", "raised"}
    BY DEF FatalError, ModelIsAsked, ToolIsCalled, LoopContinues
  <1>3. QED
    BY <1>1, <1>2 DEF IInv, StatusTruthful, FatalError, Contract!Conclude

LEMMA ResponseIsConclusion ==
  ASSUME StandardSetup, IInv, Respond
  PROVE  Contract!Conclude(Status)
  <1>1. OkTools' = OkTools
    BY DEF Respond, OkTools
  <1>2. status = "none" /\ status' = Status /\ Status # "none"
    BY DEF IInv, StatusTruthful, Respond, Status
  <1>3. Status = "completed" => done /\ failed = {}
    BY DEF Status, IInv, TypeOK
  <1>4. Status = "partial" => steps_taken > 0
    BY DEF Status, IInv, TypeOK, CallsCounted, Respond
  <1>5. Status = "completed" => Contract!TruthfulCompletion
    <2> SUFFICES ASSUME done, failed = {}
                 PROVE  Contract!TruthfulCompletion
      BY <1>3
    <2>1. steps_taken > 0
      BY DEF IInv, CallsCounted, Respond
    <2>2. steps_taken < Budget => PlanSatisfies(hint, OkTools)
      BY DEF IInv, EndCovers, Respond
    <2>3. steps_taken \in 0..Budget /\ Budget \in Nat
      BY ConstantsAssumption DEF IInv, TypeOK
    <2>4. QED
      BY <2>1, <2>2, <2>3 DEF Contract!TruthfulCompletion
  <1>6. QED
    BY <1>1, <1>2, <1>4, <1>5 DEF Respond, Contract!Conclude

(* With the standard registry and trusted endpoints, every run keeps the    *)
(* contract: bounded calls, one final verdict, and no untrue "completed".   *)
THEOREM RunImplementsContract ==
  ASSUME StandardSetup
  PROVE  Spec => ImplementsContract
  <1>1. Init => Contract!Init
    BY DEF Init, Contract!Init, OkTools
  <1>2. IInv /\ [Next]_vars => [Contract!Next]_(Contract!contractVars)
    <2> SUFFICES ASSUME IInv, [Next]_vars
                 PROVE  [Contract!Next]_(Contract!contractVars)
      OBVIOUS
    <2>1. CASE StepTool
      <3>1. Head(plan) \in Registry
        BY <2>1 DEF StepTool
      <3>2. QED
        BY <2>1, <3>1, ToolStepIsCall DEF Contract!Next
    <2>2. CASE FatalError
      BY <2>2, ErrorIsConclusion DEF Contract!Next, Contract!Verdicts
    <2>3. CASE Respond
      <3>1. Status \in Contract!Verdicts
        BY DEF Status, IInv, TypeOK, Contract!Verdicts
      <3>2. QED
        BY <2>3, <3>1, ResponseIsConclusion DEF Contract!Next
    <2>4. CASE PickIntent \/ MakePlan \/ StepDone \/ StepUnknownTool \/ LeaveLoop
                 \/ DecideNext \/ DecideDone \/ UNCHANGED vars
      BY <2>4, InvisibleSteps
    <2>5. QED
      BY <2>1, <2>2, <2>3, <2>4 DEF Next, Finished
  <1>3. QED
    BY <1>1, <1>2, Invariance, PTL DEF Spec, ImplementsContract, Contract!Spec
=============================================================================
