-------------------------- MODULE WorkflowContract --------------------------
(***************************************************************************)
(* What one agentic workflow run promises to the endpoint that starts it,  *)
(* whatever the supervisor model answers.  A run works by calling tools,   *)
(* at most Budget times, and ends once, with a verdict that tells the      *)
(* truth about the calls: "completed" needs at least one call, no failed   *)
(* call, and the work the endpoint requires (unless the budget stopped the *)
(* run early).  AgenticRun is shown to implement this specification.       *)
(***************************************************************************)
EXTENDS Naturals

CONSTANTS Tools,         \* the tools of the registry
          Budget,        \* tool calls one run may make
          Endpoints,     \* the endpoints that start runs
          Enough(_, _)   \* Enough(e, S): successful calls of S do the work of endpoint e

VARIABLES endpoint,    \* the endpoint this run answers
          worked,      \* the tools whose latest call succeeded
          failures,    \* whether any call failed
          calls,       \* the number of tool calls made
          verdict      \* "open" until the run ends

contractVars == <<endpoint, worked, failures, calls, verdict>>

Verdicts == {"completed", "partial", "incomplete", "error"}

Init == /\ endpoint \in Endpoints
        /\ worked = {}
        /\ failures = FALSE
        /\ calls = 0
        /\ verdict = "open"

(* One tool call.  A failed call takes the tool out of `worked`: the later  *)
(* result replaces the earlier one.                                        *)
Call(t) == /\ verdict = "open"
           /\ calls < Budget
           /\ calls' = calls + 1
           /\ \/ /\ worked' = worked \cup {t}
                 /\ UNCHANGED failures
              \/ /\ worked' = worked \ {t}
                 /\ failures' = TRUE
           /\ UNCHANGED <<endpoint, verdict>>

TruthfulCompletion == /\ calls > 0
                      /\ ~failures
                      /\ Enough(endpoint, worked) \/ calls = Budget

Conclude(v) == /\ verdict = "open"
               /\ v = "completed" => TruthfulCompletion
               /\ v = "partial" => calls > 0
               /\ verdict' = v
               /\ UNCHANGED <<endpoint, worked, failures, calls>>

Next == \/ \E t \in Tools : Call(t)
        \/ \E v \in Verdicts : Conclude(v)

Spec == Init /\ [][Next]_contractVars
=============================================================================
