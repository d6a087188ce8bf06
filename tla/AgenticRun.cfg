\* Default settings, small plans: drafting endpoints, a planner model that may
\* answer anything of up to two steps.
SPECIFICATION Spec
CONSTANTS
  Endpoints <- DraftingEndpoints
  Registry <- ToolNames
  PlannerTools <- ToolsForDrafting
  MaxModelSteps = 2
  Budget = 5
  MaxReplans = 2
  TrustEndpointIntent = TRUE
  LlmPlanning = TRUE
INVARIANTS CompletedMeansRequired
PROPERTIES ImplementsContract OkResultsKept
