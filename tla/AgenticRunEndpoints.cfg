\* Every endpoint under the default budget and replans.  The model chooses the
\* intent but makes no usable plan, and the tools lack one of the plans' tools.
SPECIFICATION FairSpec
CONSTANTS
  Endpoints <- AllEndpoints
  Registry <- RegistryWithoutScoring
  PlannerTools <- NoTools
  MaxModelSteps = 0
  Budget = 12
  MaxReplans = 2
  TrustEndpointIntent = FALSE
  LlmPlanning = TRUE
PROPERTIES Termination
