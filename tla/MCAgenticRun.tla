---------------------------- MODULE MCAgenticRun ----------------------------
(* Instances of AgenticRun for TLC: which endpoints start runs, and which   *)
(* tools the planner model may name in its own plans.                      *)
EXTENDS AgenticRun

AllEndpoints == VALID_INTENTS

DraftingEndpoints == {"proposal_generation", "revision"}

ToolsForDrafting == {"structure_request", "generate_proposal_sections",
                     "generate_section", "revise_section"}

NoTools == {}

RegistryWithoutScoring == ToolNames \ {"score_proposal"}
=============================================================================
