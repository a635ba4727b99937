--------------------------- MODULE MCOrchestrator ---------------------------
(***************************************************************************)
(* Model-checking instance of Orchestrator.  Every onopen and every        *)
(* refreshData() starts a fetchOrchestratorData call whose three fetches   *)
(* settle independently; the search is cut at MaxHydrations calls.         *)
(***************************************************************************)
EXTENDS Orchestrator

CONSTANT MaxHydrations

HydrationBound == Len(hydr) <= MaxHydrations
=============================================================================
