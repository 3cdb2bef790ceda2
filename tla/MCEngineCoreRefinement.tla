----------------------- MODULE MCEngineCoreRefinement -----------------------
(***************************************************************************)
(* The instance of MCEngineCore on which TLC checks the refinement.        *)
(***************************************************************************)
EXTENDS MCEngineCore, EngineCoreRefinement

============================================================================
