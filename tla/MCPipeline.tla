----------------------------- MODULE MCPipeline -----------------------------
(***************************************************************************)
(* Small instances of Pipeline.tla for TLC.                                *)
(***************************************************************************)
EXTENDS Pipeline
=============================================================================
