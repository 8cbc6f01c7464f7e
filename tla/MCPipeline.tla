----------------------------- MODULE MCPipeline -----------------------------
(* Model-checking instance of Pipeline; the constants are in the .cfg. *)
EXTENDS Pipeline
=============================================================================
