--------------------------- MODULE MCPipelineWatch ---------------------------
(***************************************************************************)
(* Bounds for TLC: the three kinds of pipeline, a short bus.               *)
(***************************************************************************)
EXTENDS PipelineWatch

AllKinds == {"primary", "audio_disabled", "software"}
=============================================================================
