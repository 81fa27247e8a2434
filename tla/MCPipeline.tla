------------------------------ MODULE MCPipeline ------------------------------
(* TLC instances of a pipeline: PipelineDag and PipelineExecutor. *)
EXTENDS PipelineExecutor
===============================================================================
