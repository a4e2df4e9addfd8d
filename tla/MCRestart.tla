----------------------------- MODULE MCRestart -----------------------------
(* Restart on the instances of MCPipeline. *)
EXTENDS MCPipeline, Restart
=============================================================================
