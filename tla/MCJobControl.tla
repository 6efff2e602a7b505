---------------------------- MODULE MCJobControl ----------------------------
(* Instances of JobControl for TLC: the lines the user may type in each run. *)
EXTENDS JobControl

MCAllLines == AllLines
MCNoServer == {"builtin", "external", "background", "pipeline", "bgPipeline", "exit"}
MCPipelineAndServer == {"pipeline", "startServer"}
MCServers == {"builtin", "background", "startServer", "closeServer"}
MCNone == {}
MCBoth == {"fork", "pipe"}
=============================================================================
