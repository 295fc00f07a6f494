--------------------------- MODULE MCLogPipeline ---------------------------
(* LogPipeline with a short log; the application has stopped when it has    *)
(* used up its bounds, and the client goes on.                              *)
EXTENDS LogPipeline
=============================================================================
