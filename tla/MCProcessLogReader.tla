------------------------- MODULE MCProcessLogReader -------------------------
(* ProcessLogReader on a short file; the application has stopped when it    *)
(* has used up its bounds, and the reader goes on.                         *)
EXTENDS ProcessLogReader
=============================================================================
