--------------------------- MODULE MCProcessTask ---------------------------
(* ProcessTask on a few messages with bodies of different lengths.         *)
EXTENDS ProcessTask

MCBodyLen == <<3, 1, 4, 2>>
=============================================================================
