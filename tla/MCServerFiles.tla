--------------------------- MODULE MCServerFiles ---------------------------
(* ServerFiles with connections that share one path, on a clock that is    *)
(* put back once.                                                          *)
EXTENDS ServerFiles, TLC

CONSTANT LogPath

MCPathOf == [t \in Tasks |-> LogPath]

\* A minute ends, and then the second before comes again.
MCLocalTime ==
  [s \in 0 .. MaxSeconds |->
     IF s = 1 THEN [minute |-> 1, second |-> 0] ELSE [minute |-> 0, second |-> 59]]

MCSymmetry == Permutations(Tasks)
=============================================================================
