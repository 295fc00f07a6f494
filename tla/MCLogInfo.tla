----------------------------- MODULE MCLogInfo -----------------------------
(* LogInfo with lengths on both sides of a digit's limit, for the base 4:   *)
(* lengths of one, two and three digits.                                    *)
EXTENDS LogInfo

MCNames     == {[i \in 1 .. n |-> i] : n \in {1, 3, 4, 5, 16}}
MCBlockLens == 1 .. 17
=============================================================================
