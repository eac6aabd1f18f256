--------------------------- MODULE MCEventStream ---------------------------
(* EventStream for TLC.                                                     *)
EXTENDS EventStream

(* Every line is two events, a thinking and an answer.                      *)
MCShapes == {Line("assistant", TRUE, FALSE, 1, 0)}
=============================================================================
