------------------------- MODULE MCRestartRecovery -------------------------
(* RestartRecovery for TLC: messages are interchangeable model values.      *)
EXTENDS RestartRecovery, TLC

MsgSymmetry == Permutations(Msgs)
=============================================================================
