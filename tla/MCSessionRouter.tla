-------------------------- MODULE MCSessionRouter --------------------------
(* SessionRouter for TLC: messages are interchangeable model values.        *)
EXTENDS SessionService, TLC

MsgSymmetry == Permutations(Msgs)
=============================================================================
