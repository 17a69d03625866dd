---------------------------- MODULE MCStreamRelay ----------------------------
(* Model values of StreamRelay for TLC. *)
EXTENDS StreamRelay, TLC

CONSTANTS m1, m2

MCMessageId == {m1, m2}

MCStreamSymmetry == Permutations(MCMessageId)
=============================================================================
