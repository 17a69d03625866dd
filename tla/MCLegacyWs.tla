----------------------------- MODULE MCLegacyWs -----------------------------
(* Model values of LegacyWs for TLC: two symmetric channels. *)
EXTENDS LegacyWs, TLC

CONSTANTS c1, c2

MCChannel  == {c1, c2}
MCSymmetry == Permutations(MCChannel)
=============================================================================
