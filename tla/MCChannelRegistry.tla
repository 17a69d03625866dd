------------------------- MODULE MCChannelRegistry --------------------------
(* Model values of ChannelRegistry for TLC: two keys whose generated names  *)
(* are the same.                                                            *)
EXTENDS ChannelRegistry, TLC

CONSTANTS k1, k2, q, i1, i2

MCKey       == {k1, k2}
MCName      == {k1, k2, q}
MCPlainName == {k1, k2}
MCQuickName == [k \in MCKey |-> q]
MCIp        == {i1, i2}

MCRegSymmetry == Permutations(MCKey) \cup Permutations(MCIp)
=============================================================================
