----------------------------- MODULE MCFrontend -----------------------------
(* Model values of Frontend for TLC: one channel and two tabs on it. *)
EXTENDS Frontend, TLC

CONSTANTS c1, t1, t2, m1

MCChannel    == {c1}
MCTab        == {t1, t2}
MCMessage    == {m1}
MCMsgChannel == [m \in MCMessage |-> c1]
MCFact       == {<<m1, "reaction">>}
MCTabSymmetry == Permutations(MCTab)
=============================================================================
