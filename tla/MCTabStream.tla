----------------------------- MODULE MCTabStream -----------------------------
(***************************************************************************)
(* Model values of TabStream for TLC: one tab, a reply on the tab's channel *)
(* and one on another, whose chunks share the ids and the replays.         *)
(***************************************************************************)
EXTENDS TabStream, TLC

CONSTANTS c1, c2, k1, m1, m2

MCChannel   == {c1, c2}
MCClient    == {k1}
MCSlotOf    == [k \in MCClient |-> c1]
MCMessageId == {m1, m2}
MCChannelOf == [m \in MCMessageId |-> IF m = m1 THEN c1 ELSE c2]
=============================================================================
