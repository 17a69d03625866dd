------------------------- MODULE MCMessageDelivery --------------------------
(* Model values of MessageDelivery for TLC. *)
EXTENDS MessageDelivery, TLC

CONSTANTS c1, d1

MCChannel == {c1}
MCDedupId == {d1}
=============================================================================
