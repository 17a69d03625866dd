------------------------- MODULE MCSessionCommands --------------------------
(* Model values of SessionCommands for TLC. *)
EXTENDS SessionCommands, TLC

CONSTANTS c1, s1, s2

MCChannel == {c1}
MCSender  == {s1, s2}
=============================================================================
