----------------------------- MODULE MCPluginWs -----------------------------
(* Model values of PluginWs for TLC. *)
EXTENDS PluginWs, TLC

CONSTANTS c1, c2

MCChannel == {c1, c2}
=============================================================================
