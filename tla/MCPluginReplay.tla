--------------------------- MODULE MCPluginReplay ---------------------------
(* Model values of PluginReplay for TLC. *)
EXTENDS PluginReplay, TLC

CONSTANT c1

MCChannel  == {c1}
MCPriority == {0, 1}
=============================================================================
