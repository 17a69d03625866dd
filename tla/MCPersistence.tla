---------------------------- MODULE MCPersistence ----------------------------
(* Model values of Persistence for TLC. *)
EXTENDS Persistence, TLC

CONSTANTS r1, r2, r3, m1

(* A message that is sent, a streamed reply that is done and a connect.     *)
MCRequest   == {r1, r2, r3}
MCSteps     == (r1 :> 2) @@ (r2 :> 1) @@ (r3 :> 2)
MCOnFailure == (r1 :> "error") @@ (r2 :> "ok") @@ (r3 :> "end")
MCLegacy    == {m1}
=============================================================================
