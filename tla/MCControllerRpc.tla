-------------------------- MODULE MCControllerRpc --------------------------
(* Two browsers.  r1 and r2 save the config the manager runs with; r3      *)
(* restarts the modules and r4, without an id, only reads.                 *)
EXTENDS ControllerRpc, TLC

CONSTANTS s1, s2, r1, r2, r3, r4, active, other, c0, good, bad

MCSessionOf == (r1 :> s1) @@ (r2 :> s2) @@ (r3 :> s1) @@ (r4 :> s2)
MCMethod ==
  [r \in Requests |-> CASE r = r3 -> "restart_modules" [] r = r4 -> "other" [] OTHER -> "save_config"]
MCName == [r \in {r1, r2} |-> active]
MCContent == (r1 :> bad) @@ (r2 :> good)
=============================================================================
