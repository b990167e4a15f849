--------------------------- MODULE MCModuleManager ---------------------------
EXTENDS ModuleManager, TLC

CONSTANTS m1, m2, m3, nA, nB, Nil

(* Two modules share the name nA; m3 has the empty name. *)
MCNameOf == (m1 :> nA) @@ (m2 :> nA) @@ (m3 :> Empty)
MCMods == {m1, m2, m3}
====
