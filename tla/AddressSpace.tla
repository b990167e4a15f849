----------------------------- MODULE AddressSpace -----------------------------
(***************************************************************************)
(* What a page-table builder promises: a translation from virtual pages  *)
(* to physical pages, initially empty, in which one step maps at most one *)
(* virtual page and leaves every other translation as it was.            *)
(***************************************************************************)
CONSTANTS
  VPages,   \* the page-aligned virtual addresses
  NoMap     \* "not present"

VARIABLE mapping

Init == mapping = [v \in VPages |-> NoMap]

(* The virtual pages whose translation a step changes. *)
Changed(before, after) == {v \in VPages : after[v] # before[v]}

(* A step maps one virtual page v, to whatever it maps it to. *)
MapPage(v, before, after) == Changed(before, after) \subseteq {v}

Next ==
  LET before == mapping
      after  == mapping'
  IN  \E v \in VPages : MapPage(v, before, after)

Spec == Init /\ [][Next]_mapping

=============================================================================
