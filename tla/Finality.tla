------------------------------ MODULE Finality ------------------------------
(***************************************************************************)
(* What checkpoint finality promises the whole network (requirement S1 of  *)
(* docs/consensus/CHECKPOINT_FINALITY_WIRING.md): at every boundary at     *)
(* most one block is ever final, and a final block stays final.            *)
(***************************************************************************)
CONSTANTS Heights, Blocks, None

VARIABLE decided  \* height -> the final block there, or None

Init == decided = [h \in Heights |-> None]

(* Some validator finalizes x at h for the first time.                     *)
Decide(h, x) ==
  /\ decided[h] = None
  /\ decided' = [decided EXCEPT ![h] = x]

Next == \E h \in Heights, x \in Blocks : Decide(h, x)

Spec == Init /\ [][Next]_decided
=============================================================================
