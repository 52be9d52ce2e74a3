--------------------------- MODULE MCBlockAdmission --------------------------
(* A small DAG: a1 and its sibling b1, merged by a2, and a3 above; c4 is a *)
(* sibling of a4, and m5 merges it (n5 is m5 without the merge).  The late *)
(* c2 is built on b1; x2 is built on the withdrawn x1.                     *)
EXTENDS BlockAdmission, TLC

CONSTANTS g, a1, b1, a2, c2, a3, a4, c4, m5, n5, x1, x2

MCBlocks == {g, a1, b1, a2, c2, a3, a4, c4, m5, n5, x1, x2}
MCSelectedParent ==
  g :> NoBlock @@ a1 :> g @@ b1 :> g @@ a2 :> a1 @@ c2 :> b1 @@ a3 :> a2
    @@ a4 :> a3 @@ c4 :> a3 @@ m5 :> a4 @@ n5 :> a4 @@ x1 :> g @@ x2 :> x1
MCMergeParents ==
  a2 :> <<b1>> @@ m5 :> <<c4>> @@ [b \in MCBlocks |-> <<>>]
MCHeight ==
  g :> 0 @@ a1 :> 1 @@ b1 :> 1 @@ a2 :> 2 @@ c2 :> 2 @@ a3 :> 3
    @@ a4 :> 4 @@ c4 :> 4 @@ m5 :> 5 @@ n5 :> 5 @@ x1 :> 1 @@ x2 :> 2
MCHeaderScore ==
  g :> 0 @@ a1 :> 1 @@ b1 :> 1 @@ a2 :> 2 @@ c2 :> 2 @@ a3 :> 3
    @@ a4 :> 4 @@ c4 :> 4 @@ m5 :> 5 @@ n5 :> 5 @@ x1 :> 1 @@ x2 :> 2
MCRank ==
  g :> 0 @@ a1 :> 1 @@ b1 :> 2 @@ a2 :> 3 @@ c2 :> 4 @@ a3 :> 5
    @@ a4 :> 6 @@ c4 :> 7 @@ m5 :> 8 @@ n5 :> 9 @@ x1 :> 10 @@ x2 :> 11

(* A new node, offered two siblings, a child of one, a withdrawn branch.   *)
Fresh == [dag |-> {}, chain |-> {g}, arriving |-> {a1, b1, c2, x2},
          mining |-> FALSE, pruning |-> FALSE]

(* A node that lost the chain half of a2 and the DAG half of a4.           *)
Holed == [dag |-> {g, a1, b1, a2, a3}, chain |-> {g, a1, b1, a3, a4}, arriving |-> {c4},
          mining |-> FALSE, pruning |-> FALSE]

(* The history of the other nodes.                                         *)
Miner == [dag |-> {g, a1, b1, a2, a3}, chain |-> {g, a1, b1, a2, a3}, arriving |-> {a4, c4, m5},
          mining |-> TRUE, pruning |-> FALSE]
Pruner == [Miner EXCEPT !.mining = FALSE, !.pruning = TRUE, !.arriving = {b1, a4, c4, m5}]

MCModes == {Fresh, Holed, Miner, Pruner}
PruningMiner == {[Miner EXCEPT !.pruning = TRUE, !.arriving = {a4}]}
=============================================================================
