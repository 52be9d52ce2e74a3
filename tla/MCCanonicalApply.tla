-------------------------- MODULE MCCanonicalApply --------------------------
EXTENDS CanonicalApply

CONSTANTS g, a1, a2, a3, b1, b2, b3, c1, t1, t2, t3

(* Two branches from genesis; a block of the one carries the same          *)
(* transaction as the block of the other at its height.  The b branch is   *)
(* heavier at equal length.                                                *)
Fork == {g, a1, a2, b1, b2, b3}
ForkParent == a1 :> g @@ a2 :> a1 @@ b1 :> g @@ b2 :> b1 @@ b3 :> b2
ForkTx == a1 :> t1 @@ a2 :> t2 @@ b1 :> t1 @@ b2 :> t2 @@ b3 :> t3
ForkScore == g :> 0 @@ a1 :> 1 @@ a2 :> 3 @@ b1 :> 2 @@ b2 :> 4 @@ b3 :> 5
ForkRank == g :> 0 @@ a1 :> 1 @@ a2 :> 2 @@ b1 :> 3 @@ b2 :> 4 @@ b3 :> 5

(* A certified a1 with two branches above it, and a third from genesis.    *)
Deep == {g, a1, a2, a3, b2, c1}
DeepParent == a1 :> g @@ a2 :> a1 @@ a3 :> a2 @@ b2 :> a1 @@ c1 :> g
DeepTx == a1 :> t1 @@ a2 :> t2 @@ a3 :> t3 @@ b2 :> t2 @@ c1 :> t1
DeepScore == g :> 0 @@ a1 :> 1 @@ a2 :> 2 @@ a3 :> 3 @@ b2 :> 4 @@ c1 :> 5
DeepRank == DeepScore
=============================================================================
