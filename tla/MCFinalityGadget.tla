-------------------------- MODULE MCFinalityGadget --------------------------
(* Four validators, the smallest committee that may finalize.              *)
EXTENDS FinalityGadget, TLC

CONSTANTS x, y, w, self, a, b, z

(* Two blocks compete for one boundary, one validator is Byzantine, and    *)
(* badly signed votes arrive in this node's own name.                      *)
Fork == [blocks |-> 1 :> {x, y} @@ 2 :> {}, byzantine |-> {z}, senders |-> {self, a, b, z},
         forged |-> {self}, guarded |-> TRUE]

(* One block at each of two boundaries.                                    *)
Line(guard) == [blocks |-> 1 :> {x} @@ 2 :> {w}, byzantine |-> {}, senders |-> {a, b},
                forged |-> {}, guarded |-> guard]

(* One block at one boundary, and the node's own vote comes back to it.    *)
Single(guard) == [blocks |-> 1 :> {x}, byzantine |-> {}, senders |-> {self, a, b},
                  forged |-> {}, guarded |-> guard]

ForkAndLine == {Fork} \union {Line(guard) : guard \in BOOLEAN}
OneBoundary == {Single(guard) : guard \in BOOLEAN}

Everyone == [h \in Hashes |-> Voters]
PeerSymmetry == Permutations({a, b})
=============================================================================
