-------------------------- MODULE MCFinalityDriver --------------------------
EXTENDS FinalityDriver

CONSTANTS p, q, main, fork

(* Two boundaries.  The fork steps over the first one and has another      *)
(* block at the second.                                                    *)
MCBlockAt ==
  [c \in Chains |-> [h \in Heights |->
     IF c = main THEN p ELSE IF h = Interval THEN None ELSE q]]
=============================================================================
