--------------------------- MODULE MCEarlyBuffer ---------------------------
EXTENDS EarlyBuffer

CONSTANTS a, c, x

(* c joins the validator set at the second boundary.                       *)
MCGoverns == [h \in Heights |-> IF h = 1 THEN {a} ELSE {a, c}]

(* The three buffers' caps, small enough for each to fill.                 *)
MCPerVoter == [early |-> 2, unverified |-> 1, unknown |-> 1]
MCTotal == [early |-> 2, unverified |-> 1, unknown |-> 1]
=============================================================================
