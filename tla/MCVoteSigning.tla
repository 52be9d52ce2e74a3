-------------------------- MODULE MCVoteSigning --------------------------
(* Four boundaries at interval 2, two rival blocks at each, and a span of  *)
(* two records: signing the third boundary must push the first one out.    *)
EXTENDS VoteSigning, TLC

MCHeights == {2, 4, 6, 8}
HashSymmetry == Permutations(Hashes)
===========================================================================
