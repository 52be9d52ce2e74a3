------------------------------ MODULE GhostDag ------------------------------
(* Fork choice of one node (core/consensus/src/ghostdag.rs): the gate a    *)
(* block passes before it is written, the blue score a node derives for it *)
(* from what it holds, and the tip it selects.  The contents of the blocks *)
(* are constants; what the node holds of them are variables.               *)
EXTENDS Integers, Sequences, FiniteSets, FiniteSetsExt, Functions

CONSTANTS
  Blocks, Genesis, NoBlock,
  SelectedParent,      \* block -> block
  MergeParents,        \* block -> sequence of blocks, in header order
  Height,              \* the height a header claims
  HeaderScore,         \* the blue score a header claims
  Rank,                \* the order of the hashes
  BadTime,             \* blocks whose timestamp does not fit their parent's
  BadBody,             \* blocks whose work, hash or body does not verify
  K, ScoreWindow, MaxDepth, MaxParents

VARIABLES
  dag,       \* DagStore.blocks, and the same on disk
  anchor,    \* the stored score:<hash> entries, 0 where there is none
  rel,       \* GhostDag.relations: the score of each registered block, or 0
  tips       \* GhostDag.tips

ghostdag == <<dag, anchor, rel, tips>>

ASSUME GhostDagAssumption ==
  /\ Genesis \in Blocks /\ NoBlock \notin Blocks
  /\ SelectedParent \in [Blocks -> Blocks \union {NoBlock}]
  /\ Height \in [Blocks -> Nat] /\ HeaderScore \in [Blocks -> Nat]
  /\ Rank \in [Blocks -> Nat] /\ IsInjective(Rank)
  /\ BadTime \union BadBody \subseteq Blocks
  /\ {K, ScoreWindow, MaxDepth, MaxParents} \subseteq Nat

Merges(b) == {MergeParents[b][i] : i \in DOMAIN MergeParents[b]}
Parents(b) == IF b = Genesis THEN {} ELSE {SelectedParent[b]} \union Merges(b)

----------------------------------------------------------------------------
(* The score of a block is a matter of its content.                        *)

(* past_within: the blocks at or above floor that parent edges lead to.    *)
PastWithin(of, floor) ==
  LET past[b \in Blocks] ==
        IF Height[b] < floor THEN {} ELSE {b} \union UNION {past[p] : p \in Parents(b)}
  IN past[of]

(* What that walk reads: the selected parent is skipped at the floor, a    *)
(* merge parent's height is looked up before it is dropped.                *)
ReadWithin(of, floor) ==
  {of} \union UNION {Merges(b) \union (IF Height[b] > floor THEN Parents(b) ELSE {}) :
                     b \in PastWithin(of, floor)}

Floor(b) == IF Height[b] > ScoreWindow THEN Height[b] - ScoreWindow ELSE 0

(* bounded_blue_merge_count: the merge parents, in header order, whose     *)
(* anticone holds at most K blocks of the selected parent's past and of    *)
(* the merge parents judged blue before it.                                *)
BlueMerges(b) ==
  LET past(x) == PastWithin(x, Floor(b))
      spine == past(SelectedParent[b])
      blues[i \in 0..Len(MergeParents[b])] ==
        IF i = 0 THEN {}
        ELSE LET mp == MergeParents[b][i]
                 apart == {y \in spine : y \notin past(mp)}
                            \union {x \in blues[i - 1] : x \notin past(mp) /\ mp \notin past(x)}
             IN IF mp \in spine \/ Cardinality(apart) > K
                THEN blues[i - 1] ELSE blues[i - 1] \union {mp}
  IN blues[Len(MergeParents[b])]

(* score_contribution, and the blocks it has to read.                      *)
ScoreContribution ==
  [b \in Blocks |-> IF Merges(b) = {} THEN 1 ELSE 1 + Cardinality(BlueMerges(b))]
ScoreReads ==
  [b \in Blocks |->
     IF Merges(b) = {} THEN {}
     ELSE LET spine == SelectedParent[b]
              other == Merges(b) \ PastWithin(spine, Floor(b))
          IN UNION {ReadWithin(x, Floor(b)) : x \in {spine} \union other}]

(* What a node that holds every block computes.                            *)
ExactScore ==
  LET score[b \in Blocks] ==
        IF b = Genesis THEN 1 ELSE score[SelectedParent[b]] + ScoreContribution[b]
  IN [b \in Blocks |-> score[b]]

(* Every block has a score: parent edges lead back to genesis.             *)
ASSUME ScoreAssumption ==
  /\ ScoreContribution \in [Blocks -> Nat] /\ ExactScore \in [Blocks -> Nat]
  /\ ScoreReads \in [Blocks -> SUBSET Blocks]

----------------------------------------------------------------------------
(* What this node makes of it.                                             *)

(* known_score: relations, then the stored anchor.                         *)
KnownScore(b) == IF rel[b] # 0 THEN rel[b] ELSE anchor[b]

(* links_of finds a block in relations or in the DAG store.                *)
Linked == dag \union {b \in Blocks : rel[b] # 0}

(* score_of: back along the selected parents to the nearest known score,   *)
(* adding up the contributions; 0 when the walk meets a block that is gone.*)
ScoreOf(of) ==
  LET walk[b \in Blocks] ==
        CASE KnownScore(b) # 0 -> KnownScore(b)
          [] KnownScore(b) = 0 /\ b \notin dag -> 0
          [] KnownScore(b) = 0 /\ b \in dag /\ b = Genesis -> 1
          [] OTHER -> IF walk[SelectedParent[b]] = 0 \/ ~(ScoreReads[b] \subseteq Linked) THEN 0
                      ELSE walk[SelectedParent[b]] + ScoreContribution[b]
  IN walk[of]

DeriveScoreHeader(b) == HeaderScore[b]   \* mutant: the header's claim is taken over

(* derive_score_and_work, 0 for an error.                                  *)
DeriveScore(b) ==
  IF b = Genesis THEN 1
  ELSE IF ScoreOf(SelectedParent[b]) = 0 \/ ~(ScoreReads[b] \subseteq Linked) THEN 0
  ELSE ScoreOf(SelectedParent[b]) + ScoreContribution[b]

(* The checks of validate_block_consistency that need no other block, ...  *)
WellShaped(b) ==
  LET mps == MergeParents[b]
  IN /\ SelectedParent[b] # NoBlock
     /\ Len(mps) < MaxParents
     /\ IsInjective(mps) /\ Merges(b) \intersect {b, SelectedParent[b]} = {}

(* ... those on the selected parent, ...                                   *)
ExtendsParent(b) == Height[b] = Height[SelectedParent[b]] + 1 /\ b \notin BadTime

(* ... those on a merge parent, ...                                        *)
MayMerge(b, mp) ==
  /\ HeaderScore[mp] <= HeaderScore[SelectedParent[b]]
  /\ Height[b] - Height[mp] <= MaxDepth

(* ... and the band the claimed score has to be in, with the work.         *)
Feasible(b) ==
  /\ LET least == HeaderScore[SelectedParent[b]] + 1
     IN HeaderScore[b] \in least .. least + Len(MergeParents[b])
  /\ b \notin BadBody

ConsistencySelectedOnly(b) ==   \* mutant: merge parents need not be there
  CASE b = Genesis -> "ok"
    [] b # Genesis /\ SelectedParent[b] \notin dag -> "missing"
    [] OTHER -> IF WellShaped(b) /\ ExtendsParent(b) /\ Feasible(b) THEN "ok" ELSE "invalid"

(* validate_block_consistency: the first check that fails decides whether  *)
(* the block is refused or waits for a parent.                             *)
Consistency(b) ==
  LET mps == MergeParents[b]
      stops == {i \in DOMAIN mps : mps[i] \notin dag \/ ~MayMerge(b, mps[i])}
  IN IF b = Genesis THEN "ok"
     ELSE IF ~WellShaped(b) THEN "invalid"
     ELSE IF SelectedParent[b] \notin dag THEN "missing"
     ELSE IF ~ExtendsParent(b) THEN "invalid"
     ELSE IF stops # {} THEN IF mps[Min(stops)] \in dag THEN "invalid" ELSE "missing"
     ELSE IF Feasible(b) THEN "ok" ELSE "invalid"

(* The writes of add_block and of register_existing_block.                 *)
Register(b, score) ==
  /\ anchor' = [anchor EXCEPT ![b] = score]
  /\ rel' = [rel EXCEPT ![b] = score]
  /\ tips' = (tips \ Parents(b)) \union {b}

(* add_block; its callers only log an error.                               *)
AddBlock(b) ==
  IF Consistency(b) = "ok" /\ DeriveScore(b) # 0
  THEN Register(b, DeriveScore(b))
  ELSE UNCHANGED <<anchor, rel, tips>>

(* register_existing_block: a score that cannot be derived is replaced by  *)
(* the stored one, then by the header's.                                   *)
RegisterExistingBlock(b) ==
  Register(b, IF DeriveScore(b) # 0 THEN DeriveScore(b)
              ELSE IF anchor[b] # 0 THEN anchor[b] ELSE HeaderScore[b])

(* The heavier of two blocks: the score, then the smaller hash.            *)
Best(S, score(_)) ==
  CHOOSE b \in S : \A c \in S : score(b) > score(c) \/ (score(b) = score(c) /\ Rank[b] <= Rank[c])
Heaviest(S) == Best(S, LAMBDA b : ExactScore[b])

(* select_tip                                                              *)
SelectTip ==
  LET ranked == {b \in tips : rel[b] # 0}
  IN IF ranked = {} THEN NoBlock ELSE Best(ranked, LAMBDA b : rel[b])
=============================================================================
