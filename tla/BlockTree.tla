----------------------------- MODULE BlockTree -----------------------------
(***************************************************************************)
(* The blocks a node may hold, as a tree of selected parents: headers name *)
(* their selected parent and never change, so the tree is a constant and   *)
(* what varies is which blocks are stored.                                 *)
(*                                                                         *)
(* World state is abstracted to the sequence of blocks executed to reach   *)
(* it.  Executing block b on state s gives Append(s, b); the state root b  *)
(* commits to is reproduced exactly when the result is Chain[b], the state *)
(* of b's own ancestry, and b did not commit to a wrong root.              *)
(***************************************************************************)
EXTENDS Naturals, Sequences, FiniteSets, TLC

CONSTANTS
    Blocks,       \* every block of the run, Genesis included
    Genesis,      \* the block at height 0
    Parent,       \* the selected parent of every block but Genesis
    Score,        \* fork choice's blue score of every block
    Rank,         \* the order of the block hashes, which breaks score ties
    WrongRoot,    \* blocks whose committed state root execution does not give
    Unexecutable, \* blocks with a transaction that hard-errors
    NoBlock       \* no block

ASSUME TreeAssumption ==
    /\ Genesis \in Blocks
    /\ NoBlock \notin Blocks
    /\ Parent \in [Blocks \ {Genesis} -> Blocks]
    /\ Score \in [Blocks -> Nat]
    /\ Rank \in [Blocks -> Nat]
    /\ WrongRoot \subseteq Blocks \ {Genesis}
    /\ Unexecutable \subseteq Blocks \ {Genesis}

\* The blocks executed from genesis (excluded) to b: b's state.  (The @@ has
\* TLC tabulate the function once.)
Chain ==
    LET chain[b \in Blocks] == IF b = Genesis THEN <<>> ELSE Append(chain[Parent[b]], b)
    IN chain @@ <<>>

\* The selected parents form a tree: following them from any block ends at
\* Genesis, so the recursion above defines every block's chain.
ASSUME ChainAssumption ==
    /\ Chain \in [Blocks -> Seq(Blocks)]
    /\ Chain[Genesis] = <<>>
    /\ \A b \in Blocks \ {Genesis} : Chain[b] = Append(Chain[Parent[b]], b)

Height(b) == Len(Chain[b])

\* There are finitely many blocks, in the form the proofs use: a set of blocks
\* that is not empty has a lowest and a highest one.
ASSUME HeightAssumption ==
    \A bs \in SUBSET Blocks : bs # {} =>
        /\ \E lo \in bs : \A b \in bs : Height(lo) <= Height(b)
        /\ \E hi \in bs : \A b \in bs : Height(b) <= Height(hi)

\* The block at height h on the chain ending at b.
At(b, h) == IF h = 0 THEN Genesis ELSE Chain[b][h]

\* The blocks of the chain ending at b, Genesis included.
Ancestry(b) == {At(b, h) : h \in 0 .. Height(b)}

Descends(b, a) == a \in Ancestry(b)

\* The blocks of b's chain above height h.
Above(b, h) == {At(b, k) : k \in (h + 1) .. Height(b)}

\* Whether executing b on state s reproduces the root b commits to.
Reproduces(s, b) == Append(s, b) = Chain[b] /\ b \notin WrongRoot \cup Unexecutable

\* Fork choice's order: the higher blue score, equal scores to the smaller hash.
Outranks(a, b) == Score[a] > Score[b] \/ (Score[a] = Score[b] /\ Rank[a] < Rank[b])
=============================================================================
