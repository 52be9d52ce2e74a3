------------------------ MODULE CanonicalApply_lemmas ------------------------
(***************************************************************************)
(* What the proofs about the applied chain rest on.  First the tree of     *)
(* selected parents: a block's chain is its parent's chain and the block,  *)
(* so the chain of an ancestor is a prefix of it.  Then the inductive      *)
(* invariant, what the operators on the undo records, the ring, the        *)
(* receipts and the floor do to its parts, and that the drain, the         *)
(* producer and the in-memory reorg keep it.                               *)
(***************************************************************************)
EXTENDS CanonicalApply, TLAPS

-----------------------------------------------------------------------------
\* The tree of selected parents.

(* A block's chain is a sequence of blocks, as long as the block is high.  *)
LEMMA ChainType ==
  ASSUME NEW b \in Blocks
  PROVE  /\ Chain[b] \in Seq(Blocks) /\ Height(b) \in Nat
         /\ \A h \in 0 .. Height(b) : At(b, h) \in Blocks
<1>1. Chain[b] \in Seq(Blocks) /\ Height(b) \in Nat
  BY ChainAssumption DEF Height
<1>2. \A h \in 1 .. Height(b) : Chain[b][h] \in Blocks
  BY <1>1 DEF Height
<1> QED
  BY <1>1, <1>2, TreeAssumption DEF At

(* Genesis is the block at height 0, and no other block is.                *)
LEMMA GenesisHeight ==
  /\ Height(Genesis) = 0
  /\ \A b \in Blocks : Height(b) = 0 => b = Genesis
<1>1. Height(Genesis) = 0
  BY ChainAssumption DEF Height
<1>2. ASSUME NEW b \in Blocks, b # Genesis PROVE Height(b) # 0
  <2>1. Chain[b] = Append(Chain[Parent[b]], b) /\ Chain[Parent[b]] \in Seq(Blocks)
    BY <1>2, ChainAssumption, TreeAssumption
  <2> QED
    BY <2>1 DEF Height
<1> QED
  BY <1>1, <1>2

(* A block is one above its selected parent and has the same blocks below  *)
(* it.                                                                     *)
LEMMA ChildChain ==
  ASSUME NEW b \in Blocks \ {Genesis}
  PROVE  /\ Parent[b] \in Blocks
         /\ Chain[b] = Append(Chain[Parent[b]], b)
         /\ Height(b) = Height(Parent[b]) + 1
         /\ At(b, Height(b)) = b
         /\ \A h \in 0 .. Height(Parent[b]) : At(b, h) = At(Parent[b], h)
<1>1. Parent[b] \in Blocks
  BY TreeAssumption
<1>2. Chain[Parent[b]] \in Seq(Blocks) /\ Chain[b] = Append(Chain[Parent[b]], b)
  BY <1>1, ChainAssumption
<1>3. Len(Chain[b]) = Len(Chain[Parent[b]]) + 1 /\ Len(Chain[Parent[b]]) \in Nat
  BY <1>2
<1>4. Chain[b][Len(Chain[b])] = b
  BY <1>2, <1>3
<1>5. \A h \in 1 .. Len(Chain[Parent[b]]) : Chain[b][h] = Chain[Parent[b]][h]
  BY <1>2, <1>3
<1> QED
  BY <1>1, <1>2, <1>3, <1>4, <1>5 DEF Height, At

(* The block of b's chain at b's own height is b.                          *)
LEMMA OwnHeight ==
  ASSUME NEW b \in Blocks
  PROVE  At(b, Height(b)) = b
<1>1. CASE b = Genesis
  BY <1>1, GenesisHeight DEF At
<1>2. CASE b # Genesis
  BY <1>2, ChildChain
<1> QED
  BY <1>1, <1>2

(* The block of b's chain at height h is at height h, and its own chain is *)
(* b's chain up to there.                                                  *)
LEMMA PrefixChain ==
  ASSUME NEW b \in Blocks, NEW h \in 0 .. Height(b)
  PROVE  /\ At(b, h) \in Blocks
         /\ Height(At(b, h)) = h
         /\ \A k \in 0 .. h : At(At(b, h), k) = At(b, k)
<1> DEFINE Good(c) == \A i \in 0 .. Height(c) :
                        Height(At(c, i)) = i /\ \A k \in 0 .. i : At(At(c, i), k) = At(c, k)
           Bad == {c \in Blocks : ~Good(c)}
<1>1. Bad = {}
  <2> SUFFICES ASSUME Bad # {} PROVE FALSE
    OBVIOUS
  <2>1. PICK c \in Bad : \A d \in Bad : Height(c) <= Height(d)
    <3> HIDE DEF Good
    <3> QED
      BY HeightAssumption, Zenon
  <2>2. c \in Blocks /\ ~Good(c)
    OBVIOUS
  <2>3. CASE c = Genesis
    <3>1. \A i \in 0 .. Height(c) : i = 0 /\ At(c, i) = Genesis
      BY <2>3, GenesisHeight DEF At
    <3> QED
      BY <2>2, <2>3, <3>1, GenesisHeight
  <2>4. CASE c # Genesis
    <3> DEFINE p == Parent[c]
    <3>1. /\ p \in Blocks /\ Height(c) = Height(p) + 1 /\ Height(p) \in Nat
          /\ \A i \in 0 .. Height(p) : At(c, i) = At(p, i)
      BY <2>4, ChildChain, ChainType, Zenon
    <3>2. Good(p)
      <4>1. p \notin Bad
        BY <2>1, <2>2, <3>1
      <4> QED
        BY <3>1, <4>1
    <3> HIDE DEF p
    <3>3. \A i \in 0 .. Height(p) :
            Height(At(c, i)) = i /\ \A k \in 0 .. i : At(At(c, i), k) = At(c, k)
      BY <3>1, <3>2
    <3>4. At(c, Height(c)) = c
      BY OwnHeight
    <3>5. \A i \in 0 .. Height(c) : i \in 0 .. Height(p) \/ i = Height(c)
      BY <3>1
    <3>6. Good(c)
      BY <3>3, <3>4, <3>5
    <3> QED
      BY <2>2, <3>6
  <2> QED
    BY <2>3, <2>4
<1>2. Good(b)
  BY <1>1, ChainType
<1> QED
  BY <1>2, ChainType

(* The state of the block at height h of b's chain is the one below it and *)
(* the block.                                                              *)
LEMMA StepUp ==
  ASSUME NEW b \in Blocks, NEW h \in 0 .. Height(b), h < Height(b)
  PROVE  /\ At(b, h + 1) \in Blocks \ {Genesis}
         /\ Parent[At(b, h + 1)] = At(b, h)
         /\ Chain[At(b, h + 1)] = Append(Chain[At(b, h)], At(b, h + 1))
<1> DEFINE c == At(b, h + 1)
<1>0. Height(b) \in Nat /\ h \in Nat /\ h + 1 \in 0 .. Height(b) /\ h \in 0 .. (h + 1)
  BY ChainType
<1>1. /\ c \in Blocks /\ Height(c) = h + 1
      /\ \A k \in 0 .. (h + 1) : At(c, k) = At(b, k)
  BY <1>0, PrefixChain
<1> HIDE DEF c
<1>2. c # Genesis
  BY <1>0, <1>1, GenesisHeight
<1>3. /\ Parent[c] \in Blocks /\ Chain[c] = Append(Chain[Parent[c]], c)
      /\ Height(c) = Height(Parent[c]) + 1 /\ Height(Parent[c]) \in Nat
      /\ \A k \in 0 .. Height(Parent[c]) : At(c, k) = At(Parent[c], k)
  BY <1>1, <1>2, ChildChain, ChainType
<1>4. Height(Parent[c]) = h
  BY <1>0, <1>1, <1>3
<1>5. At(Parent[c], h) = Parent[c]
  BY <1>3, <1>4, OwnHeight
<1>6. Parent[c] = At(b, h)
  BY <1>0, <1>1, <1>3, <1>4, <1>5
<1> QED
  BY <1>1, <1>2, <1>3, <1>6 DEF c

(* b descends from a exactly when a is the block of b's chain at a's own   *)
(* height.                                                                 *)
LEMMA DescendsAt ==
  ASSUME NEW b \in Blocks, NEW a
  PROVE  Descends(b, a) <=> a \in Blocks /\ Height(a) <= Height(b) /\ At(b, Height(a)) = a
<1>1. ASSUME Descends(b, a) PROVE a \in Blocks /\ Height(a) <= Height(b) /\ At(b, Height(a)) = a
  <2>1. PICK h \in 0 .. Height(b) : a = At(b, h)
    BY <1>1 DEF Descends, Ancestry
  <2> QED
    BY <2>1, PrefixChain, ChainType
<1>2. ASSUME a \in Blocks, Height(a) <= Height(b), At(b, Height(a)) = a PROVE Descends(b, a)
  BY <1>2, ChainType DEF Descends, Ancestry
<1> QED
  BY <1>1, <1>2

(* What descends from a has a's chain below a.                             *)
LEMMA SameBelow ==
  ASSUME NEW a \in Blocks, NEW b \in Blocks, Descends(b, a), NEW h \in 0 .. Height(a)
  PROVE  h \in 0 .. Height(b) /\ At(b, h) = At(a, h)
<1>1. Height(a) \in 0 .. Height(b) /\ At(b, Height(a)) = a
  BY DescendsAt, ChainType
<1>2. h \in 0 .. Height(b)
  BY <1>1, ChainType
<1>3. At(At(b, Height(a)), h) = At(b, h)
  BY <1>1, PrefixChain
<1> QED
  BY <1>1, <1>2, <1>3

(* Descent is reflexive and transitive, everything descends from Genesis,  *)
(* and a child descends from its parent.                                   *)
LEMMA DescendsOrder ==
  /\ \A b \in Blocks : Descends(b, b) /\ Descends(b, Genesis)
  /\ \A a, b, c \in Blocks : Descends(c, b) /\ Descends(b, a) => Descends(c, a)
  /\ \A b \in Blocks \ {Genesis} : Descends(b, Parent[b])
  /\ \A b \in Blocks : \A h \in 0 .. Height(b) : Descends(b, At(b, h))
<1>1. ASSUME NEW b \in Blocks PROVE Descends(b, b) /\ Descends(b, Genesis)
  BY DescendsAt, OwnHeight, ChainType, GenesisHeight, TreeAssumption DEF At
<1>2. ASSUME NEW a \in Blocks, NEW b \in Blocks, NEW c \in Blocks, Descends(c, b), Descends(b, a)
      PROVE  Descends(c, a)
  <2>1. Height(a) \in 0 .. Height(b) /\ At(b, Height(a)) = a
    BY <1>2, DescendsAt, ChainType
  <2>2. Height(a) \in 0 .. Height(c) /\ At(c, Height(a)) = At(b, Height(a))
    BY <1>2, <2>1, SameBelow
  <2> QED
    BY <2>1, <2>2, DescendsAt, ChainType
<1>3. ASSUME NEW b \in Blocks \ {Genesis} PROVE Descends(b, Parent[b])
  <2>1. /\ Parent[b] \in Blocks /\ Height(b) = Height(Parent[b]) + 1 /\ Height(Parent[b]) \in Nat
        /\ At(b, Height(Parent[b])) = At(Parent[b], Height(Parent[b]))
    BY ChildChain, ChainType
  <2> QED
    BY <2>1, DescendsAt, OwnHeight
<1>4. ASSUME NEW b \in Blocks, NEW h \in 0 .. Height(b) PROVE Descends(b, At(b, h))
  BY DEF Descends, Ancestry
<1> QED
  BY <1>1, <1>2, <1>3, <1>4

(* The chain of what descends from a is a's chain and the blocks above a,  *)
(* none of which is Genesis.                                               *)
LEMMA SplitChain ==
  ASSUME NEW a \in Blocks, NEW b \in Blocks, Descends(b, a)
  PROVE  /\ Ancestry(b) \subseteq Blocks
         /\ Ancestry(b) = Ancestry(a) \cup Above(b, Height(a))
         /\ Ancestry(a) \cap Above(b, Height(a)) = {}
         /\ Genesis \in Ancestry(a)
<1>1. Height(a) \in Nat /\ Height(b) \in Nat /\ Height(a) <= Height(b)
  BY DescendsAt, ChainType
<1>2. \A h \in 0 .. Height(b) : At(b, h) \in Blocks /\ Height(At(b, h)) = h
  BY PrefixChain
<1>3. \A h \in 0 .. Height(a) : At(a, h) \in Blocks /\ Height(At(a, h)) = h /\ At(a, h) = At(b, h)
  BY PrefixChain, SameBelow
<1>4. Ancestry(b) \subseteq Blocks
  BY <1>2 DEF Ancestry
<1>5. Ancestry(b) \subseteq Ancestry(a) \cup Above(b, Height(a))
  <2> SUFFICES ASSUME NEW h \in 0 .. Height(b)
               PROVE  At(b, h) \in Ancestry(a) \cup Above(b, Height(a))
    BY DEF Ancestry
  <2>1. CASE h <= Height(a)
    BY <1>1, <1>3, <2>1 DEF Ancestry
  <2>2. CASE ~(h <= Height(a))
    BY <1>1, <2>2 DEF Above
  <2> QED
    BY <2>1, <2>2
<1>6. Ancestry(a) \subseteq Ancestry(b)
  BY <1>1, <1>3 DEF Ancestry
<1>7. Above(b, Height(a)) \subseteq Ancestry(b)
  BY <1>1 DEF Ancestry, Above
<1>8. ASSUME NEW x \in Ancestry(a), x \in Above(b, Height(a)) PROVE FALSE
  <2>1. PICK h \in 0 .. Height(a) : x = At(a, h)
    BY <1>8 DEF Ancestry
  <2>2. PICK k \in (Height(a) + 1) .. Height(b) : x = At(b, k)
    BY <1>8 DEF Above
  <2>3. Height(x) = h
    BY <1>3, <2>1
  <2>4. k \in 0 .. Height(b) /\ Height(x) = k
    BY <1>1, <1>2, <2>2
  <2> QED
    BY <1>1, <2>3, <2>4
<1>9. Genesis \in Ancestry(a)
  BY DescendsOrder DEF Descends
<1> QED
  BY <1>4, <1>5, <1>6, <1>7, <1>8, <1>9, Zenon

(* The blocks above a parent on its child's chain are the child.           *)
LEMMA AboveParent ==
  ASSUME NEW b \in Blocks \ {Genesis}
  PROVE  Above(b, Height(Parent[b])) = {b}
<1>1. /\ Height(Parent[b]) \in Nat /\ Height(b) = Height(Parent[b]) + 1
      /\ At(b, Height(b)) = b
  BY ChildChain, ChainType
<1>2. (Height(Parent[b]) + 1) .. Height(b) = {Height(b)}
  BY <1>1
<1> QED
  BY <1>1, <1>2 DEF Above

-----------------------------------------------------------------------------
\* The inductive invariant.

PCs == {"free", "halted", "drain", "choose", "reorg", "reapply", "guard", "replay",
        "sealed", "receipts"}
Callers == {"none", "receive", "drive", "step", "rebuild", "produce"}
MaybeBlock == Blocks \cup {NoBlock}

\* A durable image: each part has its type and the undo records fit the window.
DiskOK(d) ==
    /\ d \in [tip : Blocks, state : Seq(Blocks), receipts : [Txs -> MaybeBlock],
              undo : {d.undo}, marker : MaybeBlock]
    /\ DOMAIN d.undo \subseteq Nat
    /\ \A g, h \in DOMAIN d.undo : g < h + Depth

\* A ring of snapshots at tip t: it holds t, spans the window at most, and each
\* snapshot is the true state of the true ancestor at its height.
RingOK(r, t) ==
    /\ DOMAIN r \subseteq 0 .. Height(t)
    /\ Height(t) \in DOMAIN r
    /\ \A h \in DOMAIN r : /\ h + Depth >= Height(t)
                           /\ r[h] = [hash |-> At(t, h), state |-> Chain[At(t, h)]]

\* A receipt index at durable tip t: an entry names a block with that
\* transaction, on t's chain or among the blocks of stale; every block of t's
\* chain has its entry, unless the node produced it.
IndexOK(index, t, stale) ==
    /\ \A x \in Txs : \/ index[x] = NoBlock
                      \/ /\ index[x] \in (Ancestry(t) \cup stale) \ {Genesis}
                         /\ index[x] \in Blocks /\ Tx[index[x]] = x
    /\ \A b \in Ancestry(t) \ {Genesis} : index[Tx[b]] = b \/ b \in Own

\* A rebuild's marker allows stale receipts of the chain it names.
Stale(marker) == IF marker = NoBlock THEN {} ELSE Ancestry(marker)

\* The floor is no higher than t and stands on a certified block of t's chain.
FloorOK(t) == floor > 0 => floor <= Height(t) /\ At(t, floor) \in certs

TypeInv ==
    /\ stored \subseteq Blocks /\ Genesis \in stored
    /\ hydrated \in BOOLEAN /\ startup \in BOOLEAN /\ rebuilding \in BOOLEAN
    /\ top \in Nat /\ floor \in Nat
    /\ tip \in Blocks
    /\ DiskOK(disk)
    /\ op \in [pc : PCs, by : Callers, head : MaybeBlock, fork : MaybeBlock,
               saved : {op.saved}, residual : SUBSET Blocks]
    /\ wanted \in MaybeBlock /\ (rebuilding => wanted \in Blocks)
    /\ certs \subseteq Certifiable /\ pending \subseteq certs
    /\ check \in [block : MaybeBlock, tip : MaybeBlock]

\* What the holder of the lock works on, by the point it has reached.
LockInv ==
    /\ op.pc = "free" => op = Free
    /\ op.pc = "halted" => op = Halted
    /\ op.pc \in {"reorg", "reapply", "guard", "replay", "sealed", "receipts"} => op.head \in Blocks
    /\ op.pc \in {"drain", "choose"} => op.by \in {"receive", "drive"}
    /\ op.pc = "guard" => op.by = "rebuild"
    /\ op.by = "rebuild" /\ op.pc \in {"reorg", "reapply", "guard"} =>
          /\ disk.marker = NoBlock /\ op.fork # op.head
          /\ Descends(tip, op.fork) /\ Descends(op.head, op.fork)
    /\ op.pc = "sealed" => op.head \in Own \ {Genesis} /\ Parent[op.head] = tip
    /\ op.pc = "receipts" => op.head = tip /\ tip # Genesis

\* Executor and disk agree in every state; between the revert of a switch and
\* its end both are at the fork point, while the applied tip is the old one.
MemoryInv ==
    /\ disk.tip = IF op.pc = "reapply" THEN op.fork ELSE tip
    /\ disk.state = Chain[disk.tip]
    /\ world = disk.state
    /\ RingOK(ring, tip)

IndexInv == IndexOK(disk.receipts, disk.tip, Stale(disk.marker))

FloorInv ==
    /\ op.pc # "replay" => FloorOK(tip)
    /\ check # NoCheck => /\ check.block \in certs /\ check.tip \in Blocks
                          /\ Height(check.block) <= Height(check.tip)

\* Only a replay may have a block with a wrong root at the tip.
RootInv ==
    /\ op.pc = "halted" => tip \in WrongRoot
    /\ op.pc \notin {"halted", "replay"} => tip \notin WrongRoot

\* What an aborted switch puts back.
Kept(kept, lost) == kept \subseteq lost /\ lost \ kept \subseteq Own
SwitchInv ==
    op.pc = "reapply" =>
        /\ op.fork \in Blocks /\ op.fork # op.head
        /\ Descends(tip, op.fork) /\ Descends(op.head, op.fork)
        /\ floor <= Height(op.fork)
        /\ op.saved.world = Chain[tip]
        /\ Kept(op.saved.kept, Above(tip, Height(op.fork)))

\* What a rebuild that does not converge puts back, and what is left to do.
RebuildInv ==
    op.pc = "replay" =>
        /\ op.head # Genesis /\ op.fork \in Blocks
        /\ Descends(op.head, tip) /\ Descends(op.head, op.fork)
        /\ op.saved.tip \in Blocks /\ Descends(op.saved.tip, op.fork)
        /\ op.saved.world = Chain[op.saved.tip] /\ RingOK(op.saved.ring, op.saved.tip)
        /\ op.saved.tip \notin WrongRoot
        /\ FloorOK(op.saved.tip) /\ FloorOK(op.head)
        /\ op.residual # {} => tip = Genesis
        /\ op.residual \subseteq Above(op.saved.tip, Height(op.fork))
        /\ disk.marker = op.saved.tip
        /\ IndexOK(disk.receipts, tip, Ancestry(op.fork) \cup op.residual)
        /\ \A b \in Ancestry(op.fork) \ {Genesis} : disk.receipts[Tx[b]] = b \/ b \in Own
        /\ op.saved.had \subseteq Ancestry(op.saved.tip)
        /\ Kept(op.saved.kept, Above(op.saved.tip, Height(op.fork)))

IInv == /\ TypeInv /\ LockInv /\ MemoryInv /\ IndexInv /\ FloorInv /\ RootInv
        /\ SwitchInv /\ RebuildInv

-----------------------------------------------------------------------------
\* The maps of the model.

(* Undo records within the window span less than Depth heights.            *)
LEMMA UndoBounded ==
  ASSUME NEW f, DOMAIN f \subseteq Nat, NEW t \in Nat
  PROVE  LET u == InUndoWindow(f, t)
         IN  DOMAIN u \subseteq Nat /\ \A g, h \in DOMAIN u : g < h + Depth
<1> DEFINE D == {h \in DOMAIN f : h <= t /\ h + Depth > t}
<1>1. DOMAIN InUndoWindow(f, t) = D
  BY DEF InUndoWindow, Restrict
<1>2. D \subseteq Nat /\ \A g, h \in D : g < h + Depth
  BY ApplyAssumption
<1> QED
  BY <1>1, <1>2

(* The index with receipts added or removed is an index.                   *)
LEMMA IndexType ==
  ASSUME NEW index \in [Txs -> MaybeBlock], NEW bs \in SUBSET Blocks
  PROVE  /\ WithReceipts(index, bs) \in [Txs -> MaybeBlock]
         /\ WithoutReceipts(index, bs) \in [Txs -> MaybeBlock]
<1>1. \A t : (\E b \in bs : Tx[b] = t) => (CHOOSE b \in bs : Tx[b] = t) \in Blocks
  OBVIOUS
<1>2. WithReceipts(index, bs) \in [Txs -> MaybeBlock]
  BY <1>1 DEF WithReceipts, MaybeBlock
<1>3. WithoutReceipts(index, bs) \in [Txs -> MaybeBlock]
  BY DEF WithoutReceipts, MaybeBlock
<1> QED
  BY <1>2, <1>3

(* What the write of one executed block leaves on disk.                    *)
LEMMA WriteBlockIs ==
  ASSUME DiskOK(disk), NEW b \in Blocks, NEW bs \in SUBSET Blocks
  PROVE  LET d == WriteBlock(b, bs) IN
         /\ DiskOK(d)
         /\ d.tip = b /\ d.state = Append(disk.state, b) /\ d.marker = disk.marker
         /\ d.receipts = WithReceipts(disk.receipts, bs)
<1> DEFINE d == WriteBlock(b, bs)
           e == Entry(Height(b), [hash |-> b, parent |-> disk.tip, pre |-> disk.state])
           u == InUndoWindow(Put(disk.undo, e), Height(b))
<1>1. disk \in [tip : Blocks, state : Seq(Blocks), receipts : [Txs -> MaybeBlock],
                undo : {disk.undo}, marker : MaybeBlock]
  BY DEF DiskOK
<1>2. d = [disk EXCEPT !.tip = b, !.state = Append(disk.state, b),
                       !.receipts = WithReceipts(disk.receipts, bs), !.undo = u]
  BY DEF WriteBlock
<1>3. DOMAIN Put(disk.undo, e) = DOMAIN disk.undo \cup {Height(b)}
  BY DEF Put, Entry
<1>4. DOMAIN u \subseteq Nat /\ \A g, h \in DOMAIN u : g < h + Depth
  <2>1. DOMAIN Put(disk.undo, e) \subseteq Nat /\ Height(b) \in Nat
    BY <1>3, ChainType DEF DiskOK
  <2> HIDE DEF e
  <2> QED
    BY <2>1, UndoBounded, Zenon
<1>5. Append(disk.state, b) \in Seq(Blocks) /\ WithReceipts(disk.receipts, bs) \in [Txs -> MaybeBlock]
  BY <1>1, IndexType
<1> HIDE DEF u, d
<1>6. /\ d.tip = b /\ d.state = Append(disk.state, b) /\ d.marker = disk.marker
      /\ d.receipts = WithReceipts(disk.receipts, bs) /\ d.undo = u
  BY <1>1, <1>2
<1>7. d \in [tip : Blocks, state : Seq(Blocks), receipts : [Txs -> MaybeBlock],
             undo : {u}, marker : MaybeBlock]
  BY <1>1, <1>2, <1>5, Zenon
<1>8. DiskOK(d)
  BY <1>4, <1>6, <1>7 DEF DiskOK
<1> QED
  BY <1>6, <1>8 DEF d

(* d is the disk after persist_state_reconcile from the state it holds.    *)
Reconciled(d, cur, b, index) == d = Reconcile(disk.state, cur, b, index)

(* A good disk on the block b with the state cur, otherwise as before.     *)
Moved(d, cur, b, index) ==
    /\ DiskOK(d) /\ d.tip = b /\ d.state = cur
    /\ d.marker = disk.marker /\ d.receipts = index /\ d.undo = disk.undo

(* What the write of a difference leaves on disk.                          *)
LEMMA ReconcileIs ==
  ASSUME DiskOK(disk), NEW cur \in Seq(Blocks), NEW b \in Blocks,
         NEW index \in [Txs -> MaybeBlock],
         NEW d, Reconciled(d, cur, b, index)
  PROVE  Moved(d, cur, b, index)
<1>1. disk \in [tip : Blocks, state : Seq(Blocks), receipts : [Txs -> MaybeBlock],
                undo : {disk.undo}, marker : MaybeBlock]
  BY DEF DiskOK
<1>2. d = [disk EXCEPT !.tip = b, !.state = cur, !.receipts = index]
  BY DEF Reconciled, Reconcile
<1>3. /\ d.tip = b /\ d.state = cur /\ d.marker = disk.marker
      /\ d.receipts = index /\ d.undo = disk.undo
  BY <1>1, <1>2
<1>4. d \in [tip : Blocks, state : Seq(Blocks), receipts : [Txs -> MaybeBlock],
             undo : {disk.undo}, marker : MaybeBlock]
  BY <1>1, <1>2, Zenon
<1> QED
  BY <1>3, <1>4 DEF DiskOK, Moved

(* AppliedState::record keeps the ring right when a child of the tip is    *)
(* applied.                                                                *)
LEMMA RecordKeepsRing ==
  ASSUME tip \in Blocks, RingOK(ring, tip), NEW b \in Blocks \ {Genesis}, Parent[b] = tip
  PROVE  RingOK(Record(b, Chain[b]), b)
<1> DEFINE e == Entry(Height(b), [hash |-> b, state |-> Chain[b]])
           r == Put(ring, e)
           n == InRing(r, Height(b))
<1>1. /\ Height(tip) \in Nat /\ Height(b) = Height(tip) + 1 /\ At(b, Height(b)) = b
      /\ \A h \in 0 .. Height(tip) : At(b, h) = At(tip, h)
  BY ChildChain, ChainType
<1>2. /\ DOMAIN r = DOMAIN ring \cup {Height(b)}
      /\ r[Height(b)] = [hash |-> b, state |-> Chain[b]]
      /\ \A h \in DOMAIN ring : h # Height(b) => r[h] = ring[h]
  BY DEF Put, Entry
<1> HIDE DEF r
<1>3. /\ DOMAIN n = {h \in DOMAIN r : h <= Height(b) /\ h + Depth >= Height(b)}
      /\ \A h \in DOMAIN n : n[h] = r[h]
  BY DEF InRing, Restrict
<1> HIDE DEF n
<1>4. DOMAIN n \subseteq 0 .. Height(b) /\ Height(b) \in DOMAIN n
  BY <1>1, <1>2, <1>3, ApplyAssumption DEF RingOK
<1>5. ASSUME NEW h \in DOMAIN n
      PROVE  h + Depth >= Height(b) /\ n[h] = [hash |-> At(b, h), state |-> Chain[At(b, h)]]
  <2>1. CASE h = Height(b)
    BY <1>1, <1>2, <1>3, <2>1
  <2>2. CASE h # Height(b)
    <3>1. h \in DOMAIN ring /\ h \in 0 .. Height(tip)
      BY <1>2, <1>3, <2>2 DEF RingOK
    <3>2. n[h] = [hash |-> At(tip, h), state |-> Chain[At(tip, h)]]
      BY <1>2, <1>3, <2>2, <3>1, Zenon DEF RingOK
    <3> QED
      BY <1>1, <1>3, <3>1, <3>2, Zenon
  <2> QED
    BY <2>1, <2>2
<1> QED
  BY <1>4, <1>5 DEF RingOK, Record, n, r

(* So does the commit of a switch: the snapshots of the abandoned branch   *)
(* are replaced by the new ones or dropped.                                *)
LEMMA SwitchKeepsRing ==
  ASSUME tip \in Blocks, RingOK(ring, tip), op.fork \in Blocks, op.head \in Blocks,
         op.fork # op.head, Descends(tip, op.fork), Descends(op.head, op.fork)
  PROVE  RingOK(InRing(Put(ring, [h \in DOMAIN BranchUndo |->
                             [hash |-> At(op.head, h), state |-> Chain[At(op.head, h)]]]),
                       Height(op.head)), op.head)
<1> DEFINE head == op.head
           new == [h \in DOMAIN BranchUndo |-> [hash |-> At(head, h), state |-> Chain[At(head, h)]]]
           r == Put(ring, new)
           n == InRing(r, Height(head))
<1>1. /\ Height(tip) \in Nat /\ Height(head) \in Nat /\ Height(op.fork) \in Nat
      /\ Height(op.fork) <= Height(tip) /\ Height(op.fork) <= Height(head)
  BY DescendsAt, ChainType
<1>2. Height(op.fork) < Height(head)
  <2>1. Height(op.fork) # Height(head)
    BY DescendsAt, OwnHeight
  <2> QED
    BY <1>1, <2>1
<1>3. DOMAIN new = (Height(op.fork) + 1) .. Height(head)
  <2>1. \A h \in (Height(op.fork) + 1) .. Height(head) : Height(At(head, h)) = h
    BY <1>1, PrefixChain
  <2>2. DOMAIN new = {Height(b) : b \in Above(head, Height(op.fork))}
    BY DEF BranchUndo, Branch
  <2>3. {Height(b) : b \in Above(head, Height(op.fork))} = (Height(op.fork) + 1) .. Height(head)
    BY <2>1 DEF Above
  <2> QED
    BY <2>2, <2>3
<1>4. \A h \in DOMAIN new : new[h] = [hash |-> At(head, h), state |-> Chain[At(head, h)]]
  OBVIOUS
<1> HIDE DEF new
<1>5. /\ DOMAIN r = DOMAIN ring \cup DOMAIN new
      /\ \A h \in DOMAIN new : r[h] = new[h]
      /\ \A h \in DOMAIN ring \ DOMAIN new : r[h] = ring[h]
  BY DEF Put
<1> HIDE DEF r
<1>6. /\ DOMAIN n = {h \in DOMAIN r : h <= Height(head) /\ h + Depth >= Height(head)}
      /\ \A h \in DOMAIN n : n[h] = r[h]
  BY DEF InRing, Restrict
<1> HIDE DEF n
<1>7. DOMAIN ring \subseteq 0 .. Height(tip) /\ DOMAIN ring \subseteq Nat
  BY <1>1 DEF RingOK
<1>8. DOMAIN n \subseteq 0 .. Height(head) /\ Height(head) \in DOMAIN n
  <2>1. Height(head) \in DOMAIN new /\ DOMAIN new \subseteq Nat
    BY <1>1, <1>2, <1>3
  <2>2. Height(head) \in DOMAIN r /\ DOMAIN r \subseteq Nat
    BY <1>5, <1>7, <2>1, Zenon
  <2>3. Height(head) \in DOMAIN n
    BY <1>1, <1>6, <2>2, ApplyAssumption
  <2> QED
    BY <1>1, <1>6, <2>2, <2>3
<1>9. ASSUME NEW h \in DOMAIN n
      PROVE  h + Depth >= Height(head) /\ n[h] = [hash |-> At(head, h), state |-> Chain[At(head, h)]]
  <2>1. CASE h \in DOMAIN new
    BY <1>4, <1>5, <1>6, <2>1, Zenon
  <2>2. CASE h \notin DOMAIN new
    <3>1. h \in DOMAIN ring /\ h \in 0 .. Height(op.fork)
      BY <1>1, <1>3, <1>5, <1>6, <1>7, <2>2
    <3>2. n[h] = [hash |-> At(tip, h), state |-> Chain[At(tip, h)]]
      BY <1>5, <1>6, <2>2, <3>1 DEF RingOK
    <3>3. At(tip, h) = At(op.fork, h) /\ At(head, h) = At(op.fork, h)
      BY <3>1, SameBelow
    <3> QED
      BY <1>6, <3>2, <3>3
  <2> QED
    BY <2>1, <2>2
<1>10. RingOK(n, head)
  BY <1>8, <1>9 DEF RingOK
<1> QED
  BY <1>10 DEF n, r, new

(* The ring a restart restores from the undo records is right.             *)
LEMMA RestoredRing ==
  ASSUME disk.tip \in Blocks, disk.state = Chain[disk.tip],
         NEW low \in Restorable(disk) \cup {Height(disk.tip)}
  PROVE  RingOK(Put([h \in low .. (Height(disk.tip) - 1) |->
                        [hash |-> At(disk.tip, h), state |-> disk.undo[h + 1].pre]],
                    Entry(Height(disk.tip), [hash |-> disk.tip, state |-> disk.state])), disk.tip)
<1> DEFINE t == disk.tip
           below == [h \in low .. (Height(t) - 1) |-> [hash |-> At(t, h), state |-> disk.undo[h + 1].pre]]
           e == Entry(Height(t), [hash |-> t, state |-> disk.state])
           r == Put(below, e)
<1>1. Height(t) \in Nat /\ At(t, Height(t)) = t
  BY ChainType, OwnHeight
<1>2. low \in 0 .. Height(t) /\ low + Depth >= Height(t)
  BY <1>1, ApplyAssumption DEF Restorable
<1>3. ASSUME NEW h \in low .. (Height(t) - 1) PROVE disk.undo[h + 1].pre = Chain[At(t, h)]
  <2>1. low \in Restorable(disk)
    BY <1>1, <1>2, <1>3
  <2>2. h + 1 \in (low + 1) .. Height(t) /\ (h + 1) - 1 = h
    BY <1>1, <1>2, <1>3
  <2>3. UndoGood(disk, h + 1)
    BY <2>1, <2>2 DEF Restorable
  <2> QED
    BY <2>2, <2>3 DEF UndoGood
<1>4. /\ DOMAIN below = low .. (Height(t) - 1)
      /\ \A h \in DOMAIN below : below[h] = [hash |-> At(t, h), state |-> Chain[At(t, h)]]
  BY <1>3
<1> HIDE DEF below
<1>5. /\ DOMAIN r = DOMAIN below \cup {Height(t)}
      /\ r[Height(t)] = [hash |-> t, state |-> disk.state]
      /\ \A h \in DOMAIN below : h # Height(t) => r[h] = below[h]
  BY DEF Put, Entry
<1> HIDE DEF r
<1>6. \A h \in DOMAIN r : h + Depth >= Height(t) /\ h \in 0 .. Height(t)
  <2>1. \A h \in low .. (Height(t) - 1) : h + Depth >= Height(t) /\ h \in 0 .. Height(t)
    BY <1>1, <1>2, ApplyAssumption
  <2>2. Height(t) + Depth >= Height(t) /\ Height(t) \in 0 .. Height(t)
    BY <1>1, ApplyAssumption
  <2> QED
    BY <1>4, <1>5, <2>1, <2>2, Zenon
<1>7. \A h \in DOMAIN r : r[h] = [hash |-> At(t, h), state |-> Chain[At(t, h)]]
  BY <1>1, <1>4, <1>5
<1>8. RingOK(r, t)
  BY <1>5, <1>6, <1>7 DEF RingOK
<1> QED
  BY <1>8 DEF r, below

-----------------------------------------------------------------------------
\* The receipt index.

(* A block's transaction is one of the run's.                              *)
LEMMA TxInTxs ==
  \A b \in Blocks \ {Genesis} : Tx[b] \in Txs
  BY ApplyAssumption DEF Txs, Range

(* Extending the durable chain from f to t with the receipts of bs, blocks *)
(* of t's chain: every new block is among them or the node's own.  This is *)
(* a block applied, sealed, a branch committed, or an aborted switch.      *)
LEMMA IndexExtends ==
  ASSUME NEW f \in Blocks, NEW t \in Blocks, Descends(t, f), NEW stale,
         NEW index \in [Txs -> MaybeBlock], IndexOK(index, f, stale),
         NEW bs \in SUBSET (Ancestry(t) \ {Genesis}), Above(t, Height(f)) \ bs \subseteq Own
  PROVE  IndexOK(WithReceipts(index, bs), t, stale)
<1> DEFINE new == WithReceipts(index, bs)
<1>1. /\ Ancestry(t) \subseteq Blocks /\ Ancestry(t) = Ancestry(f) \cup Above(t, Height(f))
  BY SplitChain
<1>2. ASSUME NEW x \in Txs
      PROVE  \/ new[x] = NoBlock
             \/ /\ new[x] \in (Ancestry(t) \cup stale) \ {Genesis}
                /\ new[x] \in Blocks /\ Tx[new[x]] = x
  <2>1. CASE \E b \in bs : Tx[b] = x
    <3>1. new[x] = CHOOSE b \in bs : Tx[b] = x
      BY <2>1 DEF WithReceipts
    <3>2. new[x] \in bs /\ Tx[new[x]] = x
      BY <2>1, <3>1
    <3> QED
      BY <1>1, <3>2
  <2>2. CASE ~\E b \in bs : Tx[b] = x
    <3>1. new[x] = index[x]
      BY <2>2 DEF WithReceipts
    <3> QED
      BY <1>1, <3>1 DEF IndexOK
  <2> QED
    BY <2>1, <2>2
<1>3. ASSUME NEW b \in Ancestry(t) \ {Genesis} PROVE new[Tx[b]] = b \/ b \in Own
  <2>1. Tx[b] \in Txs
    BY <1>1, TxInTxs
  <2>2. CASE \E c \in bs : Tx[c] = Tx[b]
    <3>1. new[Tx[b]] = CHOOSE c \in bs : Tx[c] = Tx[b]
      BY <2>1, <2>2 DEF WithReceipts
    <3>2. new[Tx[b]] \in bs /\ Tx[new[Tx[b]]] = Tx[b]
      BY <2>2, <3>1
    <3> QED
      BY <3>2, TxAssumption
  <2>3. CASE ~\E c \in bs : Tx[c] = Tx[b]
    <3>1. new[Tx[b]] = index[Tx[b]] /\ b \notin bs
      BY <2>1, <2>3, Zenon DEF WithReceipts
    <3>2. CASE b \in Above(t, Height(f))
      BY <3>1, <3>2
    <3>3. CASE b \in Ancestry(f)
      BY <3>1, <3>3, ZenonT(30) DEF IndexOK
    <3> QED
      BY <1>1, <3>2, <3>3
  <2> QED
    BY <2>2, <2>3
<1> QED
  BY <1>2, <1>3 DEF IndexOK

(* Cutting the durable chain back from t to f with the receipts of what is *)
(* lost; an abort can put back what Indexed has kept of it.                *)
LEMMA IndexReverts ==
  ASSUME NEW f \in Blocks, NEW t \in Blocks, Descends(t, f), NEW stale,
         NEW index \in [Txs -> MaybeBlock], IndexOK(index, t, stale)
  PROVE  LET lost == Above(t, Height(f)) IN
         /\ IndexOK(WithoutReceipts(index, lost), f, stale)
         /\ Kept(Indexed(index, lost), lost)
<1> DEFINE lost == Above(t, Height(f))
           new == WithoutReceipts(index, lost)
<1>1. /\ Ancestry(t) \subseteq Blocks /\ Ancestry(t) = Ancestry(f) \cup lost
      /\ Ancestry(f) \cap lost = {} /\ Genesis \in Ancestry(f)
  BY SplitChain
<1> HIDE DEF lost
<1>2. \A x \in Txs : new[x] = IF index[x] \in lost THEN NoBlock ELSE index[x]
  BY DEF WithoutReceipts
<1> HIDE DEF new
<1>3. ASSUME NEW x \in Txs
      PROVE  \/ new[x] = NoBlock
             \/ /\ new[x] \in (Ancestry(f) \cup stale) \ {Genesis}
                /\ new[x] \in Blocks /\ Tx[new[x]] = x
  BY <1>1, <1>2 DEF IndexOK
<1>4. ASSUME NEW b \in Ancestry(f) \ {Genesis} PROVE new[Tx[b]] = b \/ b \in Own
  <2>1. Tx[b] \in Txs /\ b \in Ancestry(t) \ {Genesis} /\ b \notin lost
    BY <1>1, TxInTxs
  <2> QED
    BY <1>2, <2>1 DEF IndexOK
<1>5. Kept(Indexed(index, lost), lost)
  BY <1>1 DEF Kept, Indexed, IndexOK
<1> QED
  BY <1>3, <1>4, <1>5 DEF IndexOK, new, lost

(* interrupted_rebuild_cleanup leaves no stale receipt.                    *)
LEMMA IndexCleans ==
  ASSUME NEW t \in Blocks, NEW stale, NEW index \in [Txs -> MaybeBlock], IndexOK(index, t, stale)
  PROVE  IndexOK(WithoutReceipts(index, stale \ Ancestry(t)), t, {})
<1> DEFINE new == WithoutReceipts(index, stale \ Ancestry(t))
<1>1. Ancestry(t) \subseteq Blocks
  BY SplitChain, DescendsOrder
<1>2. \A x \in Txs : new[x] = IF index[x] \in stale \ Ancestry(t) THEN NoBlock ELSE index[x]
  BY DEF WithoutReceipts
<1> HIDE DEF new
<1>3. ASSUME NEW x \in Txs
      PROVE  \/ new[x] = NoBlock
             \/ /\ new[x] \in (Ancestry(t) \cup {}) \ {Genesis}
                /\ new[x] \in Blocks /\ Tx[new[x]] = x
  BY <1>2 DEF IndexOK
<1>4. ASSUME NEW b \in Ancestry(t) \ {Genesis} PROVE new[Tx[b]] = b \/ b \in Own
  BY <1>1, <1>2, TxInTxs DEF IndexOK
<1> QED
  BY <1>3, <1>4, Zenon DEF IndexOK, new

(* An index right for some stale blocks is right for more of them.         *)
LEMMA IndexMonotone ==
  ASSUME NEW t, NEW stale, NEW more, NEW index, IndexOK(index, t, stale),
         stale \ Ancestry(t) \subseteq more
  PROVE  IndexOK(index, t, more)
  BY DEF IndexOK

-----------------------------------------------------------------------------
\* The floor.

(* A set of heights of a chain has its Max as greatest element.            *)
LEMMA MaxIs ==
  ASSUME NEW b \in Blocks, NEW S \in SUBSET (0 .. Height(b)), S # {}
  PROVE  Max(S) \in S /\ \A x \in S : x <= Max(S)
<1> DEFINE bs == {At(b, x) : x \in S}
<1>1. \A x \in S : At(b, x) \in Blocks /\ Height(At(b, x)) = x /\ x \in Int
  BY PrefixChain, ChainType
<1>2. PICK hi \in bs : \A c \in bs : Height(c) <= Height(hi)
  <2>1. bs \in SUBSET Blocks /\ bs # {}
    BY <1>1, Zenon
  <2> HIDE DEF bs
  <2> QED
    BY <2>1, HeightAssumption
<1>3. PICK m \in S : hi = At(b, m)
  OBVIOUS
<1>4. \A x \in S : m >= x
  BY <1>1, <1>2, <1>3
<1>5. Max(S) \in S /\ \A x \in S : Max(S) >= x
  BY <1>4, Zenon DEF Max
<1> QED
  BY <1>1, <1>5

(* effective_floor is at least the floor, and stands on a certified block  *)
(* of the applied chain as the floor does.                                 *)
LEMMA EffectiveFloorIs ==
  ASSUME tip \in Blocks, RingOK(ring, tip), FloorOK(tip), floor \in Nat,
         pending \subseteq certs, certs \subseteq Blocks, NEW walk \in BOOLEAN
  PROVE  LET to == EffectiveFloor(walk) IN
         /\ to \in Nat /\ floor <= to
         /\ to > 0 => to <= Height(tip) /\ At(tip, to) \in certs
<1> DEFINE C == {c \in pending : /\ Height(c) > floor /\ Height(c) <= Height(tip)
                                 /\ CanonicalHere(Height(c), walk) = c}
           S == {floor} \cup {Height(c) : c \in C}
           to == EffectiveFloor(walk)
<1>1. Height(tip) \in Nat /\ \A c \in C : Height(c) \in Nat /\ c \in Blocks /\ c # NoBlock
  BY ChainType, TreeAssumption
<1>2. \A c \in C : At(tip, Height(c)) = c
  <2> SUFFICES ASSUME NEW c \in C PROVE At(tip, Height(c)) = c
    OBVIOUS
  <2>1. CanonicalHere(Height(c), walk) = c /\ c # NoBlock
    BY <1>1
  <2>2. CASE Height(c) \in DOMAIN ring
    <3>1. ring[Height(c)] = [hash |-> At(tip, Height(c)), state |-> Chain[At(tip, Height(c))]]
      BY <2>2 DEF RingOK
    <3> QED
      BY <2>1, <2>2, <3>1 DEF CanonicalHere
  <2>3. CASE Height(c) \notin DOMAIN ring
    BY <2>1, <2>3 DEF CanonicalHere
  <2> QED
    BY <2>2, <2>3
<1>3. \A c \in C : c \in certs /\ Height(c) <= Height(tip)
  OBVIOUS
<1>4. to = Max(S)
  BY DEF EffectiveFloor
<1> HIDE DEF C
<1>5. S \in SUBSET Nat /\ S # {} /\ floor \in S
  BY <1>1
<1>6. S \in SUBSET (0 .. Height(tip))
  BY <1>1, <1>3 DEF FloorOK
<1>7. Max(S) \in S /\ \A x \in S : x <= Max(S)
  BY <1>5, <1>6, MaxIs, Zenon
<1>8. to \in Nat /\ floor <= to
  BY <1>4, <1>5, <1>7
<1>9. to = floor \/ \E c \in C : to = Height(c)
  BY <1>4, <1>7, Zenon
<1>10. to > 0 => to <= Height(tip) /\ At(tip, to) \in certs
  BY <1>2, <1>3, <1>9 DEF FloorOK
<1> QED
  BY <1>8, <1>10

(* A raised floor is the higher of the two.                                *)
LEMMA RaiseFloorIs ==
  ASSUME floor \in Nat, NEW to \in Nat, RaiseFloor(to)
  PROVE  /\ floor' \in {floor, to} /\ floor <= floor' /\ to <= floor' /\ floor' \in Nat
         /\ (floor <= to => floor' = to)
         /\ pending' \subseteq pending
<1>1. \E m \in {floor, to} : \A x \in {floor, to} : m >= x
  OBVIOUS
<1>2. Max({floor, to}) \in {floor, to} /\ \A x \in {floor, to} : Max({floor, to}) >= x
  BY <1>1, Zenon DEF Max
<1> QED
  BY <1>2 DEF RaiseFloor

-----------------------------------------------------------------------------
\* The initial state and the steps outside the lock.

(* The top height of a set of blocks with Genesis is a height.             *)
LEMMA TopType ==
  ASSUME NEW bs \in SUBSET Blocks, Genesis \in bs
  PROVE  Max({Height(b) : b \in bs}) \in Nat
<1> DEFINE S == {Height(b) : b \in bs}
<1>1. PICK hi \in bs : \A b \in bs : Height(b) <= Height(hi)
  BY HeightAssumption
<1>2. S \in SUBSET (0 .. Height(hi)) /\ S # {}
  BY <1>1, ChainType
<1>3. Max(S) \in S
  BY <1>2, MaxIs, Zenon
<1> QED
  BY <1>3, ChainType, Zenon

(* The invariant holds at the start.                                       *)
LEMMA InitInv ==
  Init => IInv
<1> SUFFICES ASSUME Init PROVE IInv
  OBVIOUS
<1>1. /\ Genesis \in Blocks /\ NoBlock \notin Blocks /\ Chain[Genesis] = <<>> /\ Height(Genesis) = 0
      /\ At(Genesis, 0) = Genesis /\ Ancestry(Genesis) = {Genesis} /\ Genesis \notin WrongRoot
  <2>1. Genesis \in Blocks /\ NoBlock \notin Blocks /\ Chain[Genesis] = <<>> /\ Genesis \notin WrongRoot
    BY TreeAssumption, ChainAssumption
  <2>2. Height(Genesis) = 0 /\ At(Genesis, 0) = Genesis
    BY GenesisHeight DEF At
  <2>3. 0 .. Height(Genesis) = {0}
    BY <2>2
  <2> QED
    BY <2>1, <2>2, <2>3 DEF Ancestry
<1>2. top \in Nat /\ stored \subseteq Blocks /\ Genesis \in stored
  BY TopType, ApplyAssumption DEF Init
<1>3. DiskOK(disk)
  <2>1. DOMAIN disk.undo = {}
    BY DEF Init
  <2>2. disk \in [tip : Blocks, state : Seq(Blocks), receipts : [Txs -> MaybeBlock],
                  undo : {disk.undo}, marker : MaybeBlock]
    BY <1>1 DEF Init, MaybeBlock
  <2> QED
    BY <2>1, <2>2, ApplyAssumption DEF DiskOK
<1>4. TypeInv
  BY <1>1, <1>2, <1>3, Zenon DEF Init, TypeInv, Free, NoCheck, PCs, Callers, MaybeBlock
<1>5. RingOK(ring, tip)
  BY <1>1, ApplyAssumption DEF Init, RingOK, Entry
<1>6. IndexInv
  BY <1>1, Zenon DEF Init, IndexInv, IndexOK, Stale
<1>7. LockInv /\ SwitchInv /\ RebuildInv
  BY <1>1, Zenon DEF Init, LockInv, SwitchInv, RebuildInv, Free
<1>8. MemoryInv /\ FloorInv /\ RootInv
  <2>1. /\ disk.tip = tip /\ disk.state = <<>> /\ world = <<>> /\ tip = Genesis
        /\ check = NoCheck /\ floor = 0 /\ op.pc = "free"
    BY DEF Init, Free
  <2>2. MemoryInv /\ RootInv
    BY <1>1, <1>5, <2>1, Zenon DEF MemoryInv, RootInv
  <2>3. FloorInv
    BY <2>1 DEF FloorInv, FloorOK
  <2> QED
    BY <2>2, <2>3, Zenon
<1> QED
  BY <1>4, <1>6, <1>7, <1>8 DEF IInv

(* A step that leaves the applied chain, the disk, the lock and the floor  *)
(* alone keeps the invariant if it keeps the types and the floor check.    *)
LEMMA QuietKeeps ==
  ASSUME IInv, TypeInv', UNCHANGED <<applied, disk, op, floor>>, certs \subseteq certs',
         check' # NoCheck => /\ check'.block \in certs' /\ check'.tip \in Blocks
                             /\ Height(check'.block) <= Height(check'.tip)
  PROVE  IInv'
<1>1. UNCHANGED <<tip, world, ring, disk, op, floor>>
  BY Zenon DEF applied
<1>2. LockInv' /\ MemoryInv' /\ IndexInv' /\ RootInv'
  BY <1>1, Zenon DEF IInv, LockInv, MemoryInv, IndexInv, RootInv
<1>3. FloorInv'
  BY <1>1, Zenon DEF IInv, FloorInv, FloorOK
<1>4. SwitchInv' /\ RebuildInv'
  BY <1>1, Zenon DEF IInv, SwitchInv, RebuildInv, FloorOK
<1> QED
  BY <1>2, <1>3, <1>4, Zenon DEF IInv

(* Hydration, an arriving block, a certificate, the walk of a floor check  *)
(* and the requests for a rebuild move nothing the invariant ties down.    *)
LEMMA OutsideKeeps ==
  ASSUME IInv, NEW b \in Blocks,
         \/ Hydrate \/ PutBlock(b) \/ Finalize(b) \/ CheckWalk(b)
         \/ StartupRecover(b) \/ RecoverGuarded(b)
  PROVE  IInv'
<1> USE DEF boot, finality, applied
<1>1. TypeInv
  BY DEF IInv
<1>2. check # NoCheck => /\ check.block \in certs /\ check.tip \in Blocks
                         /\ Height(check.block) <= Height(check.tip)
  BY Zenon DEF IInv, FloorInv
<1>3. CASE Hydrate
  BY <1>1, <1>2, <1>3, QuietKeeps DEF Hydrate, TypeInv
<1>4. CASE PutBlock(b)
  BY <1>1, <1>2, <1>4, QuietKeeps, Zenon DEF PutBlock, TypeInv
<1>5. CASE Finalize(b)
  <2>1. TypeInv'
    BY <1>1, <1>5, Zenon DEF Finalize, TypeInv, Registered
  <2> QED
    BY <1>2, <1>5, <2>1, QuietKeeps, Zenon DEF Finalize
<1>6. CASE CheckWalk(b)
  <2>1. TypeInv'
    BY <1>1, <1>6, ZenonT(30) DEF CheckWalk, TypeInv, Registered, MaybeBlock
  <2> QED
    BY <1>1, <1>6, <2>1, QuietKeeps, Zenon DEF CheckWalk, TypeInv
<1>7. CASE StartupRecover(b)
  <2>1. TypeInv'
    BY <1>1, <1>7, Zenon DEF StartupRecover, TypeInv, MaybeBlock
  <2> QED
    BY <1>2, <1>7, <2>1, QuietKeeps, Zenon DEF StartupRecover
<1>8. CASE RecoverGuarded(b)
  <2>1. TypeInv'
    BY <1>1, <1>8 DEF RecoverGuarded, TypeInv, MaybeBlock
  <2> QED
    BY <1>2, <1>8, <2>1, QuietKeeps, Zenon DEF RecoverGuarded
<1> QED
  BY <1>3, <1>4, <1>5, <1>6, <1>7, <1>8

(* The verdict of a floor check is used only if the walked chain is still  *)
(* applied, so the floor it raises stands on the applied chain.            *)
LEMMA CheckConfirmKeeps ==
  ASSUME IInv, CheckConfirm
  PROVE  IInv'
<1> USE DEF boot, finality, applied
<1>1. TypeInv /\ FloorInv
  BY DEF IInv
<1>2. /\ check.block \in certs /\ check.block \in Blocks /\ check.tip \in Blocks
      /\ Height(check.block) \in Nat /\ Height(check.block) <= Height(check.tip)
  <2>1. check.block \in certs /\ check.tip \in Blocks /\ Height(check.block) <= Height(check.tip)
    BY <1>1, Zenon DEF CheckConfirm, FloorInv
  <2>2. check.block \in Blocks
    BY <1>1, <2>1, ApplyAssumption, ZenonT(30) DEF TypeInv
  <2> QED
    BY <2>1, <2>2, ChainType, ZenonT(30)
<1>3. CASE ~(Unmoved /\ At(check.tip, Height(check.block)) = check.block)
  <2>1. UNCHANGED <<floor, pending>>
    BY <1>3 DEF CheckConfirm
  <2>2. TypeInv'
    BY <1>1, <2>1 DEF CheckConfirm, TypeInv, NoCheck, MaybeBlock
  <2> QED
    BY <2>1, <2>2, QuietKeeps, Zenon DEF CheckConfirm
<1>4. CASE Unmoved /\ At(check.tip, Height(check.block)) = check.block
  <2>1. /\ floor' \in {floor, Height(check.block)} /\ floor' \in Nat /\ floor <= floor'
        /\ pending' \subseteq pending
    BY <1>1, <1>2, <1>4, RaiseFloorIs, Zenon DEF CheckConfirm, TypeInv
  <2>2. op.pc = "free" /\ UNCHANGED <<tip, world, ring, disk, op, certs>> /\ check' = NoCheck
    BY DEF CheckConfirm, applied, Free
  <2>3. TypeInv'
    BY <1>1, <2>1 DEF CheckConfirm, TypeInv, NoCheck, MaybeBlock, applied
  <2>4. Descends(tip, check.tip)
    BY <1>1, <1>4, DescendsOrder, Zenon DEF Unmoved, TypeInv
  <2>5. Height(check.block) <= Height(tip) /\ At(tip, Height(check.block)) = check.block
    <3>0. tip \in Blocks /\ Height(check.tip) \in Nat
      BY <1>1, <1>2, ChainType, Zenon DEF TypeInv
    <3>1. Height(check.block) \in 0 .. Height(check.tip) /\ tip \in Blocks
      BY <1>2, <3>0
    <3>2. /\ Height(check.block) \in 0 .. Height(tip)
          /\ At(tip, Height(check.block)) = At(check.tip, Height(check.block))
      BY <1>2, <2>4, <3>1, SameBelow, Zenon
    <3> QED
      BY <1>4, <3>0, <3>2
  <2>6. FloorOK(tip)'
    <3>1. FloorOK(tip)
      BY <1>1, <2>2 DEF FloorInv
    <3> QED
      BY <1>2, <2>1, <2>2, <2>5, <3>1, Zenon DEF FloorOK
  <2>7. FloorInv'
    BY <2>2, <2>6, Zenon DEF FloorInv
  <2>8. LockInv' /\ MemoryInv' /\ IndexInv' /\ RootInv'
    BY <2>2, Zenon DEF IInv, LockInv, MemoryInv, IndexInv, RootInv
  <2>9. SwitchInv' /\ RebuildInv'
    BY <2>2, Zenon DEF SwitchInv, RebuildInv
  <2> QED
    BY <2>3, <2>7, <2>8, <2>9 DEF IInv
<1> QED
  BY <1>3, <1>4

-----------------------------------------------------------------------------
\* The drain and the producer.

(* Taking the lock to drain, following fork choice and sealing a block     *)
(* only say what the holder does next.                                     *)
LEMMA LockKeeps ==
  ASSUME IInv, NEW b \in Blocks, NEW by \in {"receive", "drive"},
         Drain(by) \/ FollowForkChoice(b) \/ Produce(b)
  PROVE  IInv'
<1> USE DEF boot, finality, applied
<1>1. TypeInv /\ LockInv /\ MemoryInv /\ IndexInv /\ FloorInv /\ RootInv
  BY DEF IInv
<1>2. /\ UNCHANGED <<tip, world, ring, disk, wanted, rebuilding, floor, pending, certs, check>>
      /\ UNCHANGED <<hydrated, startup, top>> /\ stored' \in {stored, stored \cup {b}}
  BY DEF Drain, FollowForkChoice, Produce
<1>3. op.pc \in {"free", "choose"}
  BY DEF Drain, FollowForkChoice, Produce, Free
<1>4. /\ op' \in [pc : PCs, by : Callers, head : MaybeBlock, fork : MaybeBlock,
                  saved : {op'.saved}, residual : SUBSET Blocks]
      /\ op'.pc \in {"free", "drain", "reorg", "sealed"}
      /\ op'.pc = "free" => op' = Free
      /\ op'.pc = "drain" => op'.by \in {"receive", "drive"}
      /\ op'.pc = "reorg" => op'.head \in Blocks /\ op'.by \in {"receive", "drive"}
      /\ op'.pc = "sealed" => /\ op'.by = "produce"
                              /\ op'.head \in Own \ {Genesis} /\ Parent[op'.head] = tip
  <2>1. CASE Drain(by)
    BY <2>1, <1>1, Zenon DEF Drain, Free, PCs, Callers, MaybeBlock
  <2>2. CASE FollowForkChoice(b)
    <3>1. op.by \in {"receive", "drive"}
      BY <1>1, <2>2 DEF LockInv, FollowForkChoice
    <3>2. CASE b = tip
      BY <2>2, <3>2 DEF FollowForkChoice, Unlock, Free, PCs, Callers, MaybeBlock
    <3>3. CASE b # tip
      <4>1. op' = [op EXCEPT !.pc = "reorg", !.head = b]
        BY <2>2, <3>3 DEF FollowForkChoice
      <4> QED
        BY <1>1, <3>1, <4>1, Zenon DEF TypeInv, PCs, MaybeBlock
    <3> QED
      BY <3>2, <3>3
  <2>3. CASE Produce(b)
    <3>1. b \in Own \ {Genesis} /\ Parent[b] = tip
      BY <1>1, <2>3 DEF Produce, TypeInv
    <3>2. op' = [Free EXCEPT !.pc = "sealed", !.by = "produce", !.head = b]
      BY <2>3 DEF Produce
    <3> QED
      BY <3>1, <3>2, Zenon DEF Free, PCs, Callers, MaybeBlock
  <2> QED
    BY <2>1, <2>2, <2>3
<1>5. TypeInv'
  BY <1>1, <1>2, <1>4 DEF TypeInv
<1>6. LockInv'
  <2>1. op'.pc = "sealed" => op'.head \in Blocks
    BY <1>4, ApplyAssumption
  <2> QED
    BY <1>2, <1>4, <2>1 DEF LockInv
<1>7. MemoryInv' /\ IndexInv' /\ RootInv'
  BY <1>1, <1>2, <1>3, <1>4, Zenon DEF MemoryInv, IndexInv, RootInv
<1>8. FloorInv' /\ SwitchInv' /\ RebuildInv'
  BY <1>1, <1>2, <1>3, <1>4, Zenon DEF FloorInv, FloorOK, SwitchInv, RebuildInv
<1> QED
  BY <1>5, <1>6, <1>7, <1>8 DEF IInv

(* Applying and persisting a child of the tip moves memory, disk and ring  *)
(* to the child together.                                                  *)
LEMMA AdvanceIs ==
  ASSUME TypeInv, MemoryInv, op.pc # "reapply", NEW b \in Blocks \ {Genesis}, Parent[b] = tip,
         NEW bs \in SUBSET {b}, bs = {} => b \in Own,
         NEW stale, IndexOK(disk.receipts, tip, stale),
         world' = Append(world, b), disk' = WriteBlock(b, bs), tip' = b, ring' = Record(b, world')
  PROVE  /\ world' = Chain[b] /\ RingOK(ring', b)
         /\ DiskOK(disk') /\ disk'.tip = b /\ disk'.state = Chain[b] /\ disk'.marker = disk.marker
         /\ disk'.receipts = WithReceipts(disk.receipts, bs)
         /\ IndexOK(disk'.receipts, b, stale)
<1>1. tip \in Blocks /\ disk.tip = tip /\ disk.state = Chain[tip] /\ world = Chain[tip] /\ DiskOK(disk)
  BY Zenon DEF TypeInv, MemoryInv
<1>2. Chain[b] = Append(Chain[tip], b)
  BY ChildChain, Zenon
<1>3. /\ DiskOK(disk') /\ disk'.tip = b /\ disk'.state = Append(disk.state, b)
      /\ disk'.marker = disk.marker /\ disk'.receipts = WithReceipts(disk.receipts, bs)
  BY <1>1, WriteBlockIs, bs \in SUBSET Blocks, ZenonT(30)
<1>4. RingOK(ring', b)
  BY <1>1, <1>2, RecordKeepsRing, Zenon DEF MemoryInv
<1>5. IndexOK(disk'.receipts, b, stale)
  <2>1. disk.receipts \in [Txs -> MaybeBlock]
    BY <1>1 DEF DiskOK
  <2>2. Descends(b, tip) /\ Above(b, Height(tip)) = {b}
    BY DescendsOrder, AboveParent, ZenonT(30)
  <2>3. bs \in SUBSET (Ancestry(b) \ {Genesis})
    BY DescendsOrder DEF Descends
  <2>4. Above(b, Height(tip)) \ bs \subseteq Own
    BY <2>2
  <2>5. IndexOK(WithReceipts(disk.receipts, bs), b, stale)
    BY <1>1, <2>1, <2>2, <2>3, <2>4, IndexExtends, Zenon
  <2> QED
    BY <1>3, <2>5, Zenon
<1> QED
  BY <1>1, <1>2, <1>3, <1>4, <1>5, Zenon

(* What a certified floor stands on, its child's chain has too.            *)
LEMMA FloorStays ==
  ASSUME NEW t \in Blocks, NEW b \in Blocks, Descends(b, t), floor \in Nat, FloorOK(t)
  PROVE  FloorOK(b)
<1> SUFFICES ASSUME floor > 0 PROVE floor <= Height(b) /\ At(b, floor) \in certs
  BY DEF FloorOK
<1>1. floor \in 0 .. Height(t) /\ At(t, floor) \in certs
  BY ChainType DEF FloorOK
<1> QED
  BY <1>1, SameBelow, ChainType

(* The drain applies one block, or goes on to fork choice.                 *)
LEMMA DrainForwardKeeps ==
  ASSUME IInv, NEW ok, DrainForward(ok)
  PROVE  IInv'
<1> USE DEF boot, finality, applied
<1>1. TypeInv /\ LockInv /\ MemoryInv /\ IndexInv /\ FloorInv /\ RootInv
  BY DEF IInv
<1>2. /\ op.pc = "drain" /\ op.by \in {"receive", "drive"}
      /\ UNCHANGED <<stored, hydrated, startup, top, wanted, rebuilding, floor, pending, certs, check>>
  BY <1>1 DEF DrainForward, LockInv
<1>3. CASE op' = [op EXCEPT !.pc = "choose"] /\ UNCHANGED <<tip, world, ring, disk>>
  <2>1. op'.pc = "choose" /\ op'.by = op.by
    BY <1>1, <1>3 DEF TypeInv
  <2>2. TypeInv'
    BY <1>1, <1>2, <1>3 DEF TypeInv, PCs
  <2>3. LockInv' /\ MemoryInv' /\ IndexInv' /\ RootInv'
    BY <1>1, <1>2, <1>3, <2>1 DEF LockInv, MemoryInv, IndexInv, RootInv
  <2>4. FloorInv' /\ SwitchInv' /\ RebuildInv'
    BY <1>1, <1>2, <1>3, <2>1, Zenon DEF FloorInv, FloorOK, SwitchInv, RebuildInv
  <2> QED
    BY <2>2, <2>3, <2>4 DEF IInv
<1>4. CASE ~(op' = [op EXCEPT !.pc = "choose"] /\ UNCHANGED <<tip, world, ring, disk>>)
  <2>1. PICK b \in Extensions : Extensions = {b} /\ Reproduces(world, b)
    BY <1>4 DEF DrainForward
  <2>2. /\ world' = Append(world, b) /\ disk' = WriteBlock(b, {b}) /\ tip' = b
        /\ ring' = Record(b, world') /\ op' = op
    <3>1. (CHOOSE c \in Extensions : TRUE) = b
      BY <2>1
    <3> QED
      BY <1>4, <2>1, <3>1, Zenon DEF DrainForward
  <2>3. b \in Blocks \ {Genesis} /\ Parent[b] = tip /\ b \notin WrongRoot
    BY <1>1, <2>1, Zenon DEF Extensions, TypeInv, Reproduces
  <2>4. IndexOK(disk.receipts, tip, Stale(disk.marker))
    BY <1>1, <1>2 DEF IndexInv, MemoryInv
  <2>5. /\ world' = Chain[b] /\ RingOK(ring', b)
        /\ DiskOK(disk') /\ disk'.tip = b /\ disk'.state = Chain[b] /\ disk'.marker = disk.marker
        /\ IndexOK(disk'.receipts, b, Stale(disk.marker))
    BY <1>1, <1>2, <2>2, <2>3, <2>4, AdvanceIs, Zenon
  <2>6. TypeInv'
    BY <1>1, <1>2, <2>2, <2>3, <2>5, Zenon DEF TypeInv
  <2>7. LockInv' /\ MemoryInv' /\ IndexInv' /\ RootInv'
    BY <1>1, <1>2, <2>2, <2>3, <2>5, Zenon DEF LockInv, MemoryInv, IndexInv, RootInv
  <2>8. FloorOK(b)
    BY <1>1, <1>2, <2>3, FloorStays, DescendsOrder, Zenon DEF FloorInv, TypeInv
  <2>9. FloorInv' /\ SwitchInv' /\ RebuildInv'
    BY <1>1, <1>2, <2>2, <2>8, Zenon DEF FloorInv, FloorOK, SwitchInv, RebuildInv
  <2> QED
    BY <2>6, <2>7, <2>9 DEF IInv
<1> QED
  BY <1>3, <1>4

(* The producer persists the block it sealed, then its receipts.           *)
LEMMA ProducerKeeps ==
  ASSUME IInv, NEW ok, PersistSealed(ok) \/ PutReceipts(ok)
  PROVE  IInv'
<1> USE DEF boot, finality, applied
<1>1. TypeInv /\ LockInv /\ MemoryInv /\ IndexInv /\ FloorInv /\ RootInv
  BY DEF IInv
<1>2. /\ op.pc \in {"sealed", "receipts"}
      /\ UNCHANGED <<stored, hydrated, startup, top, wanted, rebuilding, floor, pending, certs, check>>
  BY Zenon DEF PersistSealed, PutReceipts
<1>3. IndexOK(disk.receipts, tip, Stale(disk.marker)) /\ disk.tip = tip
  BY <1>1, <1>2, Zenon DEF IndexInv, MemoryInv
<1>4. CASE op' = Free /\ UNCHANGED <<tip, world, ring, disk>>
  <2>1. op'.pc = "free" /\ op'.by = "none"
    BY <1>4 DEF Free
  <2>2. TypeInv'
    BY <1>1, <1>2, <1>4, Zenon DEF TypeInv, Free, PCs, Callers, MaybeBlock
  <2>3. LockInv' /\ MemoryInv' /\ IndexInv' /\ RootInv'
    BY <1>1, <1>2, <1>4, <2>1, Zenon DEF LockInv, MemoryInv, IndexInv, RootInv
  <2>4. FloorInv' /\ SwitchInv' /\ RebuildInv'
    BY <1>1, <1>2, <1>4, <2>1, Zenon DEF FloorInv, FloorOK, SwitchInv, RebuildInv
  <2> QED
    BY <2>2, <2>3, <2>4, Zenon DEF IInv
<1>5. CASE PersistSealed(ok) /\ ok
  <2> DEFINE b == op.head
  <2>1. /\ world' = Append(world, b) /\ disk' = WriteBlock(b, {}) /\ tip' = b
        /\ ring' = Record(b, world') /\ op' = [op EXCEPT !.pc = "receipts"]
    BY <1>5 DEF PersistSealed
  <2>2. b \in Blocks \ {Genesis} /\ b \in Own /\ Parent[b] = tip /\ b \notin WrongRoot
    BY <1>1, <1>5, ApplyAssumption DEF PersistSealed, LockInv
  <2>3. op'.pc = "receipts" /\ op'.head = b
    BY <1>1, <2>1 DEF TypeInv
  <2> HIDE DEF b
  <2>4. /\ world' = Chain[b] /\ RingOK(ring', b)
        /\ DiskOK(disk') /\ disk'.tip = b /\ disk'.state = Chain[b] /\ disk'.marker = disk.marker
        /\ IndexOK(disk'.receipts, b, Stale(disk.marker))
    BY <1>1, <1>2, <1>3, <2>1, <2>2, AdvanceIs, Zenon
  <2>5. TypeInv'
    BY <1>1, <1>2, <2>1, <2>2, <2>4, Zenon DEF TypeInv, PCs
  <2>6. LockInv' /\ MemoryInv' /\ IndexInv' /\ RootInv'
    <3>1. tip' = b
      BY <2>1, Zenon
    <3>2. op'.by = op.by /\ op'.pc \notin {"free", "halted", "reapply", "guard", "sealed"}
      BY <1>1, <2>1, <2>3 DEF TypeInv
    <3>3. LockInv'
      BY <2>2, <2>3, <3>1, <3>2 DEF LockInv
    <3>4. MemoryInv' /\ IndexInv' /\ RootInv'
      BY <2>2, <2>3, <2>4, <3>1, <3>2, Zenon DEF MemoryInv, IndexInv, RootInv
    <3> QED
      BY <3>3, <3>4, Zenon
  <2>7. FloorOK(b)
    BY <1>1, <1>2, <2>2, FloorStays, DescendsOrder DEF FloorInv, TypeInv
  <2>8. FloorInv' /\ SwitchInv' /\ RebuildInv'
    BY <1>1, <1>2, <2>1, <2>3, <2>7 DEF FloorInv, FloorOK, SwitchInv, RebuildInv
  <2> QED
    BY <2>5, <2>6, <2>8 DEF IInv
<1>6. CASE PutReceipts(ok) /\ ok
  <2>1. /\ disk' = [disk EXCEPT !.receipts = WithReceipts(disk.receipts, {tip})]
        /\ op' = Free /\ UNCHANGED <<tip, world, ring>>
    BY <1>1, <1>6 DEF PutReceipts, Unlock, LockInv
  <2>2. tip \in Blocks \ {Genesis} /\ {tip} \in SUBSET Blocks
    BY <1>1, <1>6 DEF PutReceipts, LockInv, TypeInv
  <2>3. op'.pc = "free" /\ op'.by = "none"
    BY <2>1 DEF Free
  <2>4. DiskOK(disk) /\ disk.receipts \in [Txs -> MaybeBlock]
    BY <1>1 DEF TypeInv, DiskOK
  <2>5. WithReceipts(disk.receipts, {tip}) \in [Txs -> MaybeBlock]
    BY <2>2, <2>4, IndexType
  <2>6. /\ disk'.receipts = WithReceipts(disk.receipts, {tip})
        /\ disk'.tip = disk.tip /\ disk'.state = disk.state /\ disk'.marker = disk.marker
        /\ DiskOK(disk')
    BY <2>1, <2>4, <2>5, Zenon DEF DiskOK
  <2>7. IndexOK(disk'.receipts, tip, Stale(disk.marker))
    <3>1. /\ Descends(tip, tip) /\ {tip} \in SUBSET (Ancestry(tip) \ {Genesis})
      BY <2>2, DescendsOrder DEF Descends
    <3>2. Above(tip, Height(tip)) = {}
      BY <2>2, ChainType DEF Above
    <3>3. Above(tip, Height(tip)) \ {tip} \subseteq Own
      BY <3>2
    <3>4. IndexOK(WithReceipts(disk.receipts, {tip}), tip, Stale(disk.marker))
      BY <1>3, <2>2, <2>4, <3>1, <3>3, IndexExtends, ZenonT(30)
    <3> QED
      BY <2>6, <3>4, Zenon
  <2>8. TypeInv'
    BY <1>1, <1>2, <2>1, <2>6 DEF TypeInv, Free, PCs, Callers, MaybeBlock
  <2>9. LockInv' /\ MemoryInv' /\ IndexInv' /\ RootInv'
    BY <1>1, <1>2, <1>3, <2>1, <2>3, <2>6, <2>7 DEF LockInv, MemoryInv, IndexInv, RootInv
  <2>10. FloorInv' /\ SwitchInv' /\ RebuildInv'
    BY <1>1, <1>2, <2>1, <2>3 DEF FloorInv, FloorOK, SwitchInv, RebuildInv
  <2> QED
    BY <2>8, <2>9, <2>10 DEF IInv
<1> QED
  BY <1>4, <1>5, <1>6 DEF PersistSealed, PutReceipts, Unlock

-----------------------------------------------------------------------------
\* The in-memory reorg.

(* A forward step toward a head is a block of the head's chain.            *)
LEMMA ForwardStepType ==
  ASSUME tip \in Blocks, NEW head \in Blocks
  PROVE  ForwardStep(head) \in Blocks
<1> DEFINE S == {Height(head), Height(tip) + ForwardCap - 1}
<1>1. Height(head) \in Nat /\ Height(tip) + ForwardCap - 1 \in Nat
  BY ChainType, ApplyAssumption
<1>2. \E m \in S : \A x \in S : m =< x
  BY <1>1
<1>3. Min(S) \in S /\ \A x \in S : Min(S) =< x
  BY <1>2 DEF Min
<1>4. Min(S) \in 0 .. Height(head)
  BY <1>1, <1>3
<1> QED
  BY <1>4, ChainType DEF ForwardStep

(* What the caller of reorg_to does next: it is done, takes a forward      *)
(* step, or is a rebuild that goes on to its guard.                        *)
LEMMA AfterIs ==
  ASSUME TypeInv, LockInv, op.pc \in {"reorg", "reapply"}, NEW outcome, NEW at,
         outcome = "beyond" => op.pc = "reorg", After(outcome, at)
  PROVE  /\ op' \in [pc : PCs, by : Callers, head : MaybeBlock, fork : MaybeBlock,
                     saved : {op'.saved}, residual : SUBSET Blocks]
         /\ wanted' \in MaybeBlock /\ rebuilding' \in BOOLEAN /\ (rebuilding' => wanted' \in Blocks)
         /\ \/ op' = Free
            \/ op'.pc = "reorg" /\ op'.by = "step" /\ op'.head \in Blocks
            \/ /\ op'.pc = "guard" /\ op'.by = "rebuild" /\ op.by = "rebuild"
               /\ op'.head = op.head /\ op'.fork = op.fork /\ outcome # "reorged"
<1> USE DEF TypeInv, PCs, Callers, MaybeBlock
<1>1. op.head \in Blocks
  BY Zenon DEF LockInv
<1>2. CASE op.by = "drive" /\ outcome = "beyond"
  <2>1. CASE Descends(op.head, tip) /\ ForwardStep(op.head) # tip
    <3>1. /\ op' = [op EXCEPT !.by = "step", !.head = ForwardStep(op.head)]
          /\ UNCHANGED <<wanted, rebuilding>>
      BY <1>2, <2>1 DEF After
    <3>2. ForwardStep(op.head) \in Blocks /\ op.pc = "reorg"
      BY <1>1, <1>2, ForwardStepType, Zenon
    <3> QED
      BY <3>1, <3>2, Zenon
  <2>2. CASE ~(Descends(op.head, tip) /\ ForwardStep(op.head) # tip)
    <3>1. /\ op' = Free /\ UNCHANGED rebuilding
          /\ wanted' = IF wanted = NoBlock /\ hydrated THEN op.head ELSE wanted
      BY <1>2, <2>2, Zenon DEF After, Unlock
    <3> QED
      BY <1>1, <3>1, TreeAssumption DEF Free
  <2> QED
    BY <2>1, <2>2
<1>3. CASE op.by = "rebuild"
  <2>1. CASE GoesOn(outcome, at)
    <3>1. op' = [op EXCEPT !.pc = "guard"] /\ UNCHANGED <<wanted, rebuilding>>
      BY <1>3, <2>1 DEF After
    <3>2. outcome # "reorged"
      BY <2>1 DEF GoesOn
    <3> QED
      BY <1>3, <3>1, <3>2
  <2>2. CASE ~GoesOn(outcome, at)
    <3>1. op' = Free /\ wanted' = NoBlock /\ rebuilding' = FALSE
      BY <1>3, <2>2 DEF After, Unlock, EndRebuild
    <3> QED
      BY <3>1, Zenon DEF Free
  <2> QED
    BY <2>1, <2>2
<1>4. CASE ~(op.by = "drive" /\ outcome = "beyond") /\ op.by # "rebuild"
  <2>1. op' = Free /\ UNCHANGED <<wanted, rebuilding>>
    BY <1>4, Zenon DEF After, Unlock
  <2> QED
    BY <2>1 DEF Free
<1> QED
  BY <1>2, <1>3, <1>4

(* Whatever the caller does next, the invariant holds if memory, disk,     *)
(* index and floor agree with the tip the reorg ends on.                   *)
LEMMA AfterKeeps ==
  ASSUME TypeInv, LockInv, FloorInv, op.pc \in {"reorg", "reapply"}, NEW outcome, NEW at,
         outcome = "beyond" => op.pc = "reorg", After(outcome, at),
         UNCHANGED <<stored, hydrated, startup, top, certs, check>>,
         floor' \in Nat, pending' \subseteq certs, FloorOK(tip)',
         tip' \in Blocks, tip' \notin WrongRoot, world' = Chain[tip'], RingOK(ring', tip'),
         DiskOK(disk'), disk'.tip = tip', disk'.state = Chain[tip'],
         IndexOK(disk'.receipts, tip', Stale(disk'.marker)),
         outcome # "reorged" => tip' = tip /\ disk'.marker = disk.marker
  PROVE  IInv'
<1>1. /\ op' \in [pc : PCs, by : Callers, head : MaybeBlock, fork : MaybeBlock,
                  saved : {op'.saved}, residual : SUBSET Blocks]
      /\ wanted' \in MaybeBlock /\ rebuilding' \in BOOLEAN /\ (rebuilding' => wanted' \in Blocks)
      /\ \/ op' = Free
         \/ op'.pc = "reorg" /\ op'.by = "step" /\ op'.head \in Blocks
         \/ /\ op'.pc = "guard" /\ op'.by = "rebuild" /\ op.by = "rebuild"
            /\ op'.head = op.head /\ op'.fork = op.fork /\ outcome # "reorged"
  BY AfterIs
<1>2. op'.pc \in {"free", "reorg", "guard"} /\ (op'.pc = "free" => op' = Free)
  BY <1>1 DEF Free
<1>3. TypeInv'
  BY <1>1 DEF TypeInv
<1>4. LockInv'
  <2>1. CASE op' = Free
    BY <2>1, Zenon DEF LockInv, Free
  <2>2. CASE op'.pc = "reorg" /\ op'.by = "step" /\ op'.head \in Blocks
    BY <2>2, Zenon DEF LockInv
  <2>3. CASE /\ op'.pc = "guard" /\ op'.by = "rebuild" /\ op.by = "rebuild"
             /\ op'.head = op.head /\ op'.fork = op.fork /\ outcome # "reorged"
    <3>1. /\ disk.marker = NoBlock /\ Descends(tip, op.fork) /\ Descends(op.head, op.fork)
          /\ op.head \in Blocks /\ op.fork # op.head
      BY <2>3, Zenon DEF LockInv
    <3> QED
      BY <2>3, <3>1, Zenon DEF LockInv
  <2> QED
    BY <1>1, <2>1, <2>2, <2>3, Zenon
<1>5. MemoryInv' /\ IndexInv' /\ RootInv'
  BY <1>2, Zenon DEF MemoryInv, IndexInv, RootInv
<1>6. FloorInv'
  BY <1>2, Zenon DEF FloorInv
<1>7. SwitchInv' /\ RebuildInv'
  BY <1>2, Zenon DEF SwitchInv, RebuildInv
<1> QED
  BY <1>3, <1>4, <1>5, <1>6, <1>7, Zenon DEF IInv

(* The fork point the walk of reorg_to finds: a block of both chains, held *)
(* by the ring, below the head.                                            *)
LEMMA ForkPointIs ==
  ASSUME tip \in Blocks, RingOK(ring, tip), NEW head \in Blocks, ReorgWalk(head) = "fork"
  PROVE  LET at == WalkEnd(head)
             fork == ring[at].hash
         IN  /\ at \in Nat /\ Height(fork) = at /\ fork \in Blocks /\ fork # head
             /\ ring[at].state = Chain[fork]
             /\ Descends(tip, fork) /\ Descends(head, fork)
<1> DEFINE at == WalkEnd(head)
           fork == ring[at].hash
           S == {h \in 0 .. Height(head) :
                   \/ Retained(head, h) \/ At(head, h) \notin stored
                   \/ h <= RevertFloor \/ Height(head) - h >= ForwardCap}
<1>1. Height(head) \in Nat /\ Height(tip) \in Nat
  BY ChainType
<1>2. at \in 0 .. Height(head)
  <2>1. 0 <= RevertFloor
    BY <1>1, ApplyAssumption DEF RevertFloor
  <2>2. S \in SUBSET (0 .. Height(head)) /\ 0 \in S
    BY <1>1, <2>1
  <2>3. at = Max(S)
    BY DEF WalkEnd
  <2>4. Max(S) \in S
    <3> HIDE DEF S
    <3> QED
      BY <2>2, MaxIs
  <2> QED
    BY <2>3, <2>4
<1>3. ~Descends(tip, head) /\ Retained(head, at)
  BY DEF ReorgWalk
<1>4. at \in DOMAIN ring /\ ring[at].hash = At(head, at)
  BY <1>3 DEF Retained
<1>5. at \in 0 .. Height(tip) /\ ring[at] = [hash |-> At(tip, at), state |-> Chain[At(tip, at)]]
  BY <1>4, Zenon DEF RingOK
<1> HIDE DEF at
<1>6. fork = At(tip, at) /\ fork = At(head, at) /\ ring[at].state = Chain[fork]
  BY <1>4, <1>5
<1>7. fork \in Blocks /\ Height(fork) = at
  BY <1>2, <1>6, PrefixChain, Zenon
<1>8. Descends(tip, fork)
  <2>1. Descends(tip, At(tip, at))
    BY <1>5, DescendsOrder, ZenonT(30)
  <2> QED
    BY <1>6, <2>1, Zenon
<1>9. Descends(head, fork)
  BY <1>2, <1>6, DescendsOrder
<1>10. fork # head
  BY <1>3, <1>8, Zenon
<1>11. at \in Nat
  BY <1>2
<1> QED
  BY <1>6, <1>7, <1>8, <1>9, <1>10, <1>11, Zenon DEF at

(* reorg_to: an outcome other than a switch leaves chain and disk alone; a *)
(* switch reverts both to the fork point, not below the floor.             *)
LEMMA ReorgToKeeps ==
  ASSUME IInv, NEW ok, ReorgTo(ok)
  PROVE  IInv'
<1> USE DEF boot
<1> DEFINE head == op.head
           at == WalkEnd(head)
           fork == ring[at].hash
           to == EffectiveFloor(FALSE)
<1>1. TypeInv /\ LockInv /\ MemoryInv /\ IndexInv /\ FloorInv /\ RootInv
  BY DEF IInv
<1>2. /\ op.pc = "reorg" /\ head \in Blocks
      /\ UNCHANGED <<stored, hydrated, startup, top, tip, ring, certs, check>>
  BY <1>1, Zenon DEF ReorgTo, LockInv
<1>3. /\ tip \in Blocks /\ tip \notin WrongRoot /\ FloorOK(tip) /\ floor \in Nat
      /\ disk.tip = tip /\ disk.state = Chain[tip] /\ world = Chain[tip] /\ RingOK(ring, tip)
      /\ DiskOK(disk) /\ IndexOK(disk.receipts, tip, Stale(disk.marker))
      /\ pending \subseteq certs /\ certs \subseteq Blocks
  BY <1>1, <1>2, ApplyAssumption DEF TypeInv, MemoryInv, IndexInv, FloorInv, RootInv
<1>4. to \in Nat /\ floor <= to /\ (to > 0 => to <= Height(tip) /\ At(tip, to) \in certs)
  BY <1>3, EffectiveFloorIs, Zenon
<1> HIDE DEF to
<1>5. RaiseFloor(to) => floor' \in Nat /\ floor' = to /\ pending' \subseteq certs /\ FloorOK(tip)'
  <2> SUFFICES ASSUME RaiseFloor(to)
               PROVE  floor' \in Nat /\ floor' = to /\ pending' \subseteq certs /\ FloorOK(tip)'
    BY Zenon
  <2>1. floor' = to /\ pending' \subseteq pending
    BY <1>3, <1>4, RaiseFloorIs, Zenon
  <2> QED
    BY <1>2, <1>3, <1>4, <2>1, Zenon DEF FloorOK
<1>6. CASE ReorgWalk(head) # "fork"
  <2>1. After(ReorgWalk(head), to) /\ UNCHANGED <<floor, pending>> /\ UNCHANGED <<world, disk>>
    BY <1>6, Zenon DEF ReorgTo, to
  <2>2. floor' \in Nat /\ pending' \subseteq certs /\ FloorOK(tip)'
    BY <1>2, <1>3, <2>1, Zenon DEF FloorOK
  <2> QED
    BY <1>1, <1>2, <1>3, <2>1, <2>2, AfterKeeps, Zenon
<1>7. CASE ReorgWalk(head) = "fork" /\ (at < to \/ ~ok)
  <2>1. After("rejected", to) /\ RaiseFloor(to) /\ UNCHANGED <<world, disk>>
    BY <1>7, Zenon DEF ReorgTo, to
  <2> QED
    BY <1>1, <1>2, <1>3, <1>5, <2>1, AfterKeeps, Zenon
<1>8. CASE ReorgWalk(head) = "fork" /\ ~(at < to) /\ ok
  <2> DEFINE lost == Above(tip, at)
  <2>1. /\ RaiseFloor(to) /\ world' = ring[at].state
        /\ disk' = Reconcile(world, world', fork, WithoutReceipts(disk.receipts, lost))
        /\ op' = [op EXCEPT !.pc = "reapply", !.fork = fork,
                            !.saved = [world |-> world, kept |-> Indexed(disk.receipts, lost)]]
        /\ UNCHANGED <<wanted, rebuilding>>
    BY <1>8, Zenon DEF ReorgTo, to
  <2>2. /\ at \in Nat /\ Height(fork) = at /\ fork \in Blocks /\ fork # head
        /\ ring[at].state = Chain[fork] /\ Descends(tip, fork) /\ Descends(head, fork)
    BY <1>2, <1>3, <1>8, ForkPointIs, Zenon
  <2> HIDE DEF fork, at
  <2>3. disk.receipts \in [Txs -> MaybeBlock] /\ Chain[fork] \in Seq(Blocks)
    BY <1>3, <2>2, ChainType, Zenon DEF DiskOK
  <2>4. lost \in SUBSET Blocks
    BY <1>3, <2>2, SplitChain, Zenon
  <2>5. /\ IndexOK(WithoutReceipts(disk.receipts, lost), fork, Stale(disk.marker))
        /\ Kept(Indexed(disk.receipts, lost), lost)
    BY <1>3, <2>2, <2>3, IndexReverts, Zenon
  <2>6. WithoutReceipts(disk.receipts, lost) \in [Txs -> MaybeBlock]
    BY <2>3, <2>4, IndexType, Zenon
  <2> HIDE DEF lost
  <2>7. /\ DiskOK(disk') /\ disk'.tip = fork /\ disk'.marker = disk.marker /\ disk'.state = Chain[fork]
        /\ disk'.receipts = WithoutReceipts(disk.receipts, lost)
    <3>1. Reconciled(disk', Chain[fork], fork, WithoutReceipts(disk.receipts, lost))
      BY <1>3, <2>1, <2>2, Zenon DEF Reconciled
    <3>2. DiskOK(disk) /\ fork \in Blocks /\ Chain[fork] \in Seq(Blocks)
      BY <1>3, <2>2, <2>3, Zenon
    <3>3. Moved(disk', Chain[fork], fork, WithoutReceipts(disk.receipts, lost))
      BY ONLY <2>6, <3>1, <3>2, ReconcileIs, Zenon
    <3> QED
      BY <3>3, Zenon DEF Moved
  <2>8. /\ op'.pc = "reapply" /\ op'.fork = fork /\ op'.head = head /\ op'.by = op.by
        /\ op'.saved.world = Chain[tip] /\ op'.saved.kept = Indexed(disk.receipts, lost)
    BY <1>1, <1>3, <2>1 DEF TypeInv
  <2>9. TypeInv'
    <3>1. op' \in [pc : PCs, by : Callers, head : MaybeBlock, fork : MaybeBlock,
                   saved : {op'.saved}, residual : SUBSET Blocks]
      BY <1>1, <2>1, <2>2, Zenon DEF TypeInv, PCs, MaybeBlock
    <3> QED
      BY <1>1, <1>2, <1>5, <2>1, <2>7, <3>1 DEF TypeInv
  <2>10. LockInv'
    BY <1>1, <1>2, <2>2, <2>7, <2>8, Zenon DEF LockInv
  <2>11. MemoryInv' /\ IndexInv' /\ RootInv'
    BY <1>2, <1>3, <2>1, <2>2, <2>5, <2>7, <2>8, Zenon DEF MemoryInv, IndexInv, RootInv
  <2>12. FloorInv' /\ RebuildInv'
    BY <1>1, <1>2, <1>5, <2>1, <2>8, Zenon DEF FloorInv, RebuildInv
  <2>13. SwitchInv'
    <3>1. floor' <= Height(fork)
      <4>1. floor' = to /\ to \in Nat
        BY <1>4, <1>5, <2>1, Zenon
      <4>2. ~(Height(fork) < to) /\ Height(fork) \in Nat
        BY <1>8, <2>2, Zenon
      <4> QED
        BY <4>1, <4>2
    <3>2. Above(tip, Height(fork)) = lost
      BY <2>2, Zenon DEF lost
    <3> QED
      BY <1>2, <2>2, <2>5, <2>8, <3>1, <3>2, Zenon DEF SwitchInv
  <2> QED
    BY <2>9, <2>10, <2>11, <2>12, <2>13 DEF IInv
<1> QED
  BY <1>6, <1>7, <1>8

(* The blocks above a fork point are the chain's own, without Genesis.     *)
LEMMA AboveType ==
  ASSUME NEW f \in Blocks, NEW t \in Blocks, Descends(t, f)
  PROVE  Above(t, Height(f)) \in SUBSET (Ancestry(t) \ {Genesis}) /\ Above(t, Height(f)) \in SUBSET Blocks
  BY SplitChain

(* A floor no higher than an ancestor stands on the ancestor's chain too.  *)
LEMMA FloorBelow ==
  ASSUME NEW f \in Blocks, NEW t \in Blocks, Descends(t, f), floor \in Nat, floor <= Height(f), FloorOK(t)
  PROVE  FloorOK(f)
<1>1. floor \in 0 .. Height(f)
  BY ChainType
<1> QED
  BY <1>1, SameBelow DEF FloorOK

(* The end of a switch: the branch is committed with its receipts, or      *)
(* memory and disk go back to the tip they left.                           *)
LEMMA ReapplyKeeps ==
  ASSUME IInv, NEW ok, Reapply(ok, TRUE)
  PROVE  IInv'
<1> USE DEF boot
<1> DEFINE head == op.head
           fork == op.fork
           kept == op.saved.kept
           to == EffectiveFloor(FALSE)
<1>1. TypeInv /\ LockInv /\ MemoryInv /\ IndexInv /\ FloorInv /\ RootInv /\ SwitchInv
  BY DEF IInv
<1>2. /\ op.pc = "reapply" /\ head \in Blocks
      /\ UNCHANGED <<stored, hydrated, startup, top, certs, check>>
  BY <1>1 DEF Reapply, LockInv
<1>3. /\ tip \in Blocks /\ tip \notin WrongRoot /\ FloorOK(tip) /\ floor \in Nat
      /\ disk.tip = fork /\ disk.state = Chain[fork] /\ world = Chain[fork] /\ RingOK(ring, tip)
      /\ DiskOK(disk) /\ disk.receipts \in [Txs -> MaybeBlock]
      /\ IndexOK(disk.receipts, fork, Stale(disk.marker))
      /\ pending \subseteq certs /\ certs \subseteq Blocks
  BY <1>1, <1>2, ApplyAssumption, Zenon DEF TypeInv, MemoryInv, IndexInv, FloorInv, RootInv, DiskOK
<1>4. /\ fork \in Blocks /\ fork # head /\ Descends(tip, fork) /\ Descends(head, fork)
      /\ floor <= Height(fork) /\ op.saved.world = Chain[tip]
      /\ Kept(kept, Above(tip, Height(fork)))
  BY <1>1, <1>2, Zenon DEF SwitchInv
<1>5. CASE BranchVerifies /\ ok
  <2> DEFINE index == WithReceipts(disk.receipts, Branch)
             mid == Reconcile(world, Chain[head], head, index)
             undo == InUndoWindow(Put(disk.undo, BranchUndo), Height(head))
  <2>1. /\ world' = Chain[head] /\ tip' = head
        /\ disk' = [mid EXCEPT !.undo = InUndoWindow(Put(mid.undo, BranchUndo), Height(head))]
        /\ ring' = InRing(Put(ring, [h \in DOMAIN BranchUndo |->
                             [hash |-> At(head, h), state |-> Chain[At(head, h)]]]), Height(head))
        /\ After("reorged", 0) /\ UNCHANGED <<floor, pending>>
    BY <1>5, ZenonT(30) DEF Reapply
  <2>2. Branch \in SUBSET (Ancestry(head) \ {Genesis}) /\ Branch \in SUBSET Blocks
    BY <1>2, <1>4, AboveType DEF Branch
  <2>3. head \notin WrongRoot
    <3>1. Descends(head, head) /\ ~Descends(fork, head)
      <4>1. Height(fork) # Height(head)
        BY <1>2, <1>4, DescendsAt, OwnHeight, Zenon
      <4>2. Height(fork) <= Height(head) /\ Height(fork) \in Nat /\ Height(head) \in Nat
        BY <1>2, <1>4, DescendsAt, ChainType, Zenon
      <4>3. ~(Height(head) <= Height(fork))
        BY <4>1, <4>2
      <4> QED
        BY <1>2, <1>4, <4>3, DescendsAt, DescendsOrder, Zenon
    <3>2. head \in Branch
      BY <1>2, <1>4, <3>1, SplitChain DEF Branch, Descends
    <3> QED
      BY <1>5, <3>2, Zenon DEF BranchVerifies
  <2>4. RingOK(ring', head)
    BY <1>2, <1>3, <1>4, <2>1, SwitchKeepsRing
  <2>5. index \in [Txs -> MaybeBlock] /\ Chain[head] \in Seq(Blocks)
    BY <1>2, <1>3, <2>2, IndexType, ChainType, Zenon
  <2>6. IndexOK(index, head, Stale(disk.marker))
    <3>1. Above(head, Height(fork)) \ Branch \subseteq Own
      BY Zenon DEF Branch
    <3> QED
      BY <1>2, <1>3, <1>4, <2>2, <3>1, IndexExtends, Zenon
  <2> HIDE DEF index
  <2>7. /\ DiskOK(mid) /\ mid.tip = head /\ mid.marker = disk.marker /\ mid.receipts = index
        /\ mid.undo = disk.undo /\ mid.state = Chain[head]
    <3>1. Reconciled(mid, Chain[head], head, index)
      BY <1>3, Zenon DEF Reconciled
    <3>2. DiskOK(disk) /\ head \in Blocks
      BY <1>2, <1>3, Zenon
    <3> HIDE DEF mid
    <3>3. Moved(mid, Chain[head], head, index)
      BY ONLY <2>5, <3>1, <3>2, ReconcileIs, Zenon
    <3> QED
      BY <3>3, Zenon DEF Moved
  <2> HIDE DEF mid
  <2>8. DOMAIN undo \subseteq Nat /\ \A g, h \in DOMAIN undo : g < h + Depth
    <3>1. DOMAIN BranchUndo \subseteq Nat
      BY <2>2, ChainType, Zenon DEF BranchUndo
    <3>2. DOMAIN Put(disk.undo, BranchUndo) \subseteq Nat
      BY <1>3, <3>1 DEF Put, DiskOK
    <3> QED
      BY <1>2, <3>2, UndoBounded, ChainType, Zenon
  <2> HIDE DEF undo
  <2>9. disk' = [mid EXCEPT !.undo = undo]
    BY <2>1, <2>7 DEF undo
  <2>10. /\ DiskOK(disk') /\ disk'.tip = head /\ disk'.marker = disk.marker /\ disk'.receipts = index
         /\ disk'.state = Chain[head]
    BY <2>7, <2>8, <2>9 DEF DiskOK
  <2>11. FloorOK(tip)'
    <3>1. FloorOK(head)
      BY <1>2, <1>3, <1>4, FloorBelow, FloorStays, Zenon
    <3> QED
      BY <1>2, <2>1, <3>1, Zenon DEF FloorOK
  <2>12. floor' \in Nat /\ pending' \subseteq certs
    BY <1>3, <2>1, Zenon
  <2> QED
    BY <1>1, <1>2, <2>1, <2>3, <2>4, <2>6, <2>10, <2>11, <2>12, AfterKeeps, Zenon
<1>6. CASE ~(BranchVerifies /\ ok)
  <2> DEFINE index == WithReceipts(disk.receipts, kept)
  <2>1. Abort(TRUE)
    BY <1>6, Zenon DEF Reapply
  <2>2. /\ world' = Chain[tip] /\ UNCHANGED <<tip, ring>> /\ After("rejected", to)
        /\ disk' = Reconcile(world, Chain[tip], tip, index)
        /\ IF op.by = "rebuild" THEN RaiseFloor(to) ELSE UNCHANGED <<floor, pending>>
    BY <1>4, <2>1, Zenon DEF Abort
  <2>3. to \in Nat /\ floor <= to /\ (to > 0 => to <= Height(tip) /\ At(tip, to) \in certs)
    BY <1>3, EffectiveFloorIs, Zenon
  <2> HIDE DEF to
  <2>4. floor' \in Nat /\ pending' \subseteq certs /\ FloorOK(tip)'
    <3>1. CASE UNCHANGED <<floor, pending>>
      BY <1>2, <1>3, <2>2, <3>1, Zenon DEF FloorOK
    <3>2. CASE RaiseFloor(to)
      <4>1. floor' = to /\ pending' \subseteq pending
        BY <1>3, <2>3, <3>2, RaiseFloorIs, Zenon
      <4> QED
        BY <1>2, <1>3, <2>2, <2>3, <4>1, Zenon DEF FloorOK
    <3> QED
      BY <2>2, <3>1, <3>2, Zenon
  <2>5. kept \in SUBSET (Ancestry(tip) \ {Genesis}) /\ kept \in SUBSET Blocks
    BY <1>3, <1>4, AboveType, Zenon DEF Kept
  <2>6. index \in [Txs -> MaybeBlock] /\ Chain[tip] \in Seq(Blocks)
    BY <1>3, <2>5, IndexType, ChainType, Zenon
  <2>7. IndexOK(index, tip, Stale(disk.marker))
    BY <1>3, <1>4, <2>5, IndexExtends, Zenon DEF Kept
  <2> HIDE DEF index
  <2>8. /\ DiskOK(disk') /\ disk'.tip = tip /\ disk'.marker = disk.marker /\ disk'.receipts = index
        /\ disk'.state = Chain[tip]
    <3>1. Reconciled(disk', Chain[tip], tip, index)
      BY <1>3, <2>2, Zenon DEF Reconciled
    <3>2. DiskOK(disk) /\ tip \in Blocks
      BY <1>3, Zenon
    <3>3. Moved(disk', Chain[tip], tip, index)
      BY ONLY <2>6, <3>1, <3>2, ReconcileIs, Zenon
    <3> QED
      BY <3>3, Zenon DEF Moved
  <2> QED
    BY <1>1, <1>2, <1>3, <2>2, <2>4, <2>7, <2>8, AfterKeeps, Zenon
<1> QED
  BY <1>5, <1>6
=============================================================================
