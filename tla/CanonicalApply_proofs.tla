------------------------ MODULE CanonicalApply_proofs ------------------------
(***************************************************************************)
(* For every tree of blocks, window, cap and number of failed writes and   *)
(* crashes: what is on disk is always a block's own state with the         *)
(* receipts of its chain, memory agrees with it whenever the lock is free, *)
(* the floor stands on a certified block of the applied chain, and a       *)
(* certified block under the floor stays applied unless the node crashes   *)
(* in the replay of a rebuild.  First the rest of the proof that the       *)
(* invariant of CanonicalApply_lemmas is inductive: the rebuild and the    *)
(* restart.                                                                *)
(***************************************************************************)
EXTENDS CanonicalApply_lemmas

-----------------------------------------------------------------------------
\* The from-genesis rebuild.

(* interrupted_rebuild_cleanup leaves the durable chain alone and the      *)
(* index without stale receipts.                                           *)
LEMMA CleanedIs ==
  ASSUME DiskOK(disk), IndexInv
  PROVE  LET d == Cleaned(disk) IN
         /\ DiskOK(d) /\ d.tip = disk.tip /\ d.state = disk.state /\ d.marker = NoBlock
         /\ IndexOK(d.receipts, d.tip, {})
<1> DEFINE d == Cleaned(disk)
<1>1. /\ disk \in [tip : Blocks, state : Seq(Blocks), receipts : [Txs -> MaybeBlock],
                   undo : {disk.undo}, marker : MaybeBlock]
      /\ IndexOK(disk.receipts, disk.tip, Stale(disk.marker))
  BY DEF DiskOK, IndexInv
<1>2. CASE disk.marker = NoBlock
  <2>1. d = disk /\ Stale(disk.marker) = {}
    BY <1>2 DEF Cleaned, Stale
  <2> QED
    BY <1>1, <1>2, <2>1
<1>3. CASE disk.marker # NoBlock
  <2> DEFINE gone == Ancestry(disk.marker) \ Ancestry(disk.tip)
             index == WithoutReceipts(disk.receipts, gone)
  <2>1. d = [disk EXCEPT !.receipts = index, !.marker = NoBlock]
    BY <1>3 DEF Cleaned
  <2>2. disk.marker \in Blocks /\ Stale(disk.marker) = Ancestry(disk.marker)
    BY <1>1, <1>3 DEF Stale, MaybeBlock
  <2>3. gone \in SUBSET Blocks
    BY <2>2, SplitChain, DescendsOrder
  <2>4. index \in [Txs -> MaybeBlock]
    BY <1>1, <2>3, IndexType
  <2>5. IndexOK(index, disk.tip, {})
    BY <1>1, <2>2, IndexCleans
  <2> HIDE DEF index
  <2>6. /\ d.tip = disk.tip /\ d.state = disk.state /\ d.marker = NoBlock /\ d.receipts = index
        /\ DiskOK(d)
    BY <1>1, <2>1, <2>4, Zenon DEF DiskOK, MaybeBlock
  <2> QED
    BY <2>5, <2>6
<1> QED
  BY <1>2, <1>3

(* rebuild_target's fork point is on both chains.                          *)
LEMMA PlanForkIs ==
  ASSUME tip \in Blocks, NEW head \in Blocks
  PROVE  PlanFork(head) \in Blocks /\ Descends(tip, PlanFork(head)) /\ Descends(head, PlanFork(head))
<1> DEFINE S == {h \in 0 .. Height(head) : Descends(tip, At(head, h))}
<1>1. Height(head) \in Nat /\ At(head, 0) = Genesis
  BY ChainType DEF At
<1>2. S \in SUBSET (0 .. Height(head)) /\ 0 \in S
  BY <1>1, DescendsOrder
<1>3. Max(S) \in S
  <2> HIDE DEF S
  <2> QED
    BY <1>2, MaxIs
<1>4. PICK h \in 0 .. Height(head) : h = Max(S) /\ Descends(tip, At(head, h))
  BY <1>3
<1>5. PlanFork(head) = At(head, h)
  BY <1>4 DEF PlanFork
<1>6. At(head, h) \in Blocks /\ Descends(head, At(head, h))
  BY ChainType, DescendsOrder
<1> QED
  BY <1>4, <1>5, <1>6

(* recover_to_head_inner up to its first write.                            *)
LEMMA RecoverToHeadKeeps ==
  ASSUME IInv, NEW ok \in BOOLEAN, RecoverToHead(ok)
  PROVE  IInv'
<1> USE DEF boot, finality, applied
<1>1. TypeInv /\ LockInv /\ MemoryInv /\ IndexInv /\ FloorInv /\ RootInv
  BY DEF IInv
<1>2. /\ op = Free /\ op.pc = "free" /\ wanted \in Blocks
      /\ UNCHANGED <<stored, hydrated, startup, top, tip, world, ring, floor, pending, certs, check>>
  BY <1>1 DEF RecoverToHead, Free, TypeInv
<1>3. /\ DiskOK(disk') /\ disk'.tip = disk.tip /\ disk'.state = disk.state
      /\ IndexOK(disk'.receipts, disk'.tip, Stale(disk'.marker))
      /\ ok => disk'.marker = NoBlock
  <2>1. CASE ok
    <3>1. disk' = Cleaned(disk)
      BY <2>1 DEF RecoverToHead
    <3>2. Stale(NoBlock) = {}
      BY DEF Stale
    <3> QED
      BY <1>1, <3>1, <3>2, CleanedIs DEF TypeInv
  <2>2. CASE ~ok
    BY <1>1, <2>2 DEF RecoverToHead, TypeInv, IndexInv
  <2> QED
    BY <2>1, <2>2
<1>4. /\ op' \in [pc : PCs, by : Callers, head : MaybeBlock, fork : MaybeBlock,
                  saved : {op'.saved}, residual : SUBSET Blocks]
      /\ wanted' \in MaybeBlock /\ rebuilding' \in BOOLEAN /\ (rebuilding' => wanted' \in Blocks)
      /\ \/ op' = Free
         \/ /\ op'.pc \in {"reorg", "guard"} /\ op'.by = "rebuild" /\ ok
            /\ op'.head \in Blocks /\ op'.fork # op'.head
            /\ Descends(tip, op'.fork) /\ Descends(op'.head, op'.fork)
  <2> DEFINE fork == PlanFork(wanted)
             pc == IF Height(fork) \in DOMAIN ring THEN "reorg" ELSE "guard"
  <2>1. CASE op' = op /\ EndRebuild
    BY <1>2, <2>1, Zenon DEF EndRebuild, Free, PCs, Callers, MaybeBlock
  <2>2. CASE ~(op' = op /\ EndRebuild)
    <3>1. /\ op' = [Free EXCEPT !.pc = pc, !.by = "rebuild", !.head = wanted, !.fork = fork] /\ ok
          /\ fork # wanted /\ UNCHANGED <<wanted, rebuilding>>
      BY <2>2, Zenon DEF RecoverToHead, RebuildAllowed
    <3>2. fork \in Blocks /\ Descends(tip, fork) /\ Descends(wanted, fork)
      BY <1>1, <1>2, PlanForkIs, Zenon DEF TypeInv
    <3>3. pc \in {"reorg", "guard"}
      OBVIOUS
    <3> HIDE DEF fork, pc
    <3> QED
      BY <1>1, <1>2, <3>1, <3>2, <3>3, Zenon DEF TypeInv, Free, PCs, Callers, MaybeBlock
  <2> QED
    BY <2>1, <2>2
<1>5. op'.pc \in {"free", "reorg", "guard"} /\ (op'.pc = "free" => op' = Free)
  BY <1>4 DEF Free
<1>6. TypeInv'
  BY <1>1, <1>2, <1>3, <1>4, Zenon DEF TypeInv
<1>7. LockInv'
  <2>1. CASE op' = Free
    BY <2>1 DEF LockInv, Free
  <2>2. CASE op' # Free
    BY <1>2, <1>3, <1>4, <2>2, Zenon DEF LockInv
  <2> QED
    BY <2>1, <2>2
<1>8. MemoryInv' /\ IndexInv' /\ RootInv'
  BY <1>1, <1>2, <1>3, <1>5 DEF MemoryInv, IndexInv, RootInv
<1>9. FloorInv' /\ SwitchInv' /\ RebuildInv'
  BY <1>1, <1>2, <1>5, Zenon DEF FloorInv, FloorOK, SwitchInv, RebuildInv
<1> QED
  BY <1>6, <1>7, <1>8, <1>9 DEF IInv

(* A step that ends a rebuild with memory, disk and index at a verified    *)
(* tip keeps the invariant.                                                *)
LEMMA EndsKeeps ==
  ASSUME TypeInv, FloorInv, op' = Free, EndRebuild,
         UNCHANGED <<stored, hydrated, startup, top, certs, check>>,
         floor' \in Nat, pending' \subseteq certs, FloorOK(tip)',
         tip' \in Blocks, tip' \notin WrongRoot, world' = Chain[tip'], RingOK(ring', tip'),
         DiskOK(disk'), disk'.tip = tip', disk'.state = Chain[tip'],
         IndexOK(disk'.receipts, tip', Stale(disk'.marker))
  PROVE  IInv'
<1>1. op'.pc = "free" /\ op'.by = "none"
  BY DEF Free
<1>2. TypeInv'
  BY Zenon DEF TypeInv, EndRebuild, Free, PCs, Callers, MaybeBlock
<1>3. LockInv' /\ MemoryInv' /\ IndexInv' /\ RootInv'
  BY <1>1, Zenon DEF LockInv, MemoryInv, IndexInv, RootInv
<1>4. FloorInv' /\ SwitchInv' /\ RebuildInv'
  BY <1>1 DEF FloorInv, SwitchInv, RebuildInv
<1> QED
  BY <1>2, <1>3, <1>4, Zenon DEF IInv

(* The reset of a rebuild: refused below the floor, else memory and disk   *)
(* go to Genesis and what was there is saved.                              *)
LEMMA ResetKeeps ==
  ASSUME IInv, NEW ok \in BOOLEAN, ResetToGenesis(ok)
  PROVE  IInv'
<1> USE DEF boot, applied
<1> DEFINE head == op.head
           fork == op.fork
           to == EffectiveFloor(TRUE)
           lost == Above(tip, Height(fork))
           branch == Above(head, Height(fork))
<1>1. TypeInv /\ LockInv /\ MemoryInv /\ IndexInv /\ FloorInv /\ RootInv
  BY DEF IInv
<1>2. /\ op.pc = "guard" /\ op.by = "rebuild" /\ head \in Blocks
      /\ UNCHANGED <<stored, hydrated, startup, top, certs, check>>
      /\ disk.marker = NoBlock /\ Descends(tip, fork) /\ Descends(head, fork) /\ fork # head
  BY <1>1 DEF ResetToGenesis, LockInv
<1>3. /\ tip \in Blocks /\ tip \notin WrongRoot /\ FloorOK(tip) /\ floor \in Nat
      /\ disk.tip = tip /\ disk.state = Chain[tip] /\ world = Chain[tip] /\ RingOK(ring, tip)
      /\ DiskOK(disk) /\ disk.receipts \in [Txs -> MaybeBlock]
      /\ IndexOK(disk.receipts, tip, {}) /\ IndexOK(disk.receipts, tip, Stale(disk.marker))
      /\ pending \subseteq certs /\ certs \subseteq Blocks
  BY <1>1, <1>2, ApplyAssumption DEF TypeInv, MemoryInv, IndexInv, FloorInv, RootInv, DiskOK, Stale
<1>4. fork \in Blocks
  BY <1>2, <1>3, DescendsAt
<1>5. to \in Nat /\ floor <= to /\ (to > 0 => to <= Height(tip) /\ At(tip, to) \in certs)
  BY <1>3, EffectiveFloorIs, Zenon
<1> HIDE DEF to
<1>6. RaiseFloor(to)
  BY Zenon DEF ResetToGenesis, to
<1>7. floor' = to /\ floor' \in Nat /\ pending' \subseteq certs
  BY <1>3, <1>5, <1>6, RaiseFloorIs, Zenon
<1>8. CASE op' = Free /\ EndRebuild /\ UNCHANGED <<tip, world, ring, disk>>
  <2>1. FloorOK(tip)'
    BY <1>2, <1>5, <1>7, <1>8, Zenon DEF FloorOK
  <2> QED
    BY <1>1, <1>2, <1>3, <1>7, <1>8, <2>1, EndsKeeps, Zenon
<1>9. CASE ~(op' = Free /\ EndRebuild /\ UNCHANGED <<tip, world, ring, disk>>)
  <2> DEFINE index == WithoutReceipts(disk.receipts, FirstChunk(lost))
             kept == Indexed(disk.receipts, lost)
             had == Indexed(disk.receipts, branch)
             mid == Reconcile(world, <<>>, Genesis, index)
             rest == lost \ FirstChunk(lost)
  <2>1. /\ ~(to > 0 /\ to <= Height(tip) /\ ~Descends(head, At(tip, to)))
        /\ world' = <<>> /\ tip' = Genesis
        /\ disk' = [mid EXCEPT !.marker = tip]
        /\ ring' = Entry(0, [hash |-> Genesis, state |-> <<>>])
        /\ op' = [op EXCEPT !.pc = "replay", !.residual = rest,
                            !.saved = [tip |-> tip, world |-> world, ring |-> ring,
                                       kept |-> kept, had |-> had]]
        /\ UNCHANGED <<wanted, rebuilding>>
    BY <1>9, Zenon DEF ResetToGenesis, Unlock, to
  <2>2. /\ lost \in SUBSET (Ancestry(tip) \ {Genesis}) /\ lost \in SUBSET Blocks
        /\ FirstChunk(lost) \in SUBSET lost
    BY <1>2, <1>3, <1>4, AboveType, Zenon DEF FirstChunk
  <2>3. index \in [Txs -> MaybeBlock] /\ <<>> \in Seq(Blocks) /\ Genesis \in Blocks
    <3>1. FirstChunk(lost) \in SUBSET Blocks
      BY <2>2
    <3>2. WithoutReceipts(disk.receipts, FirstChunk(lost)) \in [Txs -> MaybeBlock]
      BY <1>3, <3>1, IndexType, Zenon
    <3>3. <<>> \in Seq(Blocks) /\ Genesis \in Blocks
      BY TreeAssumption
    <3> QED
      BY <3>2, <3>3, Zenon
  <2>4. Kept(kept, lost)
    BY <1>2, <1>3, <1>4, IndexReverts, Zenon
  <2>5. had \subseteq Ancestry(tip)
    <3> SUFFICES ASSUME NEW b \in had PROVE b \in Ancestry(tip)
      OBVIOUS
    <3>1. b \in branch /\ disk.receipts[Tx[b]] = b
      BY DEF Indexed
    <3>2. b \in Blocks \ {Genesis}
      BY <1>2, <1>4, <3>1, AboveType, Zenon
    <3>3. Tx[b] \in Txs /\ b # NoBlock
      BY <3>2, TxInTxs, TreeAssumption, Zenon
    <3> QED
      BY <1>3, <3>1, <3>3 DEF IndexOK
  <2>6. IndexOK(index, Genesis, Ancestry(fork) \cup rest)
    <3>1. Ancestry(Genesis) = {Genesis}
      <4>1. 0 .. Height(Genesis) = {0} /\ At(Genesis, 0) = Genesis
        BY GenesisHeight DEF At
      <4> QED
        BY <4>1 DEF Ancestry
    <3>2. Ancestry(tip) = Ancestry(fork) \cup lost
      BY <1>2, <1>3, <1>4, SplitChain, Zenon
    <3>3. ASSUME NEW x \in Txs, index[x] # NoBlock
          PROVE  /\ index[x] \in (Ancestry(Genesis) \cup (Ancestry(fork) \cup rest)) \ {Genesis}
                 /\ index[x] \in Blocks /\ Tx[index[x]] = x
      <4>1. index[x] = disk.receipts[x] /\ index[x] \notin FirstChunk(lost)
        BY <3>3, Zenon DEF WithoutReceipts
      <4>2. index[x] \in Ancestry(tip) \ {Genesis} /\ index[x] \in Blocks /\ Tx[index[x]] = x
        BY <1>3, <3>3, <4>1 DEF IndexOK
      <4> QED
        BY <3>2, <4>1, <4>2
    <3> QED
      BY <3>1, <3>3 DEF IndexOK
  <2>7. \A b \in Ancestry(fork) \ {Genesis} : index[Tx[b]] = b \/ b \in Own
    <3> SUFFICES ASSUME NEW b \in Ancestry(fork) \ {Genesis}, b \notin Own PROVE index[Tx[b]] = b
      OBVIOUS
    <3>1. b \in Ancestry(tip) \ {Genesis} /\ b \notin lost /\ b \in Blocks
      BY <1>2, <1>3, <1>4, SplitChain
    <3>2. disk.receipts[Tx[b]] = b /\ Tx[b] \in Txs
      BY <1>3, <3>1, TxInTxs DEF IndexOK
    <3>3. b \notin FirstChunk(lost)
      BY <2>2, <3>1
    <3> QED
      BY <3>2, <3>3 DEF WithoutReceipts
  <2>8. rest \in SUBSET lost /\ rest \in SUBSET Blocks
    BY <2>2
  <2> HIDE DEF index, kept, had, rest
  <2>9. /\ DiskOK(mid) /\ mid.tip = Genesis /\ mid.receipts = index /\ mid.state = <<>>
        /\ mid.undo = disk.undo
    <3>1. PICK s \in Seq(Blocks) : s = <<>>
      BY <2>3, Zenon
    <3>2. Reconciled(mid, s, Genesis, index)
      BY <1>3, <3>1, Zenon DEF Reconciled
    <3>3. DiskOK(disk) /\ Genesis \in Blocks /\ index \in [Txs -> MaybeBlock]
      BY <1>3, <2>3, Zenon
    <3> HIDE DEF mid
    <3>4. Moved(mid, s, Genesis, index)
      BY ONLY <3>2, <3>3, ReconcileIs, Zenon
    <3> QED
      BY <3>1, <3>4, Zenon DEF Moved
  <2> HIDE DEF mid
  <2>10. /\ DiskOK(disk') /\ disk'.tip = Genesis /\ disk'.receipts = index /\ disk'.state = <<>>
         /\ disk'.marker = tip
    BY <1>3, <2>1, <2>9, Zenon DEF DiskOK, MaybeBlock
  <2>11. /\ op'.pc = "replay" /\ op'.head = head /\ op'.fork = fork /\ op'.residual = rest
         /\ op'.saved.tip = tip /\ op'.saved.world = Chain[tip] /\ op'.saved.ring = ring
         /\ op'.saved.kept = kept /\ op'.saved.had = had
    BY <1>1, <1>3, <2>1 DEF TypeInv
  <2>12. Chain[Genesis] = <<>> /\ Height(Genesis) = 0 /\ At(Genesis, 0) = Genesis
    BY ChainAssumption, GenesisHeight DEF At
  <2>13. TypeInv'
    <3>1. op' \in [pc : PCs, by : Callers, head : MaybeBlock, fork : MaybeBlock,
                   saved : {op'.saved}, residual : SUBSET Blocks]
      BY <1>1, <2>1, <2>8, Zenon DEF TypeInv, PCs, MaybeBlock
    <3> QED
      BY <1>1, <1>2, <1>7, <2>1, <2>3, <2>10, <3>1, Zenon DEF TypeInv
  <2>14. LockInv' /\ RootInv' /\ SwitchInv'
    BY <1>2, <2>11 DEF LockInv, RootInv, SwitchInv
  <2>15. MemoryInv'
    <3>1. RingOK(ring', tip')
      BY <2>1, <2>12, ApplyAssumption DEF RingOK, Entry
    <3> QED
      BY <2>1, <2>10, <2>11, <2>12, <3>1, Zenon DEF MemoryInv
  <2>16. IndexInv'
    <3>1. (Ancestry(fork) \cup rest) \ Ancestry(Genesis) \subseteq Stale(tip)
      <4>1. Stale(tip) = Ancestry(tip)
        BY <1>3, TreeAssumption DEF Stale
      <4>2. Ancestry(tip) = Ancestry(fork) \cup lost
        BY <1>2, <1>3, <1>4, SplitChain, Zenon
      <4> QED
        BY <2>8, <4>1, <4>2, Zenon
    <3>2. IndexOK(index, Genesis, Stale(tip))
      BY <2>6, <3>1, IndexMonotone, Zenon
    <3> QED
      BY <2>10, <3>2, Zenon DEF IndexInv
  <2>17. FloorInv'
    BY <1>1, <1>2, <2>11, Zenon DEF FloorInv
  <2>18. to > 0 => /\ to <= Height(tip) /\ At(tip, to) \in certs
                   /\ to <= Height(head) /\ At(head, to) \in certs
    <3> SUFFICES ASSUME to > 0
                 PROVE  /\ to <= Height(tip) /\ At(tip, to) \in certs
                        /\ to <= Height(head) /\ At(head, to) \in certs
      OBVIOUS
    <3>0. Height(tip) \in Nat
      BY <1>3, ChainType, Zenon
    <3>1. to \in 0 .. Height(tip) /\ At(tip, to) \in certs /\ Descends(head, At(tip, to))
      BY <1>5, <2>1, <3>0
    <3>2. Height(At(tip, to)) = to /\ At(tip, to) \in Blocks
      BY <1>3, <3>1, PrefixChain, Zenon
    <3>3. to <= Height(head) /\ At(head, to) = At(tip, to)
      BY <1>2, <3>1, <3>2, DescendsAt, Zenon
    <3> QED
      BY <3>0, <3>1, <3>3
  <2>19. (FloorOK(op.saved.tip) /\ FloorOK(op.head))'
    BY <1>2, <1>7, <2>11, <2>18, Zenon DEF FloorOK
  <2>20. RebuildInv'
    <3>1. Descends(head, Genesis)
      BY <1>2, DescendsOrder
    <3>2. head # Genesis
      <4>1. Ancestry(Genesis) = {Genesis}
        <5>1. 0 .. Height(Genesis) = {0}
          BY <2>12
        <5> QED
          BY <2>12, <5>1 DEF Ancestry
      <4> QED
        BY <1>2, <4>1 DEF Descends
    <3> QED
      BY <1>2, <1>3, <1>4, <2>1, <2>4, <2>5, <2>6, <2>7, <2>8, <2>10, <2>11, <2>19, <3>1, <3>2, Zenon
      DEF RebuildInv
  <2> QED
    BY <2>13, <2>14, <2>15, <2>16, <2>17, <2>20, Zenon DEF IInv
<1> QED
  BY <1>8, <1>9

(* A rebuild that does not converge puts back what the reset saved.        *)
LEMMA RollBackKeeps ==
  ASSUME IInv, op.pc = "replay", RollBack(TRUE),
         UNCHANGED <<stored, hydrated, startup, top, floor, pending, certs, check>>
  PROVE  IInv'
<1> DEFINE old == op.saved.tip
           head == op.head
           fork == op.fork
           kept == op.saved.kept
           undone == Above(head, Height(fork)) \ op.saved.had
           without == WithoutReceipts(disk.receipts, undone)
           index == WithReceipts(without, kept)
           lost == Above(old, Height(fork))
           mid == Reconcile(world, Chain[old], old, index)
<1>1. TypeInv /\ LockInv /\ MemoryInv /\ IndexInv /\ FloorInv /\ RootInv /\ RebuildInv
  BY DEF IInv
<1>2. /\ old \in Blocks /\ fork \in Blocks /\ head \in Blocks /\ tip \in Blocks
      /\ Descends(old, fork) /\ Descends(head, fork) /\ Descends(head, tip)
      /\ op.saved.world = Chain[old] /\ RingOK(op.saved.ring, old) /\ old \notin WrongRoot
      /\ FloorOK(old) /\ Kept(kept, lost) /\ op.saved.had \subseteq Ancestry(old)
      /\ op.residual \subseteq lost
      /\ IndexOK(disk.receipts, tip, Ancestry(fork) \cup op.residual)
      /\ \A b \in Ancestry(fork) \ {Genesis} : disk.receipts[Tx[b]] = b \/ b \in Own
  BY <1>1 DEF RebuildInv, LockInv, TypeInv
<1>3. /\ tip' = old /\ world' = Chain[old] /\ ring' = op.saved.ring
      /\ disk' = [mid EXCEPT !.marker = NoBlock] /\ op' = Free /\ EndRebuild
  BY <1>2 DEF RollBack, Unlock
<1>4. /\ disk.state = world /\ DiskOK(disk) /\ disk.receipts \in [Txs -> MaybeBlock]
      /\ floor \in Nat /\ pending \subseteq certs
  BY <1>1, Zenon DEF MemoryInv, TypeInv, DiskOK
<1>5. /\ Ancestry(old) = Ancestry(fork) \cup lost /\ Ancestry(fork) \cap lost = {}
      /\ Ancestry(old) \subseteq Blocks
  BY <1>2, SplitChain, Zenon
<1>6. /\ Ancestry(head) = Ancestry(fork) \cup Above(head, Height(fork))
      /\ Ancestry(fork) \cap Above(head, Height(fork)) = {}
      /\ Ancestry(head) \subseteq Blocks
  BY <1>2, SplitChain, Zenon
<1>7. Ancestry(tip) \subseteq Ancestry(head)
  BY <1>2, SplitChain
<1>8. \A x \in Txs : without[x] = IF disk.receipts[x] \in undone THEN NoBlock ELSE disk.receipts[x]
  BY DEF WithoutReceipts
<1>9. IndexOK(without, fork, lost \cup op.saved.had)
  <2>1. ASSUME NEW x \in Txs, without[x] # NoBlock
        PROVE  /\ without[x] \in (Ancestry(fork) \cup (lost \cup op.saved.had)) \ {Genesis}
               /\ without[x] \in Blocks /\ Tx[without[x]] = x
    <3>1. without[x] = disk.receipts[x] /\ without[x] \notin undone
      BY <1>8, <2>1, Zenon
    <3>2. /\ without[x] \in (Ancestry(tip) \cup (Ancestry(fork) \cup op.residual)) \ {Genesis}
          /\ without[x] \in Blocks /\ Tx[without[x]] = x
      BY <1>2, <2>1, <3>1, Zenon DEF IndexOK
    <3> QED
      BY <1>2, <1>6, <1>7, <3>1, <3>2, Zenon
  <2>2. ASSUME NEW b \in Ancestry(fork) \ {Genesis}, b \notin Own PROVE without[Tx[b]] = b
    <3>1. disk.receipts[Tx[b]] = b /\ b \notin undone
      BY <1>2, <1>6, <2>2, Zenon
    <3>2. Tx[b] \in Txs
      BY <1>5, TxInTxs
    <3> QED
      BY <1>8, <3>1, <3>2, Zenon
  <2> QED
    BY <2>1, <2>2, Zenon DEF IndexOK
<1>10. without \in [Txs -> MaybeBlock]
  BY <1>4, <1>6, IndexType, undone \in SUBSET Blocks, Zenon
<1>11. kept \in SUBSET (Ancestry(old) \ {Genesis}) /\ kept \in SUBSET Blocks /\ lost \ kept \subseteq Own
  BY <1>2, AboveType DEF Kept
<1> HIDE DEF without
<1>12. index \in [Txs -> MaybeBlock] /\ Chain[old] \in Seq(Blocks)
  BY <1>2, <1>10, <1>11, IndexType, ChainType, Zenon
<1>13. IndexOK(index, old, {})
  <2>1. IndexOK(index, old, lost \cup op.saved.had)
    BY <1>2, <1>9, <1>10, <1>11, IndexExtends, Zenon
  <2>2. (lost \cup op.saved.had) \ Ancestry(old) \subseteq {}
    BY <1>2, <1>5, Zenon
  <2> QED
    BY ONLY <2>1, <2>2, IndexMonotone
<1> HIDE DEF index
<1>14. /\ DiskOK(mid) /\ mid.tip = old /\ mid.receipts = index /\ mid.state = Chain[old]
       /\ mid.undo = disk.undo
  <2>1. Reconciled(mid, Chain[old], old, index)
    BY <1>2, <1>4, Zenon DEF Reconciled
  <2>2. DiskOK(disk) /\ old \in Blocks
    BY <1>2, <1>4, Zenon
  <2> HIDE DEF mid
  <2>3. Moved(mid, Chain[old], old, index)
    BY ONLY <1>12, <2>1, <2>2, ReconcileIs, Zenon
  <2> QED
    BY <2>3, Zenon DEF Moved
<1> HIDE DEF mid
<1>15. /\ DiskOK(disk') /\ disk'.tip = old /\ disk'.receipts = index /\ disk'.state = Chain[old]
       /\ Stale(disk'.marker) = {}
  BY <1>3, <1>14 DEF DiskOK, MaybeBlock, Stale
<1>16. FloorOK(tip)' /\ floor' \in Nat /\ pending' \subseteq certs
  BY <1>2, <1>3, <1>4, Zenon DEF FloorOK
<1> QED
  BY <1>1, <1>2, <1>3, <1>13, <1>15, <1>16, EndsKeeps, Zenon

(* Each batch of the receipt removal, with the tip at Genesis.             *)
LEMMA RemoveResidualKeeps ==
  ASSUME IInv, NEW ok, RemoveResidual(ok, TRUE)
  PROVE  IInv'
<1> USE DEF boot, finality, applied
<1>1. TypeInv /\ LockInv /\ MemoryInv /\ IndexInv /\ FloorInv /\ RootInv /\ RebuildInv
  BY DEF IInv
<1>2. /\ op.pc = "replay" /\ op.residual # {} /\ tip = Genesis
      /\ UNCHANGED <<stored, hydrated, startup, top, floor, pending, certs, check>>
  BY <1>1 DEF RemoveResidual, RebuildInv
<1>3. CASE ~ok
  BY <1>2, <1>3, RollBackKeeps, Zenon DEF RemoveResidual
<1>4. CASE ok
  <2> DEFINE first == FirstChunk(op.residual)
             index == WithoutReceipts(disk.receipts, first)
             rest == op.residual \ first
  <2>1. /\ disk' = [disk EXCEPT !.receipts = index] /\ op' = [op EXCEPT !.residual = rest]
        /\ UNCHANGED <<tip, world, ring, wanted, rebuilding>>
    BY <1>4, Zenon DEF RemoveResidual
  <2>2. /\ DiskOK(disk) /\ disk.receipts \in [Txs -> MaybeBlock] /\ disk.tip = tip
        /\ first \in SUBSET Blocks /\ first \in SUBSET op.residual /\ rest \in SUBSET Blocks
        /\ rest \in SUBSET op.residual
    BY <1>1, <1>2 DEF TypeInv, DiskOK, MemoryInv, FirstChunk
  <2>3. index \in [Txs -> MaybeBlock]
    BY <2>2, IndexType
  <2>4. \A x \in Txs : index[x] = IF disk.receipts[x] \in first THEN NoBlock ELSE disk.receipts[x]
    BY Zenon DEF WithoutReceipts
  <2>5. /\ op.saved.tip \in Blocks /\ op.fork \in Blocks /\ Descends(op.saved.tip, op.fork)
        /\ op.residual \subseteq Above(op.saved.tip, Height(op.fork))
        /\ IndexOK(disk.receipts, tip, Ancestry(op.fork) \cup op.residual)
        /\ \A b \in Ancestry(op.fork) \ {Genesis} : disk.receipts[Tx[b]] = b \/ b \in Own
        /\ disk.marker = op.saved.tip
    BY <1>1, <1>2 DEF RebuildInv
  <2>6. Ancestry(tip) = {Genesis}
    <3>1. 0 .. Height(Genesis) = {0} /\ At(Genesis, 0) = Genesis
      BY GenesisHeight DEF At
    <3> QED
      BY <1>2, <3>1 DEF Ancestry
  <2> HIDE DEF index, first
  <2>7. IndexOK(index, tip, Ancestry(op.fork) \cup rest)
    BY <2>4, <2>5, <2>6, Zenon DEF IndexOK
  <2>8. \A b \in Ancestry(op.fork) \ {Genesis} : index[Tx[b]] = b \/ b \in Own
    <3> SUFFICES ASSUME NEW b \in Ancestry(op.fork) \ {Genesis}, b \notin Own PROVE index[Tx[b]] = b
      OBVIOUS
    <3>1. disk.receipts[Tx[b]] = b /\ b \notin first /\ b \in Blocks
      <4>1. /\ Ancestry(op.fork) \cap Above(op.saved.tip, Height(op.fork)) = {}
            /\ Ancestry(op.fork) \subseteq Blocks
        BY <2>5, SplitChain, DescendsOrder, Zenon
      <4> QED
        BY <2>2, <2>5, <4>1, Zenon
    <3> QED
      BY <2>4, <3>1, TxInTxs, Zenon
  <2>9. IndexOK(index, tip, Stale(disk.marker))
    <3>1. Stale(disk.marker) = Ancestry(op.saved.tip)
      BY <2>5, TreeAssumption, Zenon DEF Stale
    <3>2. (Ancestry(op.fork) \cup rest) \ Ancestry(tip) \subseteq Stale(disk.marker)
      BY <2>2, <2>5, <3>1, SplitChain
    <3> QED
      BY <2>7, <3>2, IndexMonotone, Zenon
  <2> HIDE DEF rest
  <2>10. /\ disk'.receipts = index /\ disk'.tip = tip /\ disk'.state = disk.state
         /\ disk'.marker = disk.marker /\ DiskOK(disk')
    BY <2>1, <2>2, <2>3 DEF DiskOK
  <2>11. /\ op'.pc = "replay" /\ op'.residual = rest /\ op'.head = op.head /\ op'.fork = op.fork
         /\ op'.saved = op.saved
    BY <1>1, <1>2, <2>1 DEF TypeInv
  <2>12. TypeInv'
    BY <1>1, <1>2, <2>1, <2>2, <2>10, Zenon DEF TypeInv
  <2>13. LockInv' /\ RootInv' /\ SwitchInv'
    BY <1>1, <1>2, <2>11 DEF LockInv, RootInv, SwitchInv
  <2>14. MemoryInv' /\ IndexInv'
    BY <1>1, <1>2, <2>1, <2>2, <2>9, <2>10, <2>11, Zenon DEF MemoryInv, IndexInv
  <2>15. FloorInv'
    BY <1>1, <1>2, <2>11, Zenon DEF FloorInv
  <2>16. RebuildInv'
    BY <1>1, <1>2, <2>1, <2>2, <2>7, <2>8, <2>10, <2>11 DEF RebuildInv, FloorOK
  <2> QED
    BY <2>12, <2>13, <2>14, <2>15, <2>16, Zenon DEF IInv
<1> QED
  BY <1>3, <1>4

(* One block of the replay.                                                *)
LEMMA ReplayKeeps ==
  ASSUME IInv, NEW ok, Replay(ok, TRUE)
  PROVE  IInv'
<1> USE DEF boot, finality, applied
<1> DEFINE head == op.head
           b == At(head, Height(tip) + 1)
<1>1. TypeInv /\ LockInv /\ MemoryInv /\ IndexInv /\ FloorInv /\ RootInv /\ RebuildInv
  BY DEF IInv
<1>2. /\ op.pc = "replay" /\ op.residual = {} /\ tip # head
      /\ UNCHANGED <<stored, hydrated, startup, top, floor, pending, certs, check>>
  BY DEF Replay
<1>3. CASE ~(ok /\ b \notin Unexecutable)
  BY <1>2, <1>3, RollBackKeeps, Zenon DEF Replay
<1>4. CASE ok /\ b \notin Unexecutable
  <2>1. /\ world' = Append(world, b) /\ disk' = WriteBlock(b, {b}) /\ tip' = b
        /\ ring' = Record(b, world') /\ UNCHANGED <<op, wanted, rebuilding>>
    BY <1>4, Zenon DEF Replay
  <2>2. /\ tip \in Blocks /\ head \in Blocks /\ Descends(head, tip) /\ Descends(head, op.fork)
        /\ op.fork \in Blocks /\ op.saved.tip \in Blocks /\ Descends(op.saved.tip, op.fork)
        /\ IndexOK(disk.receipts, tip, Ancestry(op.fork))
        /\ \A c \in Ancestry(op.fork) \ {Genesis} : disk.receipts[Tx[c]] = c \/ c \in Own
        /\ disk.marker = op.saved.tip
    BY <1>1, <1>2 DEF RebuildInv, LockInv, TypeInv
  <2>3. Height(tip) \in 0 .. Height(head) /\ Height(tip) < Height(head) /\ At(head, Height(tip)) = tip
    <3>1. Height(tip) <= Height(head) /\ At(head, Height(tip)) = tip
      BY <2>2, DescendsAt, Zenon
    <3>2. Height(tip) # Height(head)
      BY <1>2, <2>2, <3>1, OwnHeight, Zenon
    <3>3. Height(tip) \in Nat /\ Height(head) \in Nat
      BY <2>2, ChainType, Zenon
    <3> QED
      BY <3>1, <3>2, <3>3
  <2>4. b \in Blocks \ {Genesis} /\ Parent[b] = tip
    BY <2>2, <2>3, StepUp, Zenon
  <2>5. Descends(head, b)
    <3>1. Height(tip) \in Nat /\ Height(head) \in Nat
      BY <2>2, ChainType
    <3>2. Height(tip) + 1 \in 0 .. Height(head)
      BY <2>3, <3>1
    <3> QED
      BY <2>2, <3>2, DescendsOrder, Zenon
  <2> HIDE DEF b
  <2>6. /\ world' = Chain[b] /\ RingOK(ring', b)
        /\ DiskOK(disk') /\ disk'.tip = b /\ disk'.state = Chain[b] /\ disk'.marker = disk.marker
        /\ disk'.receipts = WithReceipts(disk.receipts, {b})
        /\ IndexOK(disk'.receipts, b, Ancestry(op.fork))
    BY <1>1, <1>2, <2>1, <2>2, <2>4, AdvanceIs, Zenon
  <2>7. \A c \in Ancestry(op.fork) \ {Genesis} : disk'.receipts[Tx[c]] = c \/ c \in Own
    <3> SUFFICES ASSUME NEW c \in Ancestry(op.fork) \ {Genesis}, c \notin Own
                 PROVE  disk'.receipts[Tx[c]] = c
      OBVIOUS
    <3>1. c \in Ancestry(head) \ {Genesis} /\ c \in Blocks /\ b \in Ancestry(head)
      BY <2>2, <2>5, SplitChain, Zenon DEF Descends
    <3>2. Tx[c] \in Txs /\ disk.receipts[Tx[c]] = c
      BY <2>2, <3>1, TxInTxs
    <3>3. Tx[b] = Tx[c] => b = c
      BY <2>2, <2>4, <3>1, TxAssumption, Zenon
    <3>4. CASE Tx[b] = Tx[c]
      BY <2>6, <3>2, <3>3, <3>4, Zenon DEF WithReceipts
    <3>5. CASE Tx[b] # Tx[c]
      <4>1. ~\E x \in {b} : Tx[x] = Tx[c]
        BY <3>5, Zenon
      <4> QED
        BY <2>6, <3>2, <4>1 DEF WithReceipts
    <3> QED
      BY <3>4, <3>5, Zenon
  <2>8. IndexOK(disk'.receipts, b, Stale(disk.marker))
    <3>1. Stale(disk.marker) = Ancestry(op.saved.tip)
      BY <2>2, TreeAssumption, Zenon DEF Stale
    <3>2. Ancestry(op.fork) \ Ancestry(b) \subseteq Stale(disk.marker)
      BY <2>2, <3>1, SplitChain
    <3> QED
      BY <2>6, <3>2, IndexMonotone
  <2>9. TypeInv'
    BY <1>1, <1>2, <2>1, <2>4, <2>6, Zenon DEF TypeInv
  <2>10. LockInv' /\ RootInv' /\ SwitchInv'
    BY <1>1, <1>2, <2>1, Zenon DEF LockInv, RootInv, SwitchInv
  <2>11. MemoryInv' /\ IndexInv'
    BY <1>2, <2>1, <2>6, <2>8, Zenon DEF MemoryInv, IndexInv
  <2>12. FloorInv'
    BY <1>1, <1>2, <2>1, Zenon DEF FloorInv
  <2>13. RebuildInv'
    <3>1. Ancestry(op.fork) \cup {} = Ancestry(op.fork)
      BY Zenon
    <3>2. IndexOK(disk'.receipts, b, Ancestry(op.fork) \cup op.residual)
      BY <1>2, <2>6, <3>1, Zenon
    <3> QED
      BY <1>1, <1>2, <2>1, <2>5, <2>6, <2>7, <3>2, Zenon DEF RebuildInv, FloorOK
  <2> QED
    BY <2>9, <2>10, <2>11, <2>12, <2>13 DEF IInv
<1> QED
  BY <1>3, <1>4

(* The end of the replay.                                                  *)
LEMMA ConvergeKeeps ==
  ASSUME IInv, NEW ok \in BOOLEAN, Converge(ok, TRUE)
  PROVE  IInv'
<1> USE DEF boot, finality, applied
<1>1. TypeInv /\ LockInv /\ MemoryInv /\ IndexInv /\ FloorInv /\ RootInv /\ RebuildInv
  BY DEF IInv
<1>2. /\ op.pc = "replay" /\ tip = op.head
      /\ UNCHANGED <<stored, hydrated, startup, top, floor, pending, certs, check>>
  BY DEF Converge
<1>3. CASE ~(world = Chain[tip] /\ tip \notin WrongRoot)
  BY <1>2, <1>3, RollBackKeeps, Zenon DEF Converge
<1>4. CASE world = Chain[tip] /\ tip \notin WrongRoot
  <2>1. /\ disk' = IF ok THEN [disk EXCEPT !.marker = NoBlock] ELSE disk
        /\ op' = Free /\ EndRebuild /\ UNCHANGED <<tip, world, ring>>
    BY <1>4 DEF Converge, Unlock
  <2>2. /\ tip \in Blocks /\ op.fork \in Blocks /\ Descends(tip, op.fork) /\ FloorOK(tip)
        /\ disk.tip = tip /\ disk.state = Chain[tip] /\ RingOK(ring, tip) /\ DiskOK(disk)
        /\ floor \in Nat /\ pending \subseteq certs
        /\ IndexOK(disk.receipts, tip, Ancestry(op.fork) \cup op.residual)
        /\ IndexOK(disk.receipts, tip, Stale(disk.marker))
        /\ op.residual # {} => tip = Genesis
        /\ op.residual \subseteq Above(op.saved.tip, Height(op.fork))
    BY <1>1, <1>2, Zenon DEF RebuildInv, TypeInv, MemoryInv, IndexInv
  <2>3. op.residual = {}
    BY <1>1, <1>2, <2>2, Zenon DEF RebuildInv
  <2>4. IndexOK(disk.receipts, tip, {})
    <3>1. (Ancestry(op.fork) \cup op.residual) \ Ancestry(tip) \subseteq {}
      BY <2>2, <2>3, SplitChain
    <3>2. IndexOK(disk.receipts, tip, Ancestry(op.fork) \cup op.residual)
      BY <2>2, Zenon
    <3> QED
      BY ONLY <3>1, <3>2, IndexMonotone, ZenonT(30)
  <2>5. /\ DiskOK(disk') /\ disk'.tip = tip /\ disk'.state = Chain[tip]
        /\ disk'.receipts = disk.receipts /\ disk'.marker \in {NoBlock, disk.marker}
    BY <2>1, <2>2 DEF DiskOK, MaybeBlock
  <2>6. IndexOK(disk'.receipts, tip, Stale(disk'.marker))
    BY <2>2, <2>4, <2>5, Zenon DEF Stale
  <2>7. FloorOK(tip)'
    BY <1>2, <2>1, <2>2, Zenon DEF FloorOK
  <2> QED
    BY <1>1, <1>2, <1>4, <2>1, <2>2, <2>5, <2>6, <2>7, EndsKeeps, Zenon
<1> QED
  BY <1>3, <1>4

-----------------------------------------------------------------------------
\* A crash and the next start.

(* The boot check of the floor: the highest stored certificate on the      *)
(* durable chain.                                                          *)
LEMMA RestoredFloor ==
  ASSUME NEW t \in Blocks, certs \subseteq Blocks
  PROVE  LET h == Max({0} \cup {Height(c) : c \in certs \cap Ancestry(t)}) IN
         /\ h \in Nat /\ (h > 0 => h <= Height(t) /\ At(t, h) \in certs)
         /\ \A c \in certs \cap Ancestry(t) : Height(c) <= h
<1> DEFINE C == certs \cap Ancestry(t)
           S == {0} \cup {Height(c) : c \in C}
<1>1. Height(t) \in Nat
  BY ChainType
<1>2. \A c \in C : c \in certs /\ Height(c) \in Nat /\ Height(c) <= Height(t) /\ At(t, Height(c)) = c
  <2> SUFFICES ASSUME NEW c \in C
               PROVE  c \in certs /\ Height(c) \in Nat /\ Height(c) <= Height(t) /\ At(t, Height(c)) = c
    OBVIOUS
  <2>1. Descends(t, c)
    BY DEF Descends
  <2> QED
    BY <2>1, DescendsAt, ChainType
<1> HIDE DEF C
<1>3. S \in SUBSET (0 .. Height(t)) /\ S # {}
  BY <1>1, <1>2
<1>4. Max(S) \in S /\ \A x \in S : x <= Max(S)
  BY <1>3, MaxIs, Zenon
<1>5. Max(S) = 0 \/ \E c \in C : Max(S) = Height(c)
  BY <1>4, Zenon
<1>6. Max(S) > 0 => Max(S) <= Height(t) /\ At(t, Max(S)) \in certs
  BY <1>2, <1>5
<1>7. \A c \in C : Height(c) <= Max(S)
  BY <1>4, Zenon
<1> QED
  BY <1>3, <1>4, <1>6, <1>7 DEF C

(* Whatever was being written, a restart finds a block's own state; it is  *)
(* refused only if that block commits to a wrong root.                     *)
LEMMA RestartKeeps ==
  ASSUME IInv, NEW ok \in BOOLEAN, Restart(ok)
  PROVE  IInv'
<1> DEFINE t == disk.tip
           h == Max({0} \cup {Height(c) : c \in certs \cap Ancestry(t)})
<1>1. TypeInv /\ MemoryInv /\ IndexInv
  BY DEF IInv
<1>2. /\ t \in Blocks /\ disk.state = Chain[t] /\ DiskOK(disk) /\ certs \subseteq Blocks
      /\ stored \subseteq Blocks /\ Genesis \in stored
      /\ IndexOK(disk.receipts, t, Stale(disk.marker))
  BY <1>1, ApplyAssumption, Zenon DEF TypeInv, MemoryInv, IndexInv, DiskOK
<1>3. /\ disk' = IF ok /\ BootRootOk(disk) THEN Cleaned(disk) ELSE disk
      /\ op' = IF BootRootOk(disk) THEN Free ELSE Halted
      /\ tip' = t /\ world' = Chain[t]
      /\ floor' = h /\ pending' = {c \in certs : Height(c) > h} /\ check' = NoCheck
      /\ hydrated' = FALSE /\ startup' = TRUE /\ top' = Max({Height(b) : b \in stored})
      /\ wanted' = NoBlock /\ rebuilding' = FALSE /\ UNCHANGED <<stored, certs>>
  BY <1>2, Zenon DEF Restart, Restored
<1>4. RingOK(ring', t)
  BY <1>2, RestoredRing, Zenon DEF Restart
<1>5. /\ h \in Nat /\ (h > 0 => h <= Height(t) /\ At(t, h) \in certs)
  BY <1>2, RestoredFloor, Zenon
<1> HIDE DEF h
<1>6. /\ DiskOK(disk') /\ disk'.tip = t /\ disk'.state = Chain[t]
      /\ IndexOK(disk'.receipts, t, Stale(disk'.marker))
  <2>1. CASE disk' = Cleaned(disk)
    <3>1. Stale(NoBlock) = {}
      BY DEF Stale
    <3> QED
      BY <1>1, <1>2, <2>1, <3>1, CleanedIs, Zenon
  <2>2. CASE disk' = disk
    BY <1>2, <2>2
  <2> QED
    BY <1>3, <2>1, <2>2, Zenon
<1>7. /\ op' \in {Free, Halted} /\ op'.pc \in {"free", "halted"} /\ op'.by = "none"
      /\ op'.pc = "free" => op' = Free /\ t \notin WrongRoot
      /\ op'.pc = "halted" => op' = Halted /\ t \in WrongRoot
  BY <1>2, <1>3, Zenon DEF Free, Halted, BootRootOk
<1>8. top' \in Nat
  BY <1>2, <1>3, TopType
<1>9. TypeInv'
  <2>1. op' \in [pc : PCs, by : Callers, head : MaybeBlock, fork : MaybeBlock,
                 saved : {op'.saved}, residual : SUBSET Blocks]
    BY <1>7 DEF Free, Halted, PCs, Callers, MaybeBlock
  <2>2. check' \in [block : MaybeBlock, tip : MaybeBlock]
    BY <1>3, Zenon DEF NoCheck, MaybeBlock
  <2> QED
    BY <1>1, <1>2, <1>3, <1>5, <1>6, <1>8, <2>1, <2>2, Zenon DEF TypeInv, MaybeBlock
<1>10. LockInv' /\ RootInv' /\ SwitchInv' /\ RebuildInv'
  BY <1>3, <1>7, Zenon DEF LockInv, RootInv, SwitchInv, RebuildInv
<1>11. MemoryInv' /\ IndexInv'
  BY <1>3, <1>4, <1>6, <1>7, Zenon DEF MemoryInv, IndexInv
<1>12. FloorInv'
  BY <1>3, <1>5 DEF FloorInv, FloorOK
<1> QED
  BY <1>9, <1>10, <1>11, <1>12 DEF IInv

-----------------------------------------------------------------------------
\* The theorems.

(* No step breaks the invariant while the write that undoes an aborted     *)
(* switch succeeds.                                                        *)
LEMMA NextKeeps ==
  ASSUME ~RestoreFails
  PROVE  IInv /\ [Next]_vars => IInv'
<1> SUFFICES ASSUME IInv, [Next]_vars PROVE IInv'
  OBVIOUS
<1>1. CASE UNCHANGED vars
  <2>1. /\ UNCHANGED <<applied, disk, op, floor>> /\ certs \subseteq certs' /\ check' = check
    BY <1>1 DEF vars, finality
  <2>2. TypeInv'
    BY <1>1 DEF IInv, TypeInv, vars, boot, applied, finality
  <2>3. check' # NoCheck => /\ check'.block \in certs' /\ check'.tip \in Blocks
                            /\ Height(check'.block) <= Height(check'.tip)
    BY <2>1 DEF IInv, FloorInv
  <2> QED
    BY <2>1, <2>2, <2>3, QuietKeeps, Zenon
<1>2. CASE HolderStep
  <2>1. Outcomes \subseteq BOOLEAN /\ RestoreOutcomes = {TRUE} /\ "drive" \in {"receive", "drive"}
    BY Zenon DEF Outcomes, RestoreOutcomes
  <2>2. CASE \E b \in Blocks : FollowForkChoice(b)
    BY <2>1, <2>2, LockKeeps
  <2>3. CASE \E ok \in Outcomes : DrainForward(ok) \/ ReorgTo(ok) \/ ResetToGenesis(ok)
                                    \/ PersistSealed(ok) \/ PutReceipts(ok)
    BY <2>1, <2>3, DrainForwardKeeps, ReorgToKeeps, ResetKeeps, ProducerKeeps, Zenon
  <2>4. CASE \E ok \in Outcomes, restored \in RestoreOutcomes :
               Reapply(ok, restored) \/ RemoveResidual(ok, restored) \/ Replay(ok, restored)
                 \/ Converge(ok, restored)
    <3>1. PICK ok \in BOOLEAN : \/ Reapply(ok, TRUE) \/ RemoveResidual(ok, TRUE)
                                \/ Replay(ok, TRUE) \/ Converge(ok, TRUE)
      BY <2>1, <2>4, Zenon
    <3> QED
      BY <3>1, ReapplyKeeps, RemoveResidualKeeps, ReplayKeeps, ConvergeKeeps, Zenon
  <2> QED
    BY <1>2, <2>2, <2>3, <2>4 DEF HolderStep
<1>3. CASE Hydrate
  BY <1>3, OutsideKeeps, TreeAssumption
<1>4. CASE \E b \in Blocks : PutBlock(b) \/ Finalize(b) \/ CheckWalk(b) \/ Produce(b)
  <2>1. "drive" \in {"receive", "drive"}
    OBVIOUS
  <2> QED
    BY <1>4, <2>1, OutsideKeeps, LockKeeps
<1>5. CASE CheckConfirm
  BY <1>5, CheckConfirmKeeps
<1>6. CASE \E by \in {"receive", "drive"} : Drain(by)
  BY <1>6, LockKeeps, TreeAssumption
<1>7. CASE \E b \in Blocks : StartupRecover(b) \/ RecoverGuarded(b)
  BY <1>7, OutsideKeeps
<1>8. CASE \E ok \in Outcomes : RecoverToHead(ok) \/ Restart(ok)
  <2>1. Outcomes \subseteq BOOLEAN
    BY Zenon DEF Outcomes
  <2> QED
    BY <1>8, <2>1, RecoverToHeadKeeps, RestartKeeps
<1> QED
  BY <1>1, <1>2, <1>3, <1>4, <1>5, <1>6, <1>7, <1>8, Zenon DEF Next

(* The invariant holds in every state of every run, if the write that      *)
(* undoes an aborted switch does not fail (RestoreFails): for all blocks,  *)
(* windows, failed writes and crashes.                                     *)
THEOREM Invariance ==
  ASSUME ~RestoreFails
  PROVE  Spec => []IInv
<1>1. Init => IInv
  BY InitInv
<1>2. IInv /\ [Next]_vars => IInv'
  BY NextKeeps
<1> QED
  BY <1>1, <1>2, PTL DEF Spec

(* What is on disk is right in every state a crash could expose: the state *)
(* is that of the durable tip, the undo records fit their window, and with *)
(* no rebuild to clean up after the receipts are those of the applied      *)
(* chain (CanonicalApplicator's persisted image).                          *)
THEOREM DiskIsRight ==
  ASSUME ~RestoreFails
  PROVE  Spec => []DiskInv
<1>1. IInv => DiskInv
  <2> SUFFICES ASSUME IInv PROVE DiskInv
    OBVIOUS
  <2>1. TypeInv /\ MemoryInv /\ IndexInv /\ DiskOK(disk) /\ RingOK(ring, tip)
    BY DEF IInv, TypeInv, MemoryInv
  <2>2. Height(tip) \in Nat
    BY <2>1, ChainType DEF TypeInv
  <2>3. TypeOK
    BY <2>1, <2>2 DEF TypeOK, TypeInv, DiskOK, RingOK, MaybeBlock
  <2>4. DurableConsistent
    BY <2>1 DEF DurableConsistent, MemoryInv
  <2>5. ReceiptsExact
    <3> SUFFICES ASSUME disk.marker = NoBlock, NEW t \in Txs
                 PROVE  \/ disk.receipts[t] \in OnDurable(t)
                        \/ disk.receipts[t] = NoBlock /\ OnDurable(t) \subseteq Own
      BY DEF ReceiptsExact
    <3>1. IndexOK(disk.receipts, disk.tip, {})
      BY <2>1 DEF IndexInv, Stale
    <3>2. CASE disk.receipts[t] # NoBlock
      BY <3>1, <3>2 DEF IndexOK, OnDurable
    <3>3. CASE disk.receipts[t] = NoBlock
      <4>1. Ancestry(disk.tip) \subseteq Blocks
        BY <2>1, SplitChain, DescendsOrder DEF DiskOK
      <4>2. ASSUME NEW b \in OnDurable(t) PROVE b \in Own
        <5>1. b \in Ancestry(disk.tip) \ {Genesis} /\ Tx[b] = t /\ b # NoBlock
          BY <4>1, TreeAssumption DEF OnDurable
        <5> QED
          BY <3>1, <3>3, <5>1 DEF IndexOK
      <4> QED
        BY <3>3, <4>2
    <3> QED
      BY <3>2, <3>3, Zenon
  <2> QED
    BY <2>3, <2>4, <2>5 DEF DiskInv
<1> QED
  BY <1>1, Invariance, PTL

(* With no rebuild to clean up after, every receipt is one of a block of   *)
(* the durable applied chain, and each of its blocks has its receipts      *)
(* unless the node produced it, through every switch of chain.             *)
THEOREM ReceiptsFollow ==
  ASSUME ~RestoreFails
  PROVE  Spec => []ReceiptsExact
<1>1. DiskInv => ReceiptsExact
  BY Zenon DEF DiskInv
<1> QED
  BY <1>1, DiskIsRight, PTL

(* With the lock free, executor, applied tip and durable tip agree, and    *)
(* each snapshot a later reorg may revert to is the state of an ancestor.  *)
THEOREM MemoryIsRight ==
  ASSUME ~RestoreFails
  PROVE  Spec => []MemoryConsistent
<1>1. IInv => MemoryConsistent
  <2> SUFFICES ASSUME IInv, op = Free
               PROVE  MemoryConsistent
    BY Zenon DEF MemoryConsistent
  <2>1. op.pc # "reapply"
    BY DEF Free
  <2>2. world = Chain[tip] /\ disk.tip = tip /\ RingOK(ring, tip)
    BY <2>1, Zenon DEF IInv, MemoryInv
  <2> QED
    BY <2>2, Zenon DEF RingOK, MemoryConsistent
<1> QED
  BY <1>1, Invariance, PTL

(* With the lock free, the floor is on the applied chain and on a          *)
(* certified block: no stale walk ever raises it (verify_certified_floor). *)
THEOREM FloorIsCertified ==
  ASSUME ~RestoreFails
  PROVE  Spec => []FloorOnChain
<1>1. IInv => FloorOnChain
  <2> SUFFICES ASSUME IInv, op = Free
               PROVE  FloorOnChain
    BY Zenon DEF FloorOnChain
  <2>1. op.pc # "replay"
    BY DEF Free
  <2> QED
    BY <2>1, Zenon DEF IInv, FloorInv, FloorOK, FloorOnChain
<1> QED
  BY <1>1, Invariance, PTL

(* A node refuses to start only when its durable tip, whose state it holds *)
(* intact, commits to a wrong root (the SRP-S3 boot check).                *)
THEOREM RefusedOnlyWrong ==
  ASSUME ~RestoreFails
  PROVE  Spec => [](op = Halted => disk.tip \in WrongRoot /\ DurableConsistent)
<1>1. IInv => (op = Halted => disk.tip \in WrongRoot /\ DurableConsistent)
  BY DEF IInv, RootInv, MemoryInv, DurableConsistent, Halted
<1> QED
  BY <1>1, Invariance, PTL

-----------------------------------------------------------------------------
\* What one step does to the applied tip.

Stays ==
    /\ op.pc # "replay" /\ op'.pc # "replay" /\ tip' = tip
    /\ op'.pc = "halted" => op.pc = "halted"
    /\ floor <= floor' /\ certs \subseteq certs'

Extended ==
    /\ op.pc \notin {"replay", "halted"} /\ op'.pc \notin {"replay", "halted"}
    /\ tip' \in Blocks \ {Genesis} /\ Parent[tip'] = tip
    /\ UNCHANGED <<floor, certs>>

Switched ==
    /\ op.pc = "reapply" /\ op'.pc \notin {"replay", "halted"} /\ tip' = op.head
    /\ Above(op.head, Height(op.fork)) \cap WrongRoot = {}
    /\ UNCHANGED <<floor, certs>>

WasReset ==
    /\ op.pc # "replay" /\ op'.pc = "replay" /\ op'.saved.tip = tip /\ op'.head \in Blocks
    /\ tip' = Genesis
    /\ floor <= floor' /\ (floor' > 0 => floor' <= Height(tip) /\ Descends(op'.head, At(tip, floor')))
    /\ UNCHANGED certs

Replays ==
    /\ op.pc = "replay" /\ op'.pc = "replay" /\ op'.saved = op.saved /\ op'.head = op.head
    /\ floor' = floor /\ certs \subseteq certs'

Ended ==
    /\ op.pc = "replay" /\ op' = Free /\ tip' \in {op.saved.tip, op.head}
    /\ UNCHANGED <<floor, certs>>

Restarted == \E ok \in Outcomes : Restart(ok)

(* An in-place reorg before its revert leaves the tip.                     *)
LEMMA ReorgToStays ==
  ASSUME IInv, NEW ok \in BOOLEAN, ReorgTo(ok)
  PROVE  Stays
<1> DEFINE to == EffectiveFloor(FALSE)
<1>1. /\ tip \in Blocks /\ RingOK(ring, tip) /\ FloorOK(tip) /\ floor \in Nat
      /\ pending \subseteq certs /\ certs \subseteq Blocks
      /\ op.pc = "reorg" /\ tip' = tip /\ certs' = certs
  BY ApplyAssumption DEF IInv, TypeInv, MemoryInv, FloorInv, ReorgTo
<1>2. to \in Nat /\ floor <= to
  BY <1>1, EffectiveFloorIs, Zenon
<1> HIDE DEF to
<1>3. floor <= floor'
  <2>1. CASE UNCHANGED <<floor, pending>>
    BY <1>1, <2>1
  <2>2. CASE RaiseFloor(to)
    BY <1>1, <1>2, <2>2, RaiseFloorIs
  <2> QED
    BY <2>1, <2>2, Zenon DEF ReorgTo, to
<1>4. op'.pc \notin {"replay", "halted"}
  <2>1. \/ After("rejected", to) \/ After(ReorgWalk(op.head), to)
        \/ \E f, sv : op' = [op EXCEPT !.pc = "reapply", !.fork = f, !.saved = sv]
    BY Zenon DEF ReorgTo, to
  <2>2. CASE \E outcome : After(outcome, to)
    BY <1>1, <2>2, AfterIs DEF IInv, Free
  <2>3. CASE \E f, sv : op' = [op EXCEPT !.pc = "reapply", !.fork = f, !.saved = sv]
    BY <2>3 DEF IInv, TypeInv
  <2> QED
    BY <2>1, <2>2, <2>3, Zenon
<1> QED
  BY <1>1, <1>3, <1>4 DEF Stays

(* The commit of a switch moves the tip to its head; an abort leaves it.   *)
LEMMA ReapplySwitches ==
  ASSUME IInv, NEW ok \in BOOLEAN, Reapply(ok, TRUE)
  PROVE  Stays \/ Switched
<1> DEFINE to == EffectiveFloor(FALSE)
<1>1. /\ tip \in Blocks /\ RingOK(ring, tip) /\ FloorOK(tip) /\ floor \in Nat
      /\ pending \subseteq certs /\ certs \subseteq Blocks /\ op.pc = "reapply" /\ certs' = certs
  BY ApplyAssumption DEF IInv, TypeInv, MemoryInv, FloorInv, Reapply
<1>2. to \in Nat /\ floor <= to
  BY <1>1, EffectiveFloorIs, Zenon
<1> HIDE DEF to
<1>3. \/ tip' = op.head /\ After("reorged", 0) /\ UNCHANGED floor /\ BranchVerifies
      \/ tip' = tip /\ After("rejected", to) /\ (RaiseFloor(to) \/ UNCHANGED floor)
  BY Zenon DEF Reapply, Abort, to
<1>4. op'.pc \notin {"replay", "halted"}
  BY <1>1, <1>3, AfterIs DEF IInv, Free
<1>5. CASE tip' = op.head /\ UNCHANGED floor /\ BranchVerifies
  <2>1. Above(op.head, Height(op.fork)) \cap WrongRoot = {}
    BY <1>5, Zenon DEF BranchVerifies, Branch
  <2> QED
    BY <1>1, <1>4, <1>5, <2>1, Zenon DEF Switched
<1>6. CASE tip' = tip /\ (RaiseFloor(to) \/ UNCHANGED floor)
  <2>1. floor <= floor'
    BY <1>1, <1>2, <1>6, RaiseFloorIs
  <2> QED
    BY <1>1, <1>4, <1>6, <2>1 DEF Stays
<1> QED
  BY <1>3, <1>5, <1>6

(* The reset of a rebuild passes only if its head has the block under the  *)
(* floor.                                                                  *)
LEMMA ResetIsGuarded ==
  ASSUME IInv, NEW ok \in BOOLEAN, ResetToGenesis(ok)
  PROVE  Stays \/ WasReset
<1> DEFINE to == EffectiveFloor(TRUE)
<1>1. /\ tip \in Blocks /\ RingOK(ring, tip) /\ FloorOK(tip) /\ floor \in Nat
      /\ pending \subseteq certs /\ certs \subseteq Blocks /\ op.pc = "guard" /\ certs' = certs
      /\ op.head \in Blocks
  BY ApplyAssumption DEF IInv, TypeInv, LockInv, MemoryInv, FloorInv, ResetToGenesis
<1>2. to \in Nat /\ floor <= to /\ (to > 0 => to <= Height(tip))
  BY <1>1, EffectiveFloorIs, Zenon
<1> HIDE DEF to
<1>3. floor' = to
  <2>1. RaiseFloor(to)
    BY Zenon DEF ResetToGenesis, to
  <2> QED
    BY <1>1, <1>2, <2>1, RaiseFloorIs
<1>4. CASE op' = Free /\ UNCHANGED applied
  BY <1>1, <1>2, <1>3, <1>4 DEF Stays, Free, applied
<1>5. CASE ~(op' = Free /\ UNCHANGED applied)
  <2> DEFINE lost == Above(tip, Height(op.fork))
             rest == lost \ FirstChunk(lost)
             saved == [tip |-> tip, world |-> world, ring |-> ring,
                       kept |-> Indexed(disk.receipts, lost),
                       had |-> Indexed(disk.receipts, Above(op.head, Height(op.fork)))]
  <2>1. /\ ~(to > 0 /\ to <= Height(tip) /\ ~Descends(op.head, At(tip, to)))
        /\ op' = [op EXCEPT !.pc = "replay", !.residual = rest, !.saved = saved]
        /\ tip' = Genesis
    BY <1>5, Zenon DEF ResetToGenesis, Unlock, to
  <2>2. op'.pc = "replay" /\ op'.saved.tip = tip /\ op'.head = op.head
    BY <2>1 DEF IInv, TypeInv
  <2> QED
    BY <1>1, <1>2, <1>3, <2>1, <2>2 DEF WasReset
<1> QED
  BY <1>4, <1>5

(* Every step is one of these.                                             *)
LEMMA StepShape ==
  ASSUME ~RestoreFails, IInv, [Next]_vars
  PROVE  Stays \/ Extended \/ Switched \/ WasReset \/ Replays \/ Ended \/ Restarted
<1>1. /\ floor \in Nat /\ tip \in Blocks /\ (op.pc = "free" <=> op = Free)
      /\ op \in [pc : PCs, by : Callers, head : MaybeBlock, fork : MaybeBlock,
                 saved : {op.saved}, residual : SUBSET Blocks]
  BY DEF IInv, TypeInv, LockInv, Free
<1>2. ASSUME UNCHANGED <<tip, op, floor>>, certs \subseteq certs' PROVE Stays \/ Replays
  BY <1>1, <1>2 DEF Stays, Replays
<1>3. ASSUME UNCHANGED <<tip, floor, certs>>, op.pc # "replay", op'.pc \notin {"replay", "halted"}
      PROVE  Stays
  BY <1>1, <1>3 DEF Stays
<1> USE DEF boot, applied, finality
<1>4. CASE UNCHANGED vars
  BY <1>2, <1>4, Zenon DEF vars
<1>5. CASE \/ Hydrate \/ \E b \in Blocks : PutBlock(b) \/ Finalize(b) \/ CheckWalk(b)
           \/ \E b \in Blocks : StartupRecover(b) \/ RecoverGuarded(b)
  BY <1>2, <1>5, Zenon DEF Hydrate, PutBlock, Finalize, CheckWalk, StartupRecover, RecoverGuarded
<1>6. CASE CheckConfirm
  <2>1. /\ op.pc # "replay" /\ op' = op /\ tip' = tip /\ certs' = certs
        /\ \/ floor' = floor
           \/ RaiseFloor(Height(check.block)) /\ check # NoCheck
    BY <1>6 DEF CheckConfirm, Free
  <2>2. check # NoCheck => Height(check.block) \in Nat
    BY ChainType, ApplyAssumption DEF IInv, FloorInv, TypeInv
  <2>3. floor <= floor'
    BY <1>1, <2>1, <2>2, RaiseFloorIs
  <2> QED
    BY <2>1, <2>3, Zenon DEF Stays
<1>7. CASE \E b \in Blocks : Produce(b) \/ FollowForkChoice(b)
  <2>1. PICK b \in Blocks : Produce(b) \/ FollowForkChoice(b)
    BY <1>7
  <2>2. CASE Produce(b)
    BY <1>3, <2>2 DEF Produce, Free
  <2>3. CASE FollowForkChoice(b)
    <3>1. op.pc = "choose" /\ (op' = Free \/ op' = [op EXCEPT !.pc = "reorg", !.head = b])
      BY <2>3 DEF FollowForkChoice, Unlock
    <3>2. op'.pc \in {"free", "reorg"}
      <4>1. [op EXCEPT !.pc = "reorg", !.head = b].pc = "reorg"
        BY <1>1
      <4>2. Free.pc = "free"
        BY DEF Free
      <4> QED
        BY <3>1, <4>1, <4>2, Zenon
    <3>3. UNCHANGED <<tip, floor, certs>>
      BY <2>3 DEF FollowForkChoice
    <3> QED
      BY <1>3, <3>1, <3>2, <3>3
  <2> QED
    BY <2>1, <2>2, <2>3
<1>8. CASE \E by \in {"receive", "drive"} : Drain(by)
  BY <1>3, <1>8 DEF Drain, Free
<1>9. CASE \E ok \in BOOLEAN : PutReceipts(ok)
  BY <1>3, <1>9 DEF PutReceipts, Unlock, Free
<1>10. CASE \E ok \in BOOLEAN : RecoverToHead(ok)
  <2>1. UNCHANGED <<tip, floor, certs>> /\ op = Free
    BY <1>10 DEF RecoverToHead
  <2> DEFINE pc == IF Height(PlanFork(wanted)) \in DOMAIN ring THEN "reorg" ELSE "guard"
             f == PlanFork(wanted)
  <2>2. \/ op' = op
        \/ op' = [Free EXCEPT !.pc = pc, !.by = "rebuild", !.head = wanted, !.fork = f]
    BY <1>10, Zenon DEF RecoverToHead
  <2>3. pc \in {"reorg", "guard"}
    OBVIOUS
  <2> HIDE DEF f, pc
  <2>4. /\ Free.pc = "free"
        /\ [Free EXCEPT !.pc = pc, !.by = "rebuild", !.head = wanted, !.fork = f].pc = pc
    BY DEF Free
  <2>5. op'.pc \in {"free", "reorg", "guard"}
    BY <2>1, <2>2, <2>3, <2>4, Zenon
  <2> QED
    BY <1>3, <2>1, <2>4, <2>5, Zenon
<1>11. CASE \E ok \in BOOLEAN : DrainForward(ok)
  <2>1. /\ UNCHANGED <<floor, certs>> /\ op.pc = "drain" /\ op'.pc \in {"drain", "choose"}
    BY <1>1, <1>11 DEF DrainForward
  <2>2. tip' = tip \/ tip' \in Extensions
    BY <1>11 DEF DrainForward
  <2>3. CASE tip' = tip
    BY <1>3, <2>1, <2>3, Zenon
  <2>4. CASE tip' \in Extensions
    BY <2>1, <2>4 DEF Extended, Extensions, IInv, TypeInv
  <2> QED
    BY <2>2, <2>3, <2>4
<1>12. CASE \E ok \in BOOLEAN : PersistSealed(ok)
  <2>1. /\ UNCHANGED <<floor, certs>> /\ op.pc = "sealed" /\ op'.pc \in {"receipts", "free"}
        /\ tip' \in {tip, op.head}
    BY <1>1, <1>12 DEF PersistSealed, Unlock, Free
  <2>2. op.head \in Blocks \ {Genesis} /\ Parent[op.head] = tip
    BY <2>1, ApplyAssumption DEF IInv, LockInv
  <2> QED
    BY <1>3, <2>1, <2>2 DEF Extended
<1>13. CASE \E ok \in BOOLEAN : ReorgTo(ok) \/ Reapply(ok, TRUE) \/ ResetToGenesis(ok)
  BY <1>13, ReorgToStays, ReapplySwitches, ResetIsGuarded, Zenon
<1>14. CASE \E ok \in BOOLEAN : RemoveResidual(ok, TRUE) \/ Replay(ok, TRUE) \/ Converge(ok, TRUE)
  <2>1. op.pc = "replay" /\ UNCHANGED <<floor, certs>>
    BY <1>14, Zenon DEF RemoveResidual, Replay, Converge
  <2>2. \/ op' = op \/ op' = [op EXCEPT !.residual = @ \ FirstChunk(@)]
        \/ op' = Free /\ tip' \in {op.saved.tip, op.head}
    BY <1>14, Zenon DEF RemoveResidual, Replay, Converge, RollBack, Unlock
  <2> QED
    BY <1>1, <2>1, <2>2 DEF Replays, Ended
<1>15. CASE \E ok \in Outcomes : Restart(ok)
  BY <1>15 DEF Restarted
<1>16. Outcomes \subseteq BOOLEAN /\ RestoreOutcomes = {TRUE}
  BY Zenon DEF Outcomes, RestoreOutcomes
<1> QED
  BY Zenon, <1>4, <1>5, <1>6, <1>7, <1>8, <1>9, <1>10, <1>11, <1>12, <1>13, <1>14, <1>15, <1>16
     DEF Next, HolderStep

-----------------------------------------------------------------------------
\* Runs in which the node does not crash in the replay of a rebuild.

Uninterrupted == op.pc = "replay" => ~Restarted

(* A durable tip outside a replay is on the applied chain.                 *)
LEMMA DurableOnChain ==
  ASSUME IInv, op.pc # "replay"
  PROVE  disk.tip \in Blocks /\ Descends(tip, disk.tip) /\ (disk.tip # tip => floor <= Height(disk.tip))
  BY DescendsOrder DEF IInv, TypeInv, MemoryInv, SwitchInv

(* The chain of an ancestor is part of the chain.                          *)
LEMMA NestedAncestry ==
  ASSUME NEW b \in Blocks, NEW a \in Blocks, Descends(b, a)
  PROVE  Ancestry(a) \subseteq Ancestry(b) /\ Ancestry(b) \subseteq Blocks
BY SplitChain

(* The program counters of the two states without a holder of the lock.    *)
LEMMA FreePc == Free.pc = "free" /\ Halted.pc = "halted"
BY DEF Free, Halted

(* The durable tip outside a replay brings nothing new.                    *)
LEMMA DurableIsOld ==
  ASSUME IInv, op.pc # "replay"
  PROVE  Ancestry(disk.tip) \subseteq Ancestry(tip)
<1>1. disk.tip \in Blocks /\ tip \in Blocks /\ Descends(tip, disk.tip)
  BY DurableOnChain DEF IInv, TypeInv
<1> QED
  BY <1>1, NestedAncestry, Zenon

(* A child's chain is its parent's and the child.                          *)
LEMMA ChildAncestry ==
  ASSUME NEW b \in Blocks \ {Genesis}
  PROVE  Ancestry(b) = Ancestry(Parent[b]) \cup {b}
<1>1. Parent[b] \in Blocks /\ Descends(b, Parent[b])
  BY ChildChain, DescendsOrder, Zenon
<1>2. Above(b, Height(Parent[b])) = {b}
  BY AboveParent, Zenon
<1> QED
  BY <1>1, <1>2, SplitChain, Zenon

-----------------------------------------------------------------------------
\* Roots.

\* No step outside the replay of a rebuild puts a block on the applied chain
\* whose committed root execution does not give, and with the lock free the
\* tip itself has the right one.
NewVerified == op.pc # "replay" => (Ancestry(tip') \ Ancestry(tip)) \cap WrongRoot = {}
TipVerified == op = Free => tip \notin WrongRoot

(* The drain, the producer, a switch and a restart from anywhere but a     *)
(* replay bring no wrong root onto the applied chain (each checks every    *)
(* block it adds); a rebuild, which checks its target only, never leaves a *)
(* wrong root at the tip.                                                  *)
THEOREM WrongOnlyReplayed ==
  ASSUME ~RestoreFails
  PROVE  Spec => []TipVerified /\ [][NewVerified]_vars
<1>1. IInv => TipVerified
  BY FreePc, Zenon DEF IInv, RootInv, TipVerified
<1>2. IInv /\ IInv' /\ [Next]_vars => NewVerified
  <2> SUFFICES ASSUME IInv, IInv', [Next]_vars, op.pc # "replay"
               PROVE  Ancestry(tip') \ Ancestry(tip) \subseteq Blocks \ WrongRoot
    BY DEF NewVerified
  <2>1. tip \in Blocks /\ tip' \in Blocks
    BY Zenon DEF IInv, TypeInv
  <2>2. CASE Stays
    BY <2>2, Zenon DEF Stays
  <2>3. CASE Extended
    <3>1. Ancestry(tip') = Ancestry(tip) \cup {tip'}
      BY <2>3, ChildAncestry, Zenon DEF Extended
    <3>2. tip' \notin WrongRoot
      BY <2>3, Zenon DEF Extended, IInv, RootInv
    <3> QED
      BY <2>1, <3>1, <3>2
  <2>4. CASE Switched
    <3>1. /\ op.fork \in Blocks /\ Descends(tip, op.fork) /\ Descends(tip', op.fork)
          /\ Above(tip', Height(op.fork)) \cap WrongRoot = {}
      BY <2>4, Zenon DEF Switched, IInv, SwitchInv
    <3>2. /\ Ancestry(tip') = Ancestry(op.fork) \cup Above(tip', Height(op.fork))
          /\ Ancestry(op.fork) \subseteq Ancestry(tip) /\ Ancestry(tip') \subseteq Blocks
      BY <2>1, <3>1, NestedAncestry, SplitChain, Zenon
    <3> QED
      BY <3>1, <3>2
  <2>5. CASE WasReset
    <3>1. tip' = Genesis /\ Ancestry(Genesis) \subseteq Ancestry(tip)
      BY <2>1, <2>5, DescendsOrder, NestedAncestry, TreeAssumption, Zenon DEF WasReset
    <3> QED
      BY <3>1, Zenon
  <2>6. CASE Restarted
    <3>1. tip' = disk.tip
      BY <2>6, Zenon DEF Restarted, Restart
    <3> QED
      BY <3>1, DurableIsOld, Zenon
  <2> QED
    BY <2>2, <2>3, <2>4, <2>5, <2>6, StepShape, Zenon DEF Replays, Ended
<1> QED
  BY <1>1, <1>2, Invariance, PTL DEF Spec

\* A rebuild resets only for a head below which no block has a wrong root.  The
\* code does not see to it: where it fails, the replay applies that block.
SpineVerifies == op'.pc = "replay" => (Ancestry(op'.head) \ {op'.head}) \cap WrongRoot = {}

\* The applied chain has no wrong root; in a replay neither the chain a rollback
\* brings back nor the one to come below its head.
CleanInv ==
    /\ op.pc \notin {"replay", "halted"} => Ancestry(tip) \cap WrongRoot = {}
    /\ op.pc = "replay" => /\ Ancestry(op.saved.tip) \cap WrongRoot = {}
                           /\ (Ancestry(op.head) \ {op.head}) \cap WrongRoot = {}

(* Below a head without wrong roots under it, what is no wrong root itself *)
(* stands on none.                                                         *)
LEMMA SpineIsClean ==
  ASSUME NEW head \in Blocks, NEW b \in Blocks \ WrongRoot, Descends(head, b),
         (Ancestry(head) \ {head}) \cap WrongRoot = {}
  PROVE  Ancestry(b) \cap WrongRoot = {}
<1>1. Ancestry(b) \subseteq Ancestry(head)
  BY NestedAncestry, Zenon
<1>2. CASE b = head
  BY <1>2, Zenon
<1>3. CASE b # head
  <2>1. head \notin Ancestry(b)
    <3> SUFFICES ASSUME Descends(b, head) PROVE FALSE
      BY DEF Descends
    <3>1. /\ Height(b) <= Height(head) /\ At(head, Height(b)) = b
          /\ Height(head) <= Height(b) /\ Height(b) \in Nat /\ Height(head) \in Nat
      BY DescendsAt, ChainType, Zenon
    <3>2. Height(b) = Height(head)
      BY <3>1
    <3> QED
      BY <1>3, <3>1, <3>2, OwnHeight, Zenon
  <2> QED
    BY <1>1, <2>1, Zenon
<1> QED
  BY <1>2, <1>3

(* Every step but a reset onto a spine with a wrong root keeps the applied *)
(* chain clean.                                                            *)
LEMMA CleanStays ==
  ASSUME ~RestoreFails
  PROVE  IInv /\ IInv' /\ CleanInv /\ [Next /\ SpineVerifies]_vars => CleanInv'
<1> SUFFICES ASSUME IInv, IInv', CleanInv, [Next /\ SpineVerifies]_vars PROVE CleanInv'
  OBVIOUS
<1>1. tip \in Blocks /\ tip' \in Blocks
  BY Zenon DEF IInv, TypeInv
<1>2. ASSUME op'.pc # "replay", Ancestry(tip') \cap WrongRoot = {} PROVE CleanInv'
  BY <1>2, Zenon DEF CleanInv
<1>3. CASE UNCHANGED vars
  BY <1>3, Zenon DEF vars, applied, CleanInv
<1>4. CASE Stays
  <2>1. op'.pc \notin {"replay", "halted"} => op.pc \notin {"replay", "halted"}
    BY <1>4, Zenon DEF Stays, IInv, RootInv
  <2> QED
    BY <1>4, <2>1, Zenon DEF Stays, CleanInv
<1>5. CASE Extended
  <2>1. Ancestry(tip') = Ancestry(tip) \cup {tip'}
    BY <1>5, ChildAncestry, Zenon DEF Extended
  <2>2. tip' \notin WrongRoot /\ Ancestry(tip) \cap WrongRoot = {} /\ op'.pc # "replay"
    BY <1>5, Zenon DEF Extended, IInv, RootInv, CleanInv
  <2> QED
    BY <1>2, <2>1, <2>2, Zenon
<1>6. CASE Switched
  <2>1. /\ op.fork \in Blocks /\ Descends(tip, op.fork) /\ Descends(tip', op.fork)
        /\ Above(tip', Height(op.fork)) \cap WrongRoot = {} /\ op'.pc # "replay"
        /\ Ancestry(tip) \cap WrongRoot = {}
    BY <1>6, Zenon DEF Switched, IInv, SwitchInv, CleanInv
  <2>2. /\ Ancestry(tip') = Ancestry(op.fork) \cup Above(tip', Height(op.fork))
        /\ Ancestry(op.fork) \subseteq Ancestry(tip)
    BY <1>1, <2>1, NestedAncestry, SplitChain, Zenon
  <2> QED
    BY <1>2, <2>1, <2>2, Zenon
<1>7. CASE WasReset /\ ~UNCHANGED vars
  <2>1. op'.pc = "replay" /\ op'.saved.tip = tip /\ op.pc # "replay"
    BY <1>7, Zenon DEF WasReset
  <2>2. op.pc # "halted"
    BY <2>1, Zenon DEF IInv, RootInv, RebuildInv
  <2>3. (Ancestry(op'.head) \ {op'.head}) \cap WrongRoot = {}
    BY <1>7, <2>1, Zenon DEF SpineVerifies
  <2> QED
    BY <2>1, <2>2, <2>3, Zenon DEF CleanInv
<1>8. CASE Replays
  BY <1>8, Zenon DEF Replays, CleanInv
<1>9. CASE Ended
  <2>1. /\ op.pc = "replay" /\ op'.pc = "free" /\ tip' \in {op.saved.tip, op.head}
        /\ op.head \in Blocks
    BY <1>9, Zenon DEF Ended, Free, IInv, LockInv
  <2>2. tip' \notin WrongRoot
    BY <2>1, Zenon DEF IInv, RootInv
  <2>3. Ancestry(tip') \cap WrongRoot = {}
    BY <1>1, <2>1, <2>2, SpineIsClean, DescendsOrder, Zenon DEF CleanInv
  <2> QED
    BY <1>2, <2>1, <2>3, Zenon
<1>10. CASE Restarted
  <2>1. tip' = disk.tip /\ (op' = Halted \/ (op' = Free /\ disk.tip \notin WrongRoot))
    BY <1>10, Zenon DEF Restarted, Restart, BootRootOk
  <2>2. /\ op'.pc # "replay" /\ (op'.pc # "halted" => op' = Free)
        /\ op' = Free => disk.tip \notin WrongRoot
    BY <2>1, FreePc
  <2>3. CASE op' # Free
    BY <2>2, <2>3, Zenon DEF CleanInv
  <2>4. CASE op' = Free /\ op.pc = "replay"
    <3>1. /\ disk.tip = tip /\ Descends(op.head, tip) /\ op.head \in Blocks
          /\ (Ancestry(op.head) \ {op.head}) \cap WrongRoot = {}
      BY <2>4, Zenon DEF IInv, MemoryInv, RebuildInv, LockInv, CleanInv
    <3>2. Ancestry(tip') \cap WrongRoot = {}
      BY <1>1, <2>1, <2>2, <2>4, <3>1, SpineIsClean, Zenon
    <3> QED
      BY <1>2, <2>2, <3>2, Zenon
  <2>5. CASE op' = Free /\ op.pc # "replay"
    <3>1. Ancestry(disk.tip) \subseteq Ancestry(tip)
      BY <2>5, DurableIsOld, Zenon
    <3>2. op.pc # "halted"
      BY <2>2, <2>5, Zenon DEF IInv, RootInv, MemoryInv
    <3>3. Ancestry(tip) \cap WrongRoot = {}
      BY <2>5, <3>2, Zenon DEF CleanInv
    <3> QED
      BY <1>2, <2>1, <2>2, <3>1, <3>3, Zenon
  <2> QED
    BY <2>3, <2>4, <2>5
<1> QED
  BY <1>3, <1>4, <1>5, <1>6, <1>7, <1>8, <1>9, <1>10, StepShape, Zenon

(* The initial state has Genesis applied, which commits to no wrong root.  *)
LEMMA InitClean == Init => CleanInv
<1> SUFFICES ASSUME Init PROVE CleanInv
  OBVIOUS
<1>1. op.pc = "free" /\ tip = Genesis
  BY Zenon DEF Init, Free
<1>2. Ancestry(Genesis) = {Genesis}
  BY GenesisHeight DEF Ancestry, At
<1> QED
  BY <1>1, <1>2, TreeAssumption DEF CleanInv

(* No wrong root is on the applied chain with the lock free, unless a      *)
(* rebuild was made onto a head that stands on one: the replay compares    *)
(* the root of the head alone.  A node that makes no rebuild is a special  *)
(* case.                                                                   *)
THEOREM OnlyVerifiedApplied ==
  ASSUME ~RestoreFails
  PROVE  Init /\ [][Next /\ SpineVerifies]_vars => []OnlyVerified
<1>1. IInv /\ [Next /\ SpineVerifies]_vars => IInv'
  BY NextKeeps
<1>2. CleanInv => OnlyVerified
  BY FreePc, Zenon DEF CleanInv, OnlyVerified
<1> QED
  BY <1>1, <1>2, InitInv, InitClean, CleanStays, PTL

(* A node always starts again, unless it crashed in the replay of a        *)
(* rebuild or made one onto a head that stands on a wrong root.            *)
THEOREM StartsAgain ==
  ASSUME ~RestoreFails
  PROVE  Init /\ [][Next /\ SpineVerifies /\ Uninterrupted]_vars => []Starts
<1>1. Init => IInv /\ CleanInv /\ op.pc # "halted"
  <2> SUFFICES ASSUME Init PROVE op.pc # "halted"
    BY InitInv, InitClean, Zenon
  <2> QED
    BY Zenon DEF Init, Free
<1>2. IInv /\ [Next /\ SpineVerifies /\ Uninterrupted]_vars => IInv'
  BY NextKeeps
<1>3. IInv /\ IInv' /\ CleanInv /\ [Next /\ SpineVerifies /\ Uninterrupted]_vars => CleanInv'
  BY CleanStays
<1>4. IInv /\ CleanInv /\ op.pc # "halted" /\ [Next /\ SpineVerifies /\ Uninterrupted]_vars
        => (op.pc # "halted")'
  <2> SUFFICES ASSUME IInv, CleanInv, op.pc # "halted",
                      [Next /\ SpineVerifies /\ Uninterrupted]_vars
               PROVE  op'.pc # "halted"
    OBVIOUS
  <2>1. CASE UNCHANGED vars
    BY <2>1, Zenon DEF vars
  <2>2. CASE Stays \/ Extended \/ Switched \/ WasReset \/ Replays \/ Ended
    <3>1. CASE Ended
      BY <3>1, Zenon DEF Ended, Free
    <3>2. CASE WasReset \/ Replays
      BY <3>2, Zenon DEF WasReset, Replays
    <3>3. CASE Stays \/ Extended \/ Switched
      BY <3>3 DEF Stays, Extended, Switched
    <3> QED
      BY <2>2, <3>1, <3>2, <3>3, Zenon
  <2>3. CASE Restarted /\ ~UNCHANGED vars
    <3>1. op.pc # "replay"
      BY <2>3, Zenon DEF Uninterrupted
    <3>2. disk.state = Chain[disk.tip] /\ Ancestry(tip) \cap WrongRoot = {}
      BY <3>1, Zenon DEF IInv, MemoryInv, CleanInv
    <3>3. disk.tip \notin WrongRoot
      BY <3>1, <3>2, DurableOnChain, Zenon DEF Descends
    <3>4. op' = Free
      BY <2>3, <3>2, <3>3, Zenon DEF Restarted, Restart, BootRootOk
    <3> QED
      BY <3>4 DEF Free
  <2> QED
    BY <2>1, <2>2, <2>3, StepShape, Zenon
<1>5. op.pc # "halted" => Starts
  BY DEF Starts, Halted, Free
<1> QED
  BY <1>1, <1>2, <1>3, <1>4, <1>5, PTL

\* The certified block c is under the floor and on the applied chain; in a
\* replay it is on the chain to come and on the one a rollback brings back.
Settled(c) ==
    /\ c \in certs /\ Height(c) <= floor
    /\ IF op.pc = "replay" THEN Descends(op.saved.tip, c) /\ Descends(op.head, c)
                           ELSE Descends(tip, c)

(* A block under the floor of the applied chain is on every chain that has *)
(* the applied chain's block at the floor.                                 *)
LEMMA UnderFloor ==
  ASSUME NEW t \in Blocks, NEW a \in Blocks, NEW b \in Blocks, NEW c,
         Descends(t, a), Descends(b, a), Descends(t, c), Height(c) <= Height(a)
  PROVE  Descends(a, c) /\ Descends(b, c)
<1>1. c \in Blocks /\ Height(c) \in 0 .. Height(a) /\ At(t, Height(c)) = c
  BY DescendsAt, ChainType
<1>2. At(t, Height(c)) = At(a, Height(c))
  BY <1>1, SameBelow
<1>3. Descends(a, c)
  BY <1>1, <1>2, DescendsAt, ChainType, Zenon
<1> QED
  BY <1>1, <1>3, DescendsOrder, Zenon

(* A settled block stays settled.                                          *)
LEMMA SettledStays ==
  ASSUME ~RestoreFails, NEW c \in Certifiable
  PROVE  IInv /\ IInv' /\ Settled(c) /\ [Next /\ Uninterrupted]_vars => Settled(c)'
<1> SUFFICES ASSUME IInv, IInv', Settled(c), [Next /\ Uninterrupted]_vars PROVE Settled(c)'
  OBVIOUS
<1>1. /\ tip \in Blocks /\ floor \in Nat /\ c \in certs /\ Height(c) <= floor
      /\ c \in Blocks /\ Height(c) \in Nat /\ floor' \in Nat /\ tip' \in Blocks
  BY ChainType, ApplyAssumption, Zenon DEF IInv, TypeInv, Settled
<1>2. ASSUME c \in certs', Height(c) <= floor', op'.pc # "replay", Descends(tip', c)
      PROVE  Settled(c)'
  BY <1>2, ZenonT(30) DEF Settled
<1>3. CASE Stays
  BY <1>1, <1>2, <1>3 DEF Stays, Settled
<1>4. CASE Extended
  <2>1. Descends(tip', tip) /\ Descends(tip, c) /\ floor' = floor /\ certs' = certs
    BY <1>1, <1>4, DescendsOrder, Zenon DEF Extended, Settled
  <2> QED
    BY <1>1, <1>2, <1>4, <2>1, DescendsOrder, Zenon DEF Extended
<1>5. CASE Switched
  <2>1. /\ op.pc = "reapply" /\ op.head \in Blocks /\ op.fork \in Blocks /\ tip' = op.head
        /\ Descends(tip, op.fork) /\ Descends(op.head, op.fork) /\ floor <= Height(op.fork)
    BY <1>5, Zenon DEF Switched, IInv, SwitchInv, LockInv
  <2>2. Descends(op.head, c)
    <3>1. Descends(tip, c) /\ Height(op.fork) \in Nat
      BY <2>1, ChainType, Zenon DEF Settled
    <3>2. Height(c) <= Height(op.fork)
      BY <1>1, <2>1, <3>1
    <3> QED
      BY <1>1, <2>1, <3>1, <3>2, UnderFloor, Zenon
  <2> QED
    BY <1>1, <1>2, <1>5, <2>1, <2>2, Zenon DEF Switched
<1>6. CASE WasReset
  <2>1. /\ Descends(tip, c) /\ op'.pc = "replay" /\ op'.saved.tip = tip /\ op'.head \in Blocks
        /\ floor <= floor' /\ certs' = certs
        /\ floor' > 0 => floor' <= Height(tip) /\ Descends(op'.head, At(tip, floor'))
    BY <1>6, Zenon DEF WasReset, Settled
  <2>2. Height(c) <= floor'
    BY <1>1, <2>1
  <2>3. Descends(op'.head, c)
    <3>1. CASE floor' = 0
      <4>1. c = Genesis
        BY <1>1, <2>2, <3>1, GenesisHeight
      <4> QED
        BY <2>1, <4>1, DescendsOrder
    <3>2. CASE floor' > 0
      <4> DEFINE a == At(tip, floor')
      <4>0. Height(tip) \in Nat
        BY <1>1, ChainType, Zenon
      <4>1. floor' \in 0 .. Height(tip)
        BY <1>1, <2>1, <3>2, <4>0
      <4>2. a \in Blocks /\ Height(a) = floor' /\ Descends(tip, a)
        BY <1>1, <4>1, PrefixChain, DescendsOrder, Zenon
      <4> QED
        <5>1. Descends(op'.head, a)
          BY <2>1, <3>2, Zenon
        <5>2. Height(c) <= Height(a)
          BY <2>2, <4>2, Zenon
        <5> HIDE DEF a
        <5> QED
          BY <1>1, <2>1, <4>2, <5>1, <5>2, UnderFloor, Zenon
    <3> QED
      BY <1>1, <3>1, <3>2
  <2> QED
    BY <1>1, <2>1, <2>2, <2>3, Zenon DEF Settled
<1>7. CASE Replays
  BY <1>1, <1>7, Zenon DEF Replays, Settled
<1>8. CASE Ended
  BY <1>1, <1>2, <1>8, Zenon DEF Ended, Settled, Free
<1>9. CASE Restarted /\ ~(Stays \/ Replays)
  <2>1. op.pc # "replay"
    <3>1. CASE UNCHANGED vars
      <4>1. op' = op /\ tip' = tip /\ floor' = floor /\ certs' = certs
        BY <3>1 DEF vars, applied, finality
      <4> QED
        BY <1>1, <1>9, <4>1 DEF Stays, Replays
    <3>2. CASE Uninterrupted
      BY <1>9, <3>2 DEF Uninterrupted
    <3> QED
      BY <3>1, <3>2, Zenon
  <2>2. Descends(disk.tip, c) /\ disk.tip \in Blocks
    <3>1. disk.tip \in Blocks /\ Descends(tip, disk.tip) /\ Descends(tip, c)
      BY <2>1, DurableOnChain DEF Settled
    <3>2. CASE disk.tip # tip
      <4>1. Height(c) <= Height(disk.tip)
        BY <1>1, <2>1, <3>1, <3>2, DurableOnChain, ChainType
      <4> QED
        BY <1>1, <3>1, <4>1, UnderFloor, ZenonT(30)
    <3>3. CASE disk.tip = tip
      BY <3>1, <3>3, Zenon
    <3> QED
      BY <3>1, <3>2, <3>3, Zenon
  <2>3. /\ tip' = disk.tip /\ certs' = certs /\ op' \in {Free, Halted}
        /\ floor' = Max({0} \cup {Height(x) : x \in certs \cap Ancestry(disk.tip)})
    BY <1>9, Zenon DEF Restarted, Restart, Restored
  <2>4. certs \subseteq Blocks
    BY ApplyAssumption, Zenon DEF IInv, TypeInv
  <2>5. Height(c) <= floor'
    BY <1>1, <2>2, <2>3, <2>4, RestoredFloor, Zenon DEF Descends
  <2> QED
    BY <1>1, <1>2, <2>2, <2>3, <2>5 DEF Free, Halted
<1> QED
  BY <1>3, <1>4, <1>5, <1>6, <1>7, <1>8, <1>9, StepShape, Zenon

(* A certified block the floor has covered stays applied, over reorgs,     *)
(* aborted switches, rebuilds, rollbacks, failed writes and restarts, as   *)
(* long as the node does not crash in the replay of a rebuild (I4).        *)
THEOREM FinalStays ==
  ASSUME ~RestoreFails
  PROVE  Init /\ [][Next /\ Uninterrupted]_vars => FinalKept
<1>1. Init => IInv
  BY InitInv
<1>2. IInv /\ [Next /\ Uninterrupted]_vars => IInv'
  BY NextKeeps
<1>3. ASSUME NEW c \in Certifiable
      PROVE  Init /\ [][Next /\ Uninterrupted]_vars =>
               [](Final(c) => [](op = Free => Descends(tip, c) \/ Descends(c, tip)))
  <2>1. IInv /\ IInv' /\ Settled(c) /\ [Next /\ Uninterrupted]_vars => Settled(c)'
    BY SettledStays, Zenon
  <2>2. IInv /\ Final(c) => Settled(c)
    <3> SUFFICES ASSUME IInv, Final(c) PROVE Settled(c)
      BY Zenon
    <3>1. /\ c \in certs /\ op.pc = "free" /\ floor >= Height(c) /\ Descends(tip, c)
          /\ floor \in Nat /\ Height(c) \in Nat
      BY ChainType, ApplyAssumption, Zenon DEF Final, Free, IInv, TypeInv
    <3> QED
      BY <3>1 DEF Settled
  <2>3. Settled(c) => (op = Free => Descends(tip, c) \/ Descends(c, tip))
    BY DEF Settled, Free
  <2> QED
    BY <1>1, <1>2, <2>1, <2>2, <2>3, PTL
<1> QED
  BY <1>3 DEF FinalKept
=============================================================================
