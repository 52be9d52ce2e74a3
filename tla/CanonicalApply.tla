--------------------------- MODULE CanonicalApply ---------------------------
(***************************************************************************)
(* The execute-on-receive driver of one node: the applied chain in memory  *)
(* (tip, executor state, ring of snapshots), its durable image, and every  *)
(* way it moves: forward drain, in-memory reorg, from-genesis rebuild,     *)
(* block production, the certified reorg floor, and a crash with restart.  *)
(*                                                                         *)
(* One lock, the state-advance lock, serialises the drain, the reorg, the  *)
(* rebuild and the producer; op is what its holder is doing.  Every write  *)
(* to disk is one atomic batch and one step, so that a crash can come      *)
(* between any two of them; in-memory work between two writes is not       *)
(* visible to anyone and is folded into the step that follows it.  Storing *)
(* a received block, registering a certificate and the walk of a floor     *)
(* check happen outside the lock.                                          *)
(***************************************************************************)
EXTENDS BlockTree, FiniteSetsExt, Functions

CONSTANTS
    Tx,           \* the transaction each block (but Genesis) carries
    Depth,        \* MAX_REORG_DEPTH: heights below the tip the ring keeps
    ForwardCap,   \* MAX_REORG_FORWARD: longest branch a reorg collects
    RecheckSteps, \* FLOOR_RECHECK_MAX_STEPS
    Chunk,        \* RECEIPT_RECONCILE_CHUNK, in blocks
    PruneFloor,   \* the pruning floor of the DAG store, 0 when unpruned
    Loaded,       \* the blocks stored when the run starts
    Arriving,     \* the blocks peers may send
    Own,          \* the blocks this node may produce
    Certifiable,  \* the blocks a committee quorum may certify
    MaxFaults,    \* bound on failed disk writes
    RestoreFails, \* whether the write that undoes an aborted switch may fail
    MaxCrashes    \* bound on crashes

ASSUME ApplyAssumption ==
    /\ Depth \in Nat \ {0} /\ ForwardCap \in Nat \ {0} /\ Chunk \in Nat \ {0}
    /\ RecheckSteps \in Nat /\ PruneFloor \in Nat
    /\ MaxFaults \in Nat /\ MaxCrashes \in Nat /\ RestoreFails \in BOOLEAN
    /\ DOMAIN Tx = Blocks \ {Genesis}
    /\ Genesis \in Loaded
    /\ Loaded \cup Arriving \cup Own \cup Certifiable \subseteq Blocks
    /\ Own \cap WrongRoot = {}   \* the producer commits to the root it computed

\* No chain executes a transaction twice (its nonce is used up).
ASSUME TxAssumption ==
    \A b \in Blocks : \A x, y \in Ancestry(b) \ {Genesis} : Tx[x] = Tx[y] => x = y

VARIABLES
    stored,     \* the blocks in the block store
    hydrated,   \* whether the DAG's tip set is authoritative since the start
    startup,    \* whether the start-up recovery task still runs
    top,        \* the top stored height when the node started
    tip,        \* AppliedState.tip
    world,      \* the executor's state in memory
    ring,       \* AppliedState.snapshots: height -> [hash, state]
    disk,       \* what survives a crash: [tip, state, receipts, undo, marker]
    op,         \* what the holder of the advance lock is doing
    wanted,     \* the head a rebuild has been asked for, or NoBlock
    rebuilding, \* rebuild_in_progress
    floor,      \* finalized_height, the reorg floor
    pending,    \* certified_pending, the registered certificates
    certs,      \* the certificates this node has stored
    check,      \* the floor check between its walk and its verdict
    faults,     \* failed writes so far
    crashes     \* crashes so far

applied == <<tip, world, ring>>
finality == <<floor, pending, certs, check>>
boot == <<hydrated, startup, top>>
vars == <<stored, boot, applied, disk, op, wanted, rebuilding, finality,
          faults, crashes>>

Txs == Range(Tx)
Free == [pc |-> "free", by |-> "none", head |-> NoBlock, fork |-> NoBlock,
         saved |-> <<>>, residual |-> {}]
Halted == [Free EXCEPT !.pc = "halted"]   \* the process refused to start
NoCheck == [block |-> NoBlock, tip |-> NoBlock]
Scrambled == <<Genesis>>   \* a stored state that is no block's state

\* A map with one entry, and map f with the entries of map g put over its own.
Entry(h, e) == [k \in {h} |-> e]
Put(f, g) == [h \in DOMAIN f \cup DOMAIN g |-> IF h \in DOMAIN g THEN g[h] ELSE f[h]]

Init ==
    /\ stored = Loaded
    /\ hydrated = FALSE
    /\ startup = TRUE
    /\ top = Max({Height(b) : b \in Loaded})
    /\ tip = Genesis
    /\ world = <<>>
    /\ ring = Entry(0, [hash |-> Genesis, state |-> <<>>])
    /\ disk = [tip |-> Genesis, state |-> <<>>, receipts |-> [t \in Txs |-> NoBlock],
               undo |-> <<>>, marker |-> NoBlock]
    /\ op = Free
    /\ wanted = NoBlock
    /\ rebuilding = FALSE
    /\ floor = 0
    /\ pending = {}
    /\ certs = {}
    /\ check = NoCheck
    /\ faults = 0
    /\ crashes = 0

-----------------------------------------------------------------------------
\* Disk writes.

\* Whether a write may succeed or fail now.
Outcomes == IF faults < MaxFaults THEN BOOLEAN ELSE {TRUE}
RestoreOutcomes == IF RestoreFails THEN Outcomes ELSE {TRUE}
Count(ok) == faults' = IF ok THEN faults ELSE faults + 1
Count2(ok, restored) ==
    /\ faults' = faults + (IF ok THEN 0 ELSE 1) + (IF restored THEN 0 ELSE 1)
    /\ faults' <= MaxFaults

\* Heights of the undo records and ring entries kept at tip height t.
InUndoWindow(undo, t) == Restrict(undo, {h \in DOMAIN undo : h <= t /\ h + Depth > t})
InRing(r, t) == Restrict(r, {h \in DOMAIN r : h <= t /\ h + Depth >= t})

\* The receipt index with the entries of blocks bs added, or removed: an entry
\* is removed only while it names the block it is removed for.
WithReceipts(index, bs) ==
    [t \in Txs |-> IF \E b \in bs : Tx[b] = t THEN CHOOSE b \in bs : Tx[b] = t
                                               ELSE index[t]]
WithoutReceipts(index, bs) ==
    [t \in Txs |-> IF index[t] \in bs THEN NoBlock ELSE index[t]]
\* The blocks of bs whose receipts the index holds: what an abort puts back.
IndexedNone(index, bs) == {}   \* mutant: an abort puts no receipt back
Indexed(index, bs) == {b \in bs : index[Tx[b]] = b}

\* The write of one executed block: its changes on top of the stored state,
\* the tip, its receipts (receipts = {} for a produced block) and its undo
\* record, which holds the stored state it replaces.
WriteBlock(b, receipts) ==
    [disk EXCEPT
        !.tip = b,
        !.state = Append(@, b),
        !.receipts = WithReceipts(@, receipts),
        !.undo = InUndoWindow(Put(@, Entry(Height(b), [hash |-> b, parent |-> disk.tip,
                                                       pre |-> disk.state])), Height(b))]

\* reconcile_store_from: write the difference between base and cur.  It leaves
\* cur in the store when the store held base (or cur already), and a mixture
\* of the two otherwise.
ReconcileKeepsTip(base, cur, b, index) ==   \* mutant: the durable tip stays behind
    [disk EXCEPT !.state = IF @ \in {base, cur} THEN cur ELSE Scrambled, !.receipts = index]
Reconcile(base, cur, b, index) ==
    [disk EXCEPT
        !.tip = b,
        !.state = IF @ \in {base, cur} THEN cur ELSE Scrambled,
        !.receipts = index]

\* AppliedState::record
RecordEarly(b, s) ==   \* mutant: the snapshot is taken before the block runs
    InRing(Put(ring, Entry(Height(b), [hash |-> b, state |-> world])), Height(b))
Record(b, s) == InRing(Put(ring, Entry(Height(b), [hash |-> b, state |-> s])), Height(b))

Unlock == op' = Free
EndRebuild == wanted' = NoBlock /\ rebuilding' = FALSE

-----------------------------------------------------------------------------
\* Fork choice: GhostDag::select_tip, the heaviest of the stored blocks.  Until
\* the DAG has hydrated after a start it may name any connected stored block.

Connected == {b \in stored : Ancestry(b) \subseteq stored}
Heaviest == CHOOSE b \in Connected : \A c \in Connected \ {b} : Outranks(b, c)
ForkChoice == IF hydrated THEN {Heaviest} ELSE Connected

Hydrate ==
    /\ ~hydrated
    /\ op # Halted
    /\ hydrated' = TRUE
    /\ UNCHANGED <<stored, startup, top, applied, disk, op, wanted, rebuilding, finality, faults, crashes>>

\* A received block is stored before the driver runs; blocks come in any order.
PutBlock(b) ==
    /\ op # Halted
    /\ b \in Arriving \ stored
    /\ stored' = stored \cup {b}
    /\ UNCHANGED <<boot, applied, disk, op, wanted, rebuilding, finality, faults, crashes>>

-----------------------------------------------------------------------------
\* The floor.

\* effective_floor: the floor, raised to the highest registered certificate
\* whose block is canonical.  Heights below the ring are read only if walk.
CanonicalHere(h, walk) ==
    IF h \in DOMAIN ring THEN ring[h].hash
    ELSE IF walk THEN At(tip, h) ELSE NoBlock
EffectiveFloorByHeight(walk) ==   \* mutant: the certified hash is not compared
    Max({floor} \cup {Height(c) : c \in {c \in pending : Height(c) <= Height(tip)}})
EffectiveFloor(walk) ==
    Max({floor} \cup {Height(c) : c \in
          {c \in pending : /\ Height(c) > floor /\ Height(c) <= Height(tip)
                           /\ CanonicalHere(Height(c), walk) = c}})
RaiseFloor(to) ==
    /\ floor' = Max({floor, to})
    /\ pending' = {c \in pending : Height(c) > to}

\* register_certified
Registered(b) == IF Height(b) <= floor THEN pending ELSE pending \cup {b}

\* A quorum certificate is verified and stored, and its block registered.
Finalize(b) ==
    /\ op # Halted
    /\ b \in Certifiable \ certs
    /\ certs' = certs \cup {b}
    /\ pending' = Registered(b)
    /\ UNCHANGED <<stored, boot, applied, disk, op, wanted, rebuilding, floor, check,
                   faults, crashes>>

\* verify_certified_floor, first half: read the tip under the lock, then walk
\* its headers outside it.
CheckWalk(b) ==
    /\ check = NoCheck
    /\ op = Free
    /\ b \in certs
    /\ Height(b) <= Height(tip)
    /\ pending' = Registered(b)
    /\ check' = [block |-> b, tip |-> tip]
    /\ UNCHANGED <<stored, boot, applied, disk, op, wanted, rebuilding, floor, certs,
                   faults, crashes>>

\* Whether the walked tip is still the tip, or the tip extends it.
Unmoved ==
    \/ tip = check.tip
    \/ /\ Height(tip) > Height(check.tip)
       /\ Height(tip) - Height(check.tip) <= RecheckSteps
       /\ Descends(tip, check.tip)

\* Second half, under the lock: only if the walked chain is still applied is
\* its verdict used, and the floor raised before the lock is released.  A
\* chain that moved is walked again (another CheckWalk).
CheckConfirm ==
    /\ check # NoCheck
    /\ op = Free
    /\ IF Unmoved /\ At(check.tip, Height(check.block)) = check.block
         THEN RaiseFloor(Height(check.block))
         ELSE UNCHANGED <<floor, pending>>
    /\ check' = NoCheck
    /\ UNCHANGED <<stored, boot, applied, disk, op, wanted, rebuilding, certs, faults,
                   crashes>>

-----------------------------------------------------------------------------
\* The drain: apply_received and drive_drain.

\* Take the lock and start to drain.  The receive path defers to the drain
\* while a rebuild is in progress.
Drain(by) ==
    /\ op = Free
    /\ by = "receive" => ~rebuilding
    /\ op' = [Free EXCEPT !.pc = "drain", !.by = by]
    /\ UNCHANGED <<stored, boot, applied, disk, wanted, rebuilding, finality, faults,
                   crashes>>

\* next_persisted_extension: the stored children of the tip on its chain.
Extensions == {b \in stored \ {Genesis} : Parent[b] = tip}

\* drain_forward: apply the one stored extension of the tip and persist it,
\* until there is none, there are several, or one is rejected.
DrainForward(ok) ==
    /\ op.pc = "drain"
    /\ IF \E b \in Extensions : Extensions = {b} /\ Reproduces(world, b)
         THEN LET b == CHOOSE b \in Extensions : TRUE IN
              /\ Count(ok)
              /\ IF ok
                   THEN /\ world' = Append(world, b)
                        /\ disk' = WriteBlock(b, {b})
                        /\ tip' = b
                        /\ ring' = Record(b, world')
                        /\ UNCHANGED op
                   ELSE op' = [op EXCEPT !.pc = "choose"] /\ UNCHANGED <<applied, disk>>
         ELSE /\ ok
              /\ op' = [op EXCEPT !.pc = "choose"]
              /\ UNCHANGED <<applied, disk, faults>>
    /\ UNCHANGED <<stored, boot, wanted, rebuilding, finality, crashes>>

\* After the drain, follow fork choice.
FollowForkChoice(best) ==
    /\ op.pc = "choose"
    /\ best \in ForkChoice
    /\ IF best = tip THEN Unlock ELSE op' = [op EXCEPT !.pc = "reorg", !.head = best]
    /\ UNCHANGED <<stored, boot, applied, disk, wanted, rebuilding, finality, faults,
                   crashes>>

-----------------------------------------------------------------------------
\* The in-memory reorg: reorg_to.

\* The walk of target's ancestry down to the first block the ring holds (the
\* fork point).  It ends earlier at a block that is not stored, at the bottom
\* of the ring's window, or when the branch is too long to collect.
RevertFloor == IF Height(tip) > Depth THEN Height(tip) - Depth ELSE 0
Retained(b, h) == h \in DOMAIN ring /\ ring[h].hash = At(b, h)
WalkEnd(target) ==
    Max({h \in 0 .. Height(target) :
            \/ Retained(target, h)
            \/ At(target, h) \notin stored
            \/ h <= RevertFloor
            \/ Height(target) - h >= ForwardCap})
ReorgWalk(target) ==
    LET h == WalkEnd(target) IN
    CASE Descends(tip, target) -> "nochange"
      [] OTHER -> IF At(target, h) \notin stored THEN "rejected"
                  ELSE IF Retained(target, h) THEN "fork" ELSE "beyond"

\* forward_step_toward: a head past the forward cap that extends the tip is
\* approached in steps the reorg can collect.
ForwardStep(head) ==
    At(head, Min({Height(head), Height(tip) + ForwardCap - 1}))

\* What the caller of reorg_to does with its outcome, given the reorg floor it
\* sees.  The drain falls back to a forward step or asks for a rebuild (only
\* once the DAG has hydrated); the rebuild goes on if the fork was out of the
\* window, or the in-place switch failed above the floor on an unpruned node.
GoesOn(outcome, at) ==
    \/ outcome = "beyond"
    \/ outcome = "rejected" /\ PruneFloor = 0 /\ Height(op.fork) >= at
After(outcome, at) ==
    CASE op.by = "drive" /\ outcome = "beyond" ->
           IF Descends(op.head, tip) /\ ForwardStep(op.head) # tip
             THEN /\ op' = [op EXCEPT !.by = "step", !.head = ForwardStep(op.head)]
                  /\ UNCHANGED <<wanted, rebuilding>>
             ELSE /\ Unlock
                  /\ wanted' = IF wanted = NoBlock /\ hydrated THEN op.head ELSE wanted
                  /\ UNCHANGED rebuilding
      [] op.by = "rebuild" ->
           IF GoesOn(outcome, at)
             THEN op' = [op EXCEPT !.pc = "guard"] /\ UNCHANGED <<wanted, rebuilding>>
             ELSE Unlock /\ EndRebuild
      [] OTHER -> Unlock /\ UNCHANGED <<wanted, rebuilding>>

\* Find the fork point, hold it against the floor, and revert memory and disk
\* to it in one batch: the abandoned receipts leave with the tip.
ReorgTo(ok) ==
    /\ op.pc = "reorg"
    /\ LET walk == ReorgWalk(op.head)
           at   == WalkEnd(op.head)
           lost == Above(tip, at)
       IN IF walk # "fork"
            THEN /\ ok
                 /\ After(walk, EffectiveFloor(FALSE))
                 /\ UNCHANGED <<floor, pending>>
                 /\ UNCHANGED <<world, disk, faults>>
            ELSE /\ RaiseFloor(EffectiveFloor(FALSE))
                 /\ IF at < EffectiveFloor(FALSE)
                      THEN /\ ok
                           /\ After("rejected", EffectiveFloor(FALSE))
                           /\ UNCHANGED <<world, disk, faults>>
                      ELSE /\ Count(ok)
                           /\ IF ok
                                THEN /\ world' = ring[at].state
                                     /\ disk' = Reconcile(world, world', ring[at].hash,
                                                          WithoutReceipts(disk.receipts, lost))
                                     /\ op' = [op EXCEPT !.pc = "reapply", !.fork = ring[at].hash,
                                                         !.saved = [world |-> world,
                                                           kept |-> Indexed(disk.receipts, lost)]]
                                     /\ UNCHANGED <<wanted, rebuilding>>
                                ELSE /\ After("rejected", EffectiveFloor(FALSE))
                                     /\ UNCHANGED <<world, disk>>
    /\ UNCHANGED <<stored, boot, tip, ring, certs, check, crashes>>

\* The branch from the fork point to the head, in order, and its states.
Branch == Above(op.head, Height(op.fork))
BranchUndo ==
    [h \in {Height(b) : b \in Branch} |->
        [hash |-> At(op.head, h), parent |-> At(op.head, h - 1), pre |-> Chain[At(op.head, h - 1)]]]

\* Undo a switch that failed after the revert: memory, then the store.  A
\* rebuild settles the floor again before it judges whether to go on.
AbortMemoryOnly(restored) ==   \* mutant: the store is left at the fork point
    /\ world' = op.saved.world
    /\ After("rejected", EffectiveFloor(FALSE))
    /\ UNCHANGED <<tip, ring, disk, floor, pending>>
Abort(restored) ==
    /\ world' = op.saved.world
    /\ disk' = IF restored
                 THEN Reconcile(world, op.saved.world, tip,
                                WithReceipts(disk.receipts, op.saved.kept))
                 ELSE disk
    /\ After("rejected", EffectiveFloor(FALSE))
    /\ IF op.by = "rebuild" THEN RaiseFloor(EffectiveFloor(FALSE)) ELSE UNCHANGED <<floor, pending>>
    /\ UNCHANGED <<tip, ring>>

\* Whether the branch re-executes from the fork point with the root of each block.
BranchExecutes == \A b \in Branch : b \notin Unexecutable   \* mutant: roots are trusted
BranchVerifies ==
    world = Chain[op.fork] /\ \A b \in Branch : b \notin WrongRoot \cup Unexecutable

\* Re-execute the branch in memory, checking every root; commit it in one batch
\* with its receipts and undo records, or abort.
Reapply(ok, restored) ==
    /\ op.pc = "reapply"
    /\ LET head == op.head
       IN IF BranchVerifies /\ ok
            THEN /\ restored
                 /\ world' = Chain[head]
                 /\ disk' = [Reconcile(world, world', head, WithReceipts(disk.receipts, Branch))
                               EXCEPT !.undo = InUndoWindow(Put(@, BranchUndo), Height(head))]
                 /\ tip' = head
                 /\ ring' = InRing(Put(ring, [h \in DOMAIN BranchUndo |->
                                      [hash |-> At(head, h), state |-> Chain[At(head, h)]]]),
                                   Height(head))
                 /\ After("reorged", 0)
                 /\ UNCHANGED <<floor, pending, faults>>
            ELSE /\ ~BranchVerifies => ok
                 /\ Count2(ok, restored)
                 /\ Abort(restored)
    /\ UNCHANGED <<stored, boot, certs, check, crashes>>

-----------------------------------------------------------------------------
\* The from-genesis rebuild: recover_automatic.

\* At start-up a task waits until fork choice reaches the top stored height of
\* the start, and asks for a rebuild unless the applied tip is on the head's
\* chain (the drain then advances it).
StartupRecover(head) ==
    /\ op # Halted
    /\ startup
    /\ head \in ForkChoice
    /\ Height(head) >= top
    /\ IF Descends(head, tip)
         THEN startup' = FALSE /\ UNCHANGED wanted
         ELSE wanted = NoBlock /\ wanted' = head /\ UNCHANGED startup
    /\ UNCHANGED <<stored, hydrated, top, applied, disk, op, rebuilding, finality, faults, crashes>>

\* recover_guarded: one rebuild at a time, and only if fork choice still names
\* the head it was asked for.
RecoverGuarded(head) ==
    /\ op # Halted
    /\ wanted # NoBlock
    /\ ~rebuilding
    /\ head \in ForkChoice
    /\ rebuilding' = (head = wanted)
    /\ wanted' = IF head = wanted THEN wanted ELSE NoBlock
    /\ UNCHANGED <<stored, boot, applied, disk, op, finality, faults, crashes>>

\* interrupted_rebuild_cleanup: the receipts of the marked old chain that is
\* not on the durable applied chain leave, and the marker with them.
Cleaned(d) ==
    IF d.marker = NoBlock THEN d
    ELSE [d EXCEPT !.receipts = WithoutReceipts(@, Ancestry(d.marker) \ Ancestry(d.tip)),
                   !.marker = NoBlock]

\* rebuild_target's fork point: the highest block of the head's ancestry on
\* the applied chain.
PlanFork(head) ==
    At(head, Max({h \in 0 .. Height(head) : Descends(tip, At(head, h))}))

\* rebuild_target and rebuild_decision: the head forks off below the tip (or
\* the tip is genesis) on a stored ancestry, is strictly heavier than the tip,
\* and on a pruned node its fork point is in the ring.
RebuildAllowedInWindow(head) ==   \* mutant: the pruned node's rule for every node
    /\ PlanFork(head) # head /\ Score[head] > Score[tip]
    /\ Height(PlanFork(head)) \in DOMAIN ring
RebuildAllowed(head) ==
    LET fork == PlanFork(head) IN
    /\ Above(head, Height(fork)) \subseteq stored
    /\ fork # head
    /\ fork = tip => tip = Genesis
    /\ Score[head] > Score[tip]
    /\ PruneFloor > 0 => Height(fork) \in DOMAIN ring

\* recover_to_head_inner up to its first write: settle an earlier rebuild's
\* receipts, judge the target, and try to switch in place if the ring holds
\* the fork point.
RecoverToHead(ok) ==
    /\ rebuilding
    /\ op = Free
    /\ disk.marker = NoBlock => ok
    /\ Count(ok)
    /\ disk' = IF ok THEN Cleaned(disk) ELSE disk
    /\ IF ok /\ tip # wanted /\ RebuildAllowed(wanted)
         THEN /\ op' = [Free EXCEPT
                          !.pc = IF Height(PlanFork(wanted)) \in DOMAIN ring THEN "reorg" ELSE "guard",
                          !.by = "rebuild", !.head = wanted, !.fork = PlanFork(wanted)]
              /\ UNCHANGED <<wanted, rebuilding>>
         ELSE op' = op /\ EndRebuild
    /\ UNCHANGED <<stored, boot, applied, finality, crashes>>

\* The receipt removals of one batch, from the highest block down.
FirstChunk(bs) == {b \in bs : Cardinality({c \in bs : Height(c) > Height(b)}) < Chunk}

\* I4 on the rebuild path, then the reset: memory, store and durable tip go to
\* genesis in one batch that marks the old tip and removes the first chunk of
\* the abandoned receipts.
ResetToGenesis(ok) ==
    /\ op.pc = "guard"
    /\ LET to   == EffectiveFloor(TRUE)
           lost == Above(tip, Height(op.fork))
       IN /\ RaiseFloor(to)
          /\ IF to > 0 /\ to <= Height(tip) /\ ~Descends(op.head, At(tip, to))
               THEN /\ ok /\ Unlock /\ EndRebuild
                    /\ UNCHANGED <<applied, disk, faults>>
               ELSE /\ Count(ok)
                    /\ IF ok
                         THEN /\ world' = <<>>
                              /\ disk' = [Reconcile(world, <<>>, Genesis,
                                                    WithoutReceipts(disk.receipts, FirstChunk(lost)))
                                            EXCEPT !.marker = tip]
                              /\ tip' = Genesis
                              /\ ring' = Entry(0, [hash |-> Genesis, state |-> <<>>])
                              /\ op' = [op EXCEPT !.pc = "replay", !.residual = lost \ FirstChunk(lost),
                                          !.saved = [tip |-> tip, world |-> world, ring |-> ring,
                                                     kept |-> Indexed(disk.receipts, lost),
                                                     had |-> Indexed(disk.receipts,
                                                               Above(op.head, Height(op.fork)))]]
                              /\ UNCHANGED <<wanted, rebuilding>>
                         ELSE Unlock /\ EndRebuild /\ UNCHANGED <<applied, disk>>
    /\ UNCHANGED <<stored, boot, certs, check, crashes>>

\* Roll back a rebuild that did not converge: memory, ring, store, receipts and
\* durable tip as they were, the marker cleared in the same batch.
RollBack(restored) ==
    /\ tip' = op.saved.tip
    /\ world' = op.saved.world
    /\ ring' = op.saved.ring
    /\ disk' = IF restored
                 THEN [Reconcile(world, op.saved.world, op.saved.tip,
                         WithReceipts(WithoutReceipts(disk.receipts,
                                        Above(op.head, Height(op.fork)) \ op.saved.had),
                                      op.saved.kept)) EXCEPT !.marker = NoBlock]
                 ELSE disk
    /\ Unlock
    /\ EndRebuild

\* The abandoned receipts beyond the first chunk, one batch each.
RemoveResidual(ok, restored) ==
    /\ op.pc = "replay"
    /\ op.residual # {}
    /\ Count2(ok, restored)
    /\ IF ok
         THEN /\ restored
              /\ disk' = [disk EXCEPT !.receipts = WithoutReceipts(@, FirstChunk(op.residual))]
              /\ op' = [op EXCEPT !.residual = @ \ FirstChunk(@)]
              /\ UNCHANGED <<applied, wanted, rebuilding>>
         ELSE RollBack(restored)
    /\ UNCHANGED <<stored, boot, finality, crashes>>

\* Replay the head's chain block by block, trusting the roots on the way.
Replay(ok, restored) ==
    /\ op.pc = "replay"
    /\ op.residual = {}
    /\ tip # op.head
    /\ LET b == At(op.head, Height(tip) + 1) IN
       IF ok /\ b \notin Unexecutable
         THEN /\ restored
              /\ world' = Append(world, b)
              /\ disk' = WriteBlock(b, {b})
              /\ tip' = b
              /\ ring' = Record(b, world')
              /\ UNCHANGED <<op, wanted, rebuilding, faults>>
         ELSE /\ b \in Unexecutable => ok
              /\ Count2(ok, restored)
              /\ RollBack(restored)
    /\ UNCHANGED <<stored, boot, finality, crashes>>

\* The head reached: its root is the one check of the whole replay.  A marker
\* that cannot be cleared is left for the next cleanup.
Converge(ok, restored) ==
    /\ op.pc = "replay"
    /\ tip = op.head
    /\ IF world = Chain[tip] /\ tip \notin WrongRoot
         THEN /\ restored
              /\ Count(ok)
              /\ disk' = IF ok THEN [disk EXCEPT !.marker = NoBlock] ELSE disk
              /\ Unlock /\ EndRebuild
              /\ UNCHANGED applied
         ELSE ok /\ Count2(TRUE, restored) /\ RollBack(restored)
    /\ UNCHANGED <<stored, boot, finality, crashes>>

-----------------------------------------------------------------------------
\* The producer (produce_block), under the same lock from start to end.

\* Seal a block on the applied tip, if that is also the parent fork choice
\* selects, the node is not rebuilding and the DAG has hydrated; store it.
Produce(b) ==
    /\ op = Free
    /\ ~rebuilding
    /\ hydrated
    /\ b \in Own \ stored
    /\ Parent[b] = tip
    /\ tip \in ForkChoice
    /\ stored' = stored \cup {b}
    /\ op' = [Free EXCEPT !.pc = "sealed", !.by = "produce", !.head = b]
    /\ UNCHANGED <<boot, applied, disk, wanted, rebuilding, finality, faults, crashes>>

\* Persist its state with the tip, then record it in memory.
PersistSealed(ok) ==
    /\ op.pc = "sealed"
    /\ Count(ok)
    /\ IF ok
         THEN /\ world' = Append(world, op.head)
              /\ disk' = WriteBlock(op.head, {})
              /\ tip' = op.head
              /\ ring' = Record(op.head, world')
              /\ op' = [op EXCEPT !.pc = "receipts"]
         ELSE Unlock /\ UNCHANGED <<applied, disk>>
    /\ UNCHANGED <<stored, boot, wanted, rebuilding, finality, crashes>>

\* put_receipts, a batch of its own.
PutReceipts(ok) ==
    /\ op.pc = "receipts"
    /\ Count(ok)
    /\ disk' = IF ok THEN [disk EXCEPT !.receipts = WithReceipts(@, {op.head})] ELSE disk
    /\ Unlock
    /\ UNCHANGED <<stored, boot, applied, wanted, rebuilding, finality, crashes>>

-----------------------------------------------------------------------------
\* A crash and the next start.

\* restore_reorg_window: the heights below the tip that the undo records give
\* back.  The walk ends at the first record that does not name the block and
\* the parent it stands on, or whose state is not the one the parent commits to.
UndoGood(d, h) ==
    LET b == At(d.tip, h) p == At(d.tip, h - 1) IN
    /\ h \in DOMAIN d.undo
    /\ d.undo[h].hash = b
    /\ d.undo[h].parent = p
    /\ p \in stored
    /\ d.undo[h].pre = Chain[p] /\ p \notin WrongRoot
Restorable(d) ==
    {h \in 0 .. Height(d.tip) - 1 :
        /\ h + Depth >= Height(d.tip)
        /\ \A k \in (h + 1) .. Height(d.tip) : UndoGood(d, k)}

\* The floor and the registered certificates after the boot check: the highest
\* stored certificate on the applied chain, and every one above it.
RestoredForgets(d) == [floor |-> 0, pending |-> {}]   \* mutant: both start empty
Restored(d) ==
    LET h == Max({0} \cup {Height(c) : c \in certs \cap Ancestry(d.tip)})
    IN [floor |-> h, pending |-> {c \in certs : Height(c) > h}]

\* The boot check of the state: the loaded state must have the root the durable
\* tip commits to, or the node refuses to start.
BootRootOk(d) == d.state = Chain[d.tip] /\ d.tip \notin WrongRoot

\* CanonicalApplicator::new and the boot check of the floor: the durable tip
\* and state, a ring restored as far as the time budget allows, the receipts
\* settled unless that write fails, and the floor restored.
Restart(ok) ==
    /\ crashes < MaxCrashes
    /\ crashes' = crashes + 1
    /\ disk.marker = NoBlock \/ ~BootRootOk(disk) => ok
    /\ Count(ok)
    /\ disk' = IF ok /\ BootRootOk(disk) THEN Cleaned(disk) ELSE disk
    /\ op' = IF BootRootOk(disk) THEN Free ELSE Halted
    /\ tip' = disk.tip
    /\ world' = disk.state
    /\ \E low \in Restorable(disk) \cup {Height(disk.tip)} :
         ring' = Put([h \in low .. (Height(disk.tip) - 1) |->
                        [hash |-> At(disk.tip, h), state |-> disk.undo[h + 1].pre]],
                     Entry(Height(disk.tip), [hash |-> disk.tip, state |-> disk.state]))
    /\ floor' = Restored(disk).floor
    /\ pending' = Restored(disk).pending
    /\ check' = NoCheck
    /\ hydrated' = FALSE
    /\ startup' = TRUE
    /\ top' = Max({Height(b) : b \in stored})
    /\ wanted' = NoBlock
    /\ rebuilding' = FALSE
    /\ UNCHANGED <<stored, certs>>

-----------------------------------------------------------------------------
\* What the holder of the lock does next, until it releases it.
HolderStep ==
    \/ \E b \in Blocks : FollowForkChoice(b)
    \/ \E ok \in Outcomes : DrainForward(ok) \/ ReorgTo(ok) \/ ResetToGenesis(ok)
                              \/ PersistSealed(ok) \/ PutReceipts(ok)
    \/ \E ok \in Outcomes, restored \in RestoreOutcomes :
         Reapply(ok, restored) \/ RemoveResidual(ok, restored) \/ Replay(ok, restored)
           \/ Converge(ok, restored)

Next ==
    \/ HolderStep
    \/ Hydrate
    \/ \E b \in Blocks : PutBlock(b) \/ Finalize(b) \/ CheckWalk(b) \/ Produce(b)
    \/ CheckConfirm
    \/ \E by \in {"receive", "drive"} : Drain(by)
    \/ \E b \in Blocks : StartupRecover(b) \/ RecoverGuarded(b)
    \/ \E ok \in Outcomes : RecoverToHead(ok) \/ Restart(ok)

Spec == Init /\ [][Next]_vars

\* Every task runs on; the lock is a FIFO tokio Mutex, so a waiter that finds it
\* free again and again gets it.  No fairness for arrivals, certificates,
\* production, crashes or faults.
LiveSpec ==
    /\ Spec
    /\ WF_vars(HolderStep) /\ WF_vars(Hydrate)
    /\ WF_vars(\E b \in Blocks : RecoverGuarded(b))
    /\ SF_vars(Drain("drive")) /\ SF_vars(\E ok \in Outcomes : RecoverToHead(ok))

-----------------------------------------------------------------------------
\* Properties.

\* Every variable has its type; the ring spans at most Depth heights below the
\* tip and holds the tip itself whenever the lock is free (AppliedState::record).
TypeOK ==
    /\ stored \subseteq Blocks /\ tip \in Blocks /\ wanted \in Blocks \cup {NoBlock}
    /\ hydrated \in BOOLEAN /\ startup \in BOOLEAN /\ rebuilding \in BOOLEAN
    /\ top \in Nat /\ floor \in Nat
    /\ pending \subseteq certs /\ certs \subseteq Certifiable
    /\ disk.tip \in Blocks /\ disk.marker \in Blocks \cup {NoBlock}
    /\ disk.receipts \in [Txs -> Blocks \cup {NoBlock}]
    /\ \A g, h \in DOMAIN disk.undo : g < h + Depth
    /\ Height(tip) \in DOMAIN ring
    /\ \A h \in DOMAIN ring : h <= Height(tip) /\ h + Depth >= Height(tip)

\* What a restart loads is always a block's own state: in every state a crash
\* could expose, the durable state is the one of the durable applied tip.
DurableConsistent == disk.state = Chain[disk.tip]

\* When the lock is free, executor, applied tip and durable tip agree, and each
\* snapshot a later reorg may revert to is the true state of a true ancestor.
MemoryConsistent ==
    op = Free =>
        /\ world = Chain[tip]
        /\ disk.tip = tip
        /\ \A h \in DOMAIN ring :
              ring[h] = [hash |-> At(tip, h), state |-> Chain[At(tip, h)]]

\* The reorg floor never covers a height at which the applied chain has another
\* block than a certified one: a stale walk must not raise it (verify_certified_floor).
FloorOnChain ==
    op = Free /\ floor > 0 => floor <= Height(tip) /\ At(tip, floor) \in certs

\* With the lock free and no rebuild to clean up after, every receipt in the
\* index is one of a block of the durable applied chain, and every block of that
\* chain has its receipts; only one the node produced itself may lack them,
\* because the producer writes them in a later batch (produce_block).
OnDurable(t) == {b \in Ancestry(disk.tip) \ {Genesis} : Tx[b] = t}
ReceiptsExact ==
    op = Free /\ disk.marker = NoBlock =>
        \A t \in Txs : \/ disk.receipts[t] \in OnDurable(t)
                       \/ disk.receipts[t] = NoBlock /\ OnDurable(t) \subseteq Own

\* What is on disk is right, state and receipts, and within its bounds.
DiskInv == TypeOK /\ DurableConsistent /\ ReceiptsExact

\* No block whose committed root execution does not reproduce is on the applied
\* chain once the lock is released (apply_block, reorg_to).  The replay of a
\* rebuild is the exception, so this is checked where none runs: it compares
\* the root of its head alone (recover_to_head_inner).
OnlyVerified == op = Free => Ancestry(tip) \cap WrongRoot = {}

\* A node can always start again: wherever a block, a switch of branches or an
\* aborted one was cut by a crash, the durable state has the root its durable
\* tip commits to (the SRP-S3 boot check).  A crash in the replay of a rebuild
\* is the exception: the replay persists its head before it compares the root.
Starts == op # Halted

\* A certified block the floor has covered stays: no later applied chain, before
\* or after restarts, conflicts with it (I4, finality_floor's restart promise).
Final(c) == c \in certs /\ op = Free /\ floor >= Height(c) /\ Descends(tip, c)
FinalKept ==
    \A c \in Certifiable :
        [](Final(c) => [](op = Free => Descends(tip, c) \/ Descends(c, tip)))

\* The applied tip settles on fork choice's head among the stored blocks, if
\* that is a head execution can reach (drive_drain, maybe_runtime_rebuild).
Reachable(b) == Ancestry(b) \cap (WrongRoot \cup Unexecutable) = {}
Converges == <>[]Reachable(Heaviest) => <>[](op = Free => tip = Heaviest)
=============================================================================
