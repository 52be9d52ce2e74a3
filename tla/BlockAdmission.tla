--------------------------- MODULE BlockAdmission ---------------------------
(* How a block becomes part of a node (node/src/admission.rs, with the DAG *)
(* store, the chain store, the DAG pruning, the producer's own writes and  *)
(* the start-up that repairs what a crash cut short).  Three tasks share   *)
(* the stores: the network task admits what peers send, the main task      *)
(* starts the node and then produces, the pruning task drops old blocks.   *)
EXTENDS GhostDag

CONSTANTS
  Modes,         \* how a node is set up, and what it starts from
  Own,           \* blocks this node produces, if it mines
  Withdrawn,     \* blocks an operator rollback has removed
  Offered,       \* blocks that the peers who have them go on offering
  Retain,        \* blocks the pruning keeps below the applied tip
  SupersedeWalkCap,
  MaxOrphans,
  MaxFaults      \* bound on crashes and failed writes together

VARIABLES
  mode,          \* what the two stores had at first, what peers have, and
                 \* whether the node mines and prunes; it never changes
  chain, index,  \* the chain store: its blocks, and its height -> block index
  applied,       \* the durable applied tip
  point,         \* the DAG store's pruning point
  dagTips,       \* the DAG store's tips
  withdrawn,     \* refused blocks
  orphans,       \* deferred blocks of the sync path
  net, main,     \* the two tasks: where each is, and with what
  pruning,       \* the pruning point has moved, the blocks are still there
  live,          \* the network task is running
  sent,          \* own blocks that were broadcast
  overtaken,     \* a block came in while the main task replaced the tips
  faults         \* crashes and failed writes so far

stores == <<chain, index, applied, point>>
history == <<sent, overtaken, faults>>
vars == <<mode, ghostdag, stores, dagTips, withdrawn, orphans, net, main, pruning, live, history>>

Heights == {Height[b] : b \in Blocks}
Latest == Max({Height[b] : b \in chain})

(* The selected-parent chain of a block, and its block at a height.        *)
Ancestry ==
  LET line[b \in Blocks] == IF b = Genesis THEN {b} ELSE {b} \union line[SelectedParent[b]]
  IN [b \in Blocks |-> line[b]]
At(b, h) == CHOOSE a \in Ancestry[b] : Height[a] = h

ASSUME AdmissionAssumption ==
  /\ Own \union Withdrawn \union Offered \subseteq Blocks
  /\ Ancestry \in [Blocks -> SUBSET Blocks]
  /\ Modes \subseteq [dag : SUBSET Blocks, chain : SUBSET Blocks, arriving : SUBSET Blocks,
                      mining : BOOLEAN, pruning : BOOLEAN]
  /\ {Retain, SupersedeWalkCap, MaxOrphans, MaxFaults} \subseteq Nat

----------------------------------------------------------------------------
(* The stores                                                              *)

(* put_block: the last block written at a height is the indexed one.       *)
PutBlockNoIndex(b) == chain' = chain \union {b} /\ UNCHANGED index   \* mutant
PutBlock(b) ==
  /\ chain' = chain \union {b}
  /\ index' = [index EXCEPT ![Height[b]] = b]

(* store_block finds the block, or its parent gone (the VRF check reads    *)
(* it), or writes it.                                                      *)
StoreRefuses(b) == b # Genesis /\ SelectedParent[b] \notin dag
StoreBlock(b) ==
  /\ dag' = dag \union {b}
  /\ dagTips' = (dagTips \ Parents(b)) \union {b}

(* load_from_persistent: the tips are the blocks no stored block names as  *)
(* a parent; genesis is one only if there is nothing else.                 *)
LoadedTips(D) ==
  {b \in D : (b # Genesis \/ D = {Genesis}) /\ \A c \in D : b \notin Parents(c)}

(* get_tips                                                                *)
DagTips == dagTips \intersect dag

(* pruned_below                                                            *)
PrunedBelow == IF point \in dag THEN Height[point] ELSE 0

----------------------------------------------------------------------------
(* The start of a process                                                  *)

NetIdle == [pc |-> "idle", block |-> NoBlock, todo |-> {}, deferred |-> {},
            progressed |-> FALSE, sync |-> FALSE, half |-> "none"]
MainAt(pc) == [pc |-> pc, at |-> 0, upTo |-> 0, block |-> NoBlock, tips |-> {}]

Init ==
  /\ mode \in Modes
  /\ dag = mode.dag /\ chain = mode.chain
  /\ anchor = [b \in Blocks |-> IF b \in dag THEN ExactScore[b] ELSE 0]
  /\ applied = Heaviest({b \in chain : Ancestry[b] \subseteq chain}) /\ point = NoBlock
  /\ index = [h \in Heights |->
       LET there == {b \in chain : Height[b] = h}
       IN IF there = {} THEN NoBlock ELSE Heaviest(there)]
  /\ rel = [b \in Blocks |-> 0] /\ tips = {} /\ dagTips = LoadedTips(dag)
  /\ withdrawn = Withdrawn /\ orphans = {}
  /\ net = NetIdle /\ main = MainAt("seed")
  /\ pruning = FALSE /\ live = FALSE
  /\ sent = {} /\ overtaken = FALSE /\ faults = 0

Fault == faults < MaxFaults /\ faults' = faults + 1

(* What an interrupted pruning pass may have deleted: it goes height by    *)
(* height, in no order, and block by block.                                *)
PartlyPruned ==
  LET below == {b \in dag : pruning /\ Height[b] < Height[point]}
  IN {cut \in SUBSET below :
        Cardinality({Height[b] : b \in cut} \intersect {Height[b] : b \in below \ cut}) <= 1}

(* A crash keeps what is on disk.  The score of the block that was being   *)
(* pruned may be left: it is deleted after the block.                      *)
Crash ==
  /\ Fault
  /\ \E cut \in PartlyPruned :
       /\ dag' = dag \ cut /\ dagTips' = LoadedTips(dag \ cut)
       /\ \E last \in cut \union {NoBlock} :
            anchor' = [b \in Blocks |-> IF b \in cut \ {last} THEN 0 ELSE anchor[b]]
  /\ rel' = [b \in Blocks |-> 0] /\ tips' = {}
  /\ withdrawn' = Withdrawn /\ orphans' = {}
  /\ net' = NetIdle /\ main' = MainAt("seed")
  /\ pruning' = FALSE /\ live' = FALSE /\ overtaken' = FALSE
  /\ UNCHANGED <<mode, stores, sent>>

----------------------------------------------------------------------------
(* The main task starts the node ...                                       *)

MainGoto(pc) == main' = [main EXCEPT !.pc = pc]
memory == <<withdrawn, orphans>>

(* seed_genesis                                                            *)
SeedGenesis ==
  /\ main.pc = "seed"
  /\ IF DagTips = {} THEN StoreBlock(Genesis) ELSE UNCHANGED <<dag, dagTips>>
  /\ MainGoto("repairChain")
  /\ UNCHANGED <<mode, anchor, rel, tips, stores, memory, net, pruning, live, history>>

(* reconcile, first loop: at a height above the applied tip where the      *)
(* chain store has nothing, the DAG store's blocks are written to it.      *)
ReconcileChain ==
  LET holes == {h \in Height[applied] + 1 .. Latest : index[h] = NoBlock}
      found == {b \in dag : Height[b] \in holes}
  IN /\ main.pc = "repairChain"
     /\ chain' = chain \union found
     /\ \E last \in SUBSET found :
          /\ \A b \in found : Cardinality({c \in last : Height[c] = Height[b]}) = 1
          /\ index' = [h \in Heights |->
               IF \E c \in last : Height[c] = h THEN CHOOSE c \in last : Height[c] = h ELSE index[h]]
     /\ main' = [main EXCEPT !.pc = "repairDag", !.at = Height[applied] + 1, !.upTo = Latest]
     /\ UNCHANGED <<mode, ghostdag, applied, point, dagTips, memory, net, pruning, live, history>>

(* Second loop: an indexed block above the applied tip that the DAG store  *)
(* does not have is stored there and registered.                           *)
ReconcileDag ==
  LET b == index[main.at]
  IN /\ main.pc = "repairDag"
     /\ IF main.at > main.upTo
        THEN MainGoto("snapshot") /\ UNCHANGED <<ghostdag, dagTips>>
        ELSE IF b # NoBlock /\ b \notin dag /\ ~StoreRefuses(b)
        THEN StoreBlock(b) /\ main' = [main EXCEPT !.pc = "repairAdd", !.block = b]
             /\ UNCHANGED <<anchor, rel, tips>>
        ELSE main' = [main EXCEPT !.at = @ + 1] /\ UNCHANGED <<ghostdag, dagTips>>
     /\ UNCHANGED <<mode, stores, memory, net, pruning, live, history>>

ReconcileAdd ==
  /\ main.pc = "repairAdd"
  /\ AddBlock(main.block)
  /\ main' = [main EXCEPT !.pc = "repairDag", !.at = @ + 1, !.block = NoBlock]
  /\ UNCHANGED <<mode, dag, stores, dagTips, memory, net, pruning, live, history>>

(* reconcile_tips_from_dag_store reads the DAG store's tips, ...           *)
SnapshotTips ==
  /\ main.pc = "snapshot"
  /\ main' = [main EXCEPT !.pc = "register", !.tips = DagTips]
  /\ UNCHANGED <<mode, ghostdag, stores, dagTips, memory, net, pruning, live, history>>

(* ... registers those fork choice does not know, ...                      *)
RegisterTip ==
  /\ main.pc = "register"
  /\ \E b \in main.tips \intersect dag : rel[b] = 0 /\ RegisterExistingBlock(b)
  /\ UNCHANGED <<mode, dag, stores, dagTips, memory, net, main, pruning, live, history>>

(* ... and replaces fork choice's tips by what it read.  The network task  *)
(* is started next; a mining node goes on to load its chain.               *)
RegisteredAny(S) == TRUE   \* mutant: tips are taken over without a score
Registered(S) == \A b \in S \intersect dag : rel[b] # 0
ReplaceTips ==
  /\ main.pc = "register" /\ Registered(main.tips)
  /\ tips' = main.tips
  /\ overtaken' = (overtaken \/ main.tips # DagTips)
  /\ live' = TRUE
  /\ main' = IF mode.mining /\ ~live THEN [MainAt("load") EXCEPT !.upTo = Latest]
             ELSE MainAt("idle")
  /\ UNCHANGED <<mode, dag, anchor, rel, stores, dagTips, memory, net, pruning, sent, faults>>

(* with_shared_dag: each indexed block, from genesis up, is stored in the  *)
(* DAG store if it is not there, and registered.                           *)
Load ==
  LET b == index[main.at]
  IN /\ main.pc = "load"
     /\ IF main.at > main.upTo THEN MainGoto("snapshot") /\ UNCHANGED <<anchor, rel, tips>>
        ELSE IF b = NoBlock THEN main' = [main EXCEPT !.at = @ + 1] /\ UNCHANGED <<anchor, rel, tips>>
        ELSE IF b \in dag \/ StoreRefuses(b)
        THEN RegisterExistingBlock(b) /\ main' = [main EXCEPT !.at = @ + 1]
        ELSE main' = [main EXCEPT !.pc = "loadWrite", !.block = b] /\ UNCHANGED <<anchor, rel, tips>>
     /\ UNCHANGED <<mode, dag, stores, dagTips, memory, net, pruning, live, history>>

LoadWrite ==
  /\ main.pc = "loadWrite"
  /\ StoreBlock(main.block)
  /\ MainGoto("loadRegister")
  /\ UNCHANGED <<mode, anchor, rel, tips, stores, memory, net, pruning, live, history>>

LoadRegister ==
  /\ main.pc = "loadRegister"
  /\ RegisterExistingBlock(main.block)
  /\ main' = [main EXCEPT !.pc = "load", !.at = @ + 1, !.block = NoBlock]
  /\ UNCHANGED <<mode, dag, stores, dagTips, memory, net, pruning, live, history>>

----------------------------------------------------------------------------
(* ... and then produces, holding the applied tip's lock.                  *)

Producing == main.pc \in {"put", "persist", "store", "write", "add"}

(* applied_tip_supersedes: a walk of at most so many steps down the chain  *)
(* store from the applied tip ends at the block.                           *)
Supersedes(b) ==
  /\ b \in Ancestry[applied] \ {applied}
  /\ Height[applied] - Height[b] <= SupersedeWalkCap
  /\ \A a \in Ancestry[applied] \ Ancestry[b] : a \in chain

(* select_parents_with_ghostdag: fork choice's tip, unless the applied one *)
(* supersedes it; with the DAG store's tips that may be merged.            *)
ParentOfNext ==
  LET head == IF SelectTip # NoBlock THEN SelectTip ELSE Heaviest(DagTips)
  IN IF Supersedes(head) THEN applied ELSE head
MergeableTips(parent) ==
  {t \in DagTips \ {parent} : /\ HeaderScore[t] <= HeaderScore[parent]
                             /\ Height[parent] + 1 - Height[t] <= MaxDepth}

(* produce_block seals a block only on the applied tip.                    *)
Produce(b) ==
  /\ main.pc = "idle" /\ mode.mining
  /\ b \in Own \ chain
  /\ applied \in dag /\ ParentOfNext = applied /\ SelectedParent[b] = applied
  /\ Merges(b) \subseteq MergeableTips(applied)
  /\ Cardinality(Merges(b)) = Min({MaxParents - 1, Cardinality(MergeableTips(applied))})
  /\ main' = [main EXCEPT !.pc = "put", !.block = b]
  /\ UNCHANGED <<mode, ghostdag, stores, dagTips, memory, net, pruning, live, history>>

(* A write of the round that fails ends it.                                *)
ProduceFails ==
  /\ main.pc \in {"put", "persist", "write"}
  /\ Fault /\ main' = MainAt("idle")
  /\ UNCHANGED <<mode, ghostdag, stores, dagTips, memory, net, pruning, live, sent, overtaken>>

(* It goes to the chain store, ...                                         *)
ProducePut ==
  /\ main.pc = "put"
  /\ PutBlock(main.block)
  /\ MainGoto("persist")
  /\ UNCHANGED <<mode, ghostdag, applied, point, dagTips, memory, net, pruning, live, history>>

(* ... its state and the tip are persisted and it is broadcast, ...        *)
ProducePersist ==
  /\ main.pc = "persist"
  /\ applied' = main.block
  /\ sent' = sent \union {main.block}
  /\ MainGoto("store")
  /\ UNCHANGED <<mode, ghostdag, chain, index, point, dagTips, memory, net, pruning, live,
                 overtaken, faults>>

(* ... and only then it enters the DAG store and fork choice.  An echo of  *)
(* it may be there first: store_block's error ends the round.              *)
ProduceStore ==
  /\ main.pc = "store"
  /\ main' = IF main.block \in dag \/ StoreRefuses(main.block) THEN MainAt("idle")
             ELSE [main EXCEPT !.pc = "write"]
  /\ UNCHANGED <<mode, ghostdag, stores, dagTips, memory, net, pruning, live, history>>

ProduceWrite ==
  /\ main.pc = "write"
  /\ StoreBlock(main.block)
  /\ MainGoto("add")
  /\ UNCHANGED <<mode, anchor, rel, tips, stores, memory, net, pruning, live, history>>

ProduceAdd ==
  /\ main.pc = "add"
  /\ AddBlock(main.block)
  /\ main' = MainAt("idle")
  /\ UNCHANGED <<mode, dag, stores, dagTips, memory, net, pruning, live, history>>

----------------------------------------------------------------------------
(* The network task                                                        *)

(* Peers have the blocks they made and those this node has broadcast; what *)
(* is built on an own block comes after that one.                          *)
Deliverable(b) == b \in mode.arriving /\ (mode.mining => PastWithin(b, 0) \intersect Own \subseteq sent)
NetGoto(pc) == net' = [net EXCEPT !.pc = pc]
NetNext == [net EXCEPT !.pc = "pass", !.progressed = TRUE]

(* bound_orphan_buffer keeps the lowest heights.                           *)
Bounded(S) ==
  {T \in SUBSET S : /\ Cardinality(T) = Min({MaxOrphans, Cardinality(S)})
                    /\ \A b \in T, c \in S \ T : Height[b] <= Height[c]}

(* A Blocks answer, with a block that may be there already: the deferred   *)
(* ones are tried again with it.                                           *)
Sync(b) ==
  /\ live /\ net.pc = "idle" /\ Deliverable(b)
  /\ \E todo \in Bounded(orphans \union {b}) :
       net' = [NetIdle EXCEPT !.pc = "pass", !.todo = todo, !.sync = TRUE]
  /\ UNCHANGED <<mode, ghostdag, stores, dagTips, memory, main, pruning, live, history>>

(* A gossiped block is dropped if it is in both stores.                    *)
Gossip(b) ==
  /\ live /\ net.pc = "idle"
  /\ Deliverable(b) /\ ~(b \in chain /\ b \in dag)
  /\ net' = [NetIdle EXCEPT !.pc = "pass", !.todo = {b}]
  /\ UNCHANGED <<mode, ghostdag, stores, dagTips, memory, main, pruning, live, history>>

(* withdrawn_reason: what is built on a withdrawn block is one too.        *)
IsWithdrawn(b) == ({b} \union Parents(b)) \intersect withdrawn # {}

AlreadyAdmittedEither(b) == b \in chain \/ b \in dag   \* mutant: one store decides
AlreadyAdmitted(b) ==
  \/ b \in chain /\ b \in dag
  \/ b \in chain /\ b \notin dag /\ Height[b] < PrunedBelow

(* admit up to the first write: the block is refused, deferred, complete   *)
(* already, or goes on with the half that is missing.                      *)
Admit ==
  /\ net.pc = "pass"
  /\ \E b \in net.todo :
       /\ \A c \in net.todo : Height[b] <= Height[c]
       /\ LET rest == [net EXCEPT !.todo = @ \ {b}]
          IN IF IsWithdrawn(b)
             THEN withdrawn' = withdrawn \union {b} /\ net' = rest
             ELSE /\ UNCHANGED withdrawn
                  /\ net' = CASE AlreadyAdmitted(b) \/ Consistency(b) = "invalid" -> rest
                             [] ~AlreadyAdmitted(b) /\ Consistency(b) = "missing" ->
                                  [rest EXCEPT !.deferred = @ \union {b}]
                             [] OTHER -> [rest EXCEPT !.block = b,
                                  !.half = CASE b \in chain -> "chain" [] b \in dag -> "dag" [] OTHER -> "none",
                                  !.pc = IF b \in dag THEN "put" ELSE "store"]
  /\ UNCHANGED <<mode, ghostdag, stores, dagTips, orphans, main, pruning, live, history>>

(* store_block and put_block may fail: the block is rejected, with what    *)
(* was written of it.                                                      *)
AdmitFails ==
  /\ net.pc \in {"write", "put"}
  /\ Fault /\ NetGoto("pass")
  /\ UNCHANGED <<mode, ghostdag, stores, dagTips, memory, main, pruning, live, sent, overtaken>>

(* store_block: BlockExists means go on.                                   *)
AdmitStore ==
  /\ net.pc = "store"
  /\ NetGoto(IF net.block \in dag THEN "add" ELSE IF StoreRefuses(net.block) THEN "pass" ELSE "write")
  /\ UNCHANGED <<mode, ghostdag, stores, dagTips, memory, main, pruning, live, history>>

AdmitWrite ==
  /\ net.pc = "write"
  /\ StoreBlock(net.block)
  /\ NetGoto("add")
  /\ UNCHANGED <<mode, anchor, rel, tips, stores, memory, main, pruning, live, history>>

(* add_block; an error does not stop the chain write.                      *)
AdmitAdd ==
  /\ net.pc = "add"
  /\ AddBlock(net.block)
  /\ net' = IF net.half = "chain" THEN NetNext ELSE [net EXCEPT !.pc = "put"]
  /\ UNCHANGED <<mode, dag, stores, dagTips, memory, main, pruning, live, history>>

(* A completed block is left to the drain.                                 *)
AdmitPut ==
  /\ net.pc = "put"
  /\ PutBlock(net.block)
  /\ net' = IF net.half = "dag" THEN NetNext ELSE [net EXCEPT !.pc = "apply"]
  /\ UNCHANGED <<mode, ghostdag, applied, point, dagTips, memory, main, pruning, live, history>>

(* The end of a pass: another one over the deferred blocks if this one     *)
(* admitted something; else what is left is kept.                          *)
EndPass ==
  /\ net.pc = "pass" /\ net.todo = {}
  /\ IF net.sync /\ net.progressed
     THEN /\ net' = [net EXCEPT !.todo = net.deferred, !.deferred = {}, !.progressed = FALSE]
          /\ UNCHANGED orphans
     ELSE /\ net' = NetIdle
          /\ IF net.sync THEN orphans' \in Bounded(net.deferred) ELSE UNCHANGED orphans
  /\ UNCHANGED <<mode, ghostdag, stores, dagTips, withdrawn, main, pruning, live, history>>

----------------------------------------------------------------------------
(* The applicator and the pruning task                                     *)

(* Where the drain takes the applied tip: up towards fork choice's head as *)
(* far as the chain store has the blocks, or over to it.                   *)
Driven ==
  IF SelectTip = NoBlock THEN applied
  ELSE IF applied \in Ancestry[SelectTip]
  THEN Heaviest({b \in Ancestry[SelectTip] : Ancestry[b] \subseteq chain})
  ELSE IF Ancestry[SelectTip] \subseteq chain /\ SelectTip \notin Ancestry[applied]
  THEN SelectTip ELSE applied

(* apply_received, under the applied tip's lock.                           *)
AdmitApply ==
  /\ net.pc = "apply" /\ ~Producing
  /\ applied' \in {applied, Driven}
  /\ net' = NetNext
  /\ UNCHANGED <<mode, ghostdag, chain, index, point, dagTips, memory, main, pruning, live, history>>

(* The periodic drain.                                                     *)
Drain ==
  /\ live /\ ~Producing
  /\ applied' = Driven
  /\ UNCHANGED <<mode, ghostdag, chain, index, point, dagTips, memory, net, main, pruning, live, history>>

(* prune_once moves the point, ...                                         *)
UpdatePruningPoint ==
  LET h == Height[applied] - Retain
  IN /\ mode.pruning /\ ~pruning /\ main.pc # "seed"
     /\ h > 0 /\ At(applied, h) \in dag
     /\ point' = At(applied, h)
     /\ pruning' = TRUE
     /\ UNCHANGED <<mode, ghostdag, chain, index, applied, dagTips, memory, net, main, live, history>>

(* ... and drops what is below it, the stored scores included.             *)
PruneKept(h) == {b \in dag : Height[b] >= h}
Prune ==
  /\ pruning
  /\ dag' = PruneKept(Height[point])
  /\ anchor' = [b \in Blocks |-> IF b \in dag \ PruneKept(Height[point]) THEN 0 ELSE anchor[b]]
  /\ pruning' = FALSE
  /\ UNCHANGED <<mode, rel, tips, stores, dagTips, memory, net, main, live, history>>

----------------------------------------------------------------------------
Boot ==
  \/ SeedGenesis \/ ReconcileChain \/ ReconcileDag \/ ReconcileAdd
  \/ SnapshotTips \/ RegisterTip \/ ReplaceTips \/ Load \/ LoadWrite \/ LoadRegister
Seal ==
  ProducePut \/ ProducePersist \/ ProduceStore \/ ProduceWrite \/ ProduceAdd \/ ProduceFails
Admission ==
  \/ Admit \/ AdmitStore \/ AdmitWrite \/ AdmitAdd \/ AdmitPut \/ AdmitFails
  \/ AdmitApply \/ EndPass

Next ==
  \/ Boot \/ Seal \/ (\E b \in Own : Produce(b))
  \/ Admission \/ (\E b \in Blocks : Sync(b) \/ Gossip(b))
  \/ Drain \/ UpdatePruningPoint \/ Prune \/ Crash

Spec == Init /\ [][Next]_vars

(* No task stops for good in the middle of its work, and the peers answer  *)
(* the requests for each block they have.                                  *)
Fairness ==
  /\ WF_vars(Boot) /\ WF_vars(Seal) /\ WF_vars(Admission)
  /\ \A b \in Offered : SF_vars(Sync(b))

LiveSpec == Spec /\ Fairness

----------------------------------------------------------------------------
(* Properties                                                              *)

(* The variables have their types; the index names a block at exactly the  *)
(* heights at which the chain store has one (put_block).                   *)
TypeOK ==
  /\ dag \subseteq Blocks /\ chain \subseteq Blocks /\ tips \subseteq Blocks
  /\ {applied} \union orphans \subseteq Blocks /\ point \in Blocks \union {NoBlock}
  /\ \A h \in Heights :
       IF \E b \in chain : Height[b] = h
       THEN index[h] \in chain /\ Height[index[h]] = h ELSE index[h] = NoBlock
  /\ Cardinality(orphans) <= MaxOrphans

(* Nothing is admitted ahead of its parents (validate_block_consistency):  *)
(* the DAG store has the parents of each of its blocks, unless pruning has *)
(* dropped them, however pruning, admission and restarts interleave.       *)
DagClosed ==
  \A b \in dag : \A p \in Parents(b) :
    p \in dag \/ (point # NoBlock /\ Height[p] < Height[point])

(* "Pruned and unpruned nodes compute the same score" (dag_prune), after   *)
(* any restart and in any order of arrival: each score this node holds for *)
(* a block above its pruning point is the one its content determines.      *)
ScoresExact ==
  \A b \in Blocks : point = NoBlock \/ point \in Ancestry[b] =>
    rel[b] \in {0, ExactScore[b]} /\ anchor[b] \in {0, ExactScore[b]}

(* Once the node is up, fork choice's head is the heaviest block it has    *)
(* (select_tip), with no block between its DAG write and its registration. *)
(* Only a rehydration that overtook an arriving block may have lost it.    *)
ForkChoiceHead ==
  live /\ ~overtaken /\ net.pc # "add" /\ main.pc \notin {"add", "loadRegister"} =>
    SelectTip = Heaviest(dag)

(* "A block is either fully admitted (present in BOTH stores) or the node  *)
(* will drive it there" (admission.rs): every sound block the peers keep   *)
(* offering ends up in both stores, whatever order the blocks come in,     *)
(* whichever write fails and wherever a crash cuts, unless the pruning     *)
(* point has passed it.                                                    *)
Sound(b) == Ancestry[b] \intersect (BadBody \union BadTime \union Withdrawn) = {}
Passed(b) == point # NoBlock /\ point \notin Ancestry[b]
Heals ==
  \A b \in Offered :
    Sound(b) => <>[](Deliverable(b) => (b \in chain /\ b \in dag) \/ Passed(b))
=============================================================================
