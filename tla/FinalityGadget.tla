--------------------------- MODULE FinalityGadget ---------------------------
(***************************************************************************)
(* The two tasks of a node that drive its checkpoint manager               *)
(* (core/consensus/src/checkpoint_gadget.rs): the finality driver, which   *)
(* reports buried boundaries and retries failed finalizations, and the     *)
(* network task, which handles one inbound vote after the other            *)
(* (node/src/main.rs).  They interleave at every lock they take.           *)
(*                                                                         *)
(* Peers' votes may arrive late, twice, in any order or never, with a good *)
(* or a bad signature.  An honest validator signs one block per height,    *)
(* which is what VoteSigning shows of this code; a Byzantine one signs     *)
(* anything.  The early-vote buffer is kept without its caps (EarlyBuffer  *)
(* has them): here it may refuse any vote.                                 *)
(***************************************************************************)
EXTENDS CheckpointManager

CONSTANTS
  Self,       \* this node's voting key
  Settings    \* the surroundings a node may run in

(* Of the surroundings: the blocks that can be canonical at each boundary; *)
(* the validators that may sign two blocks at one height, those whose      *)
(* votes reach this node, and those in whose name badly signed votes       *)
(* arrive; and whether a FinalizationGuard is installed.                   *)
ASSUME SettingsAssumption ==
  /\ Self \in Voters /\ None \notin {"driver", "net"}
  /\ \A s \in Settings :
       /\ s.blocks \in [Heights -> SUBSET Hashes]
       /\ s.byzantine \union s.senders \union s.forged \subseteq Voters
       /\ Self \notin s.byzantine /\ s.guarded \in BOOLEAN

Tasks == {"driver", "net"}

VARIABLES
  early,    \* votes held for checkpoints not yet proposed here
  stLock,   \* holder of the GadgetState mutex across an await, or None
  serial,   \* holder of finalize_serial, or None
  pc, job,  \* where each task is, and the vote (or block) it works on
  todo,     \* driver: buffered votes to replay, or heights to retry
  seen,     \* certificate the guard of a finalization in flight ran on
  floor,    \* the height a prune in flight works with
  back,     \* where a finalization in flight returns to
  won,      \* driver: this retry pass finalized something
  record,   \* disk: the block this node signed at each height, or None
  peerVote, \* the block each honest peer signs at each height
  setting   \* the node's surroundings; they never change

locals == <<pc, job, todo, seen, floor, back, won>>
signatures == <<record, peerVote, setting>>
vars == <<manager, early, stLock, serial, locals, signatures>>

BlocksAt == setting.blocks
Byzantine == setting.byzantine
Peers == Voters \ (Byzantine \union {Self})

AtTask(t, label) == pc[t] = label
Goto(t, label) == pc' = [pc EXCEPT ![t] = label]

(* The call the task was in is over: its locals are gone.                  *)
Done(t) ==
  /\ Goto(t, "idle")
  /\ job' = [job EXCEPT ![t] = None]
  /\ floor' = [floor EXCEPT ![t] = 0]
  /\ back' = [back EXCEPT ![t] = "idle"]

Continue(t, label) == Goto(t, label) /\ UNCHANGED <<job, floor, back>>

Init ==
  /\ ManagerInit
  /\ early = {}
  /\ record = Nothing
  /\ setting \in Settings
  /\ peerVote \in [Peers -> {f \in [Heights -> Hashes \union {None}] : \A h \in Heights :
                               f[h] \in IF BlocksAt[h] = {} THEN {None} ELSE BlocksAt[h]}]
  /\ stLock = None /\ serial = None
  /\ pc = [t \in Tasks |-> "idle"]
  /\ job = [t \in Tasks |-> None]
  /\ todo = {} /\ won = FALSE
  /\ seen = None
  /\ floor = [t \in Tasks |-> 0]
  /\ back = [t \in Tasks |-> "idle"]

(* The votes that can carry a valid signature.                             *)
Signed(v) ==
  \/ v.voter \in Byzantine
  \/ v.voter = Self /\ record[v.height] = v.hash
  \/ v.voter \in Peers /\ peerVote[v.voter][v.height] = v.hash

----------------------------------------------------------------------------
(* The driver: on_buried_checkpoint                                        *)

(* ensure_proposed before it takes the pending lock: the height is not     *)
(* finalized yet.                                                          *)
OnBuried(h, x) ==
  /\ AtTask("driver", "idle")
  /\ \E readable \in BOOLEAN : ~FoundFinalized(h, readable)
  /\ job' = [job EXCEPT !["driver"] = [height |-> h, hash |-> x, voter |-> Self]]
  /\ Goto("driver", "propose")
  /\ UNCHANGED <<manager, early, stLock, serial, todo, seen, floor, back, won, signatures>>

(* ensure_proposed under the pending lock.                                 *)
EnsureProposed ==
  LET v == job["driver"]
      cp == pending[v.height]
  IN /\ AtTask("driver", "propose")
     /\ \/ cp = None /\ Propose(v.height, v.hash) /\ Continue("driver", "own")
        \/ /\ cp # None
           /\ IF cp.hash = v.hash THEN Continue("driver", "missing") ELSE Done("driver")
           /\ UNCHANGED manager
     /\ UNCHANGED <<early, stLock, serial, todo, seen, won, signatures>>

(* AlreadyPending: the report goes on only for the sake of an own vote     *)
(* that has_pending_vote, in a read of its own, does not find.             *)
OwnVoteMissing ==
  LET v == job["driver"]
      cp == pending[v.height]
  IN /\ AtTask("driver", "missing")
     /\ IF Self \in Committee[v.hash] /\ (cp = None \/ Self \notin cp.votes)
        THEN Continue("driver", "own")
        ELSE Done("driver")
     /\ UNCHANGED <<manager, early, stLock, serial, todo, seen, won, signatures>>

(* sign_own_vote: authorize on the durable record, then submit.            *)
SignOwnVote ==
  LET v == job["driver"]
  IN /\ AtTask("driver", "own")
     /\ Self \in Committee[v.hash]
     /\ record[v.height] \in {None, v.hash}
     /\ record' = [record EXCEPT ![v.height] = v.hash]
     /\ SubmitVote(v, TRUE)
     /\ back' = [back EXCEPT !["driver"] = "drain"]
     /\ Goto("driver", IF ReachesQuorum(v, TRUE) THEN "finalize" ELSE "drain")
     /\ UNCHANGED <<early, stLock, serial, job, todo, seen, floor, won, peerVote, setting>>

(* Not in the committee, or authorize_sign refused.                        *)
SkipOwnVote ==
  /\ AtTask("driver", "own")
  /\ Goto("driver", "drain")
  /\ UNCHANGED <<manager, early, stLock, serial, job, todo, seen, floor, back, won, signatures>>

(* Take every buffered vote of the height; those for another block go.     *)
Drain ==
  LET v == job["driver"]
  IN /\ AtTask("driver", "drain")
     /\ stLock = None
     /\ todo' = {u \in early : u.height = v.height /\ u.hash = v.hash}
     /\ early' = {u \in early : u.height # v.height}
     /\ Goto("driver", "replay")
     /\ UNCHANGED <<manager, stLock, serial, job, seen, floor, back, won, signatures>>

Replay ==
  /\ AtTask("driver", "replay")
  /\ \/ todo = {} /\ Goto("driver", "prune") /\ UNCHANGED <<manager, todo, back>>
     \/ \E u \in todo :
          /\ todo' = todo \ {u}
          /\ SubmitVote(u, TRUE)
          /\ back' = [back EXCEPT !["driver"] = "replay"]
          /\ Goto("driver", IF ReachesQuorum(u, TRUE) THEN "finalize" ELSE "replay")
  /\ UNCHANGED <<early, stLock, serial, job, seen, floor, won, signatures>>

(* No retry tick: a failed finalization waits for the next vote.           *)
RetryFinalizationsNever == FALSE /\ UNCHANGED vars

(* retry_finalizations reads which heights are pending with quorum, ...    *)
RetryFinalizations ==
  /\ AtTask("driver", "idle")
  /\ QuorumPendingHeights # {}
  /\ todo' = QuorumPendingHeights
  /\ Goto("driver", "due")
  /\ UNCHANGED <<manager, early, stLock, serial, job, seen, floor, back, won, signatures>>

(* ... and picks those that are due under the state lock, from what it     *)
(* read: each gets one more finalization, and a success is pruned after.   *)
RetryDue(due) ==
  /\ AtTask("driver", "due")
  /\ stLock = None
  /\ due \subseteq todo
  /\ todo' = due
  /\ won' = FALSE
  /\ Goto("driver", "retry")
  /\ UNCHANGED <<manager, early, stLock, serial, job, seen, floor, back, signatures>>

RetryNext ==
  /\ AtTask("driver", "retry")
  /\ \/ /\ todo = {}
        /\ IF won THEN Continue("driver", "prune") ELSE Done("driver")
        /\ UNCHANGED todo
     \/ \E h \in todo :
          /\ \A g \in todo : h <= g
          /\ todo' = todo \ {h}
          /\ job' = [job EXCEPT !["driver"] = [height |-> h]]
          /\ back' = [back EXCEPT !["driver"] = "retry"]
          /\ Goto("driver", "finalize")
          /\ UNCHANGED floor
  /\ UNCHANGED <<manager, early, stLock, serial, seen, won, signatures>>

----------------------------------------------------------------------------
(* The network task: on_inbound_vote                                       *)

(* A vote arrives; is a checkpoint pending at its height?  A vote whose    *)
(* signature does not verify is refused wherever it goes.                  *)
OnInboundVote(v, signed) ==
  /\ AtTask("net", "idle")
  /\ IF signed THEN v.voter \in setting.senders /\ Signed(v) ELSE v.voter \in setting.forged
  /\ job' = [job EXCEPT !["net"] = [vote |-> v, signed |-> signed]]
  /\ Goto("net", IF pending[v.height] # None THEN "submit" ELSE "early")
  /\ UNCHANGED <<manager, early, stLock, serial, todo, seen, floor, back, won, signatures>>

(* submit_pending.                                                         *)
SubmitPending ==
  LET v == job["net"].vote
      signed == job["net"].signed
  IN /\ AtTask("net", "submit")
     /\ SubmitVote(v, signed)
     /\ IF ReachesQuorum(v, signed)
        THEN /\ Goto("net", "finalize")
             /\ back' = [back EXCEPT !["net"] = "prune"]
             /\ UNCHANGED <<job, floor>>
        ELSE Done("net")
     /\ UNCHANGED <<early, stLock, serial, todo, seen, won, signatures>>

(* buffer_early up to the buffer lock.                                     *)
BufferEarly ==
  LET v == job["net"].vote
  IN /\ AtTask("net", "early")
     /\ \E readable \in BOOLEAN :
          IF FoundFinalized(v.height, readable) \/ ~job["net"].signed
          THEN Done("net") /\ UNCHANGED stLock
          ELSE Continue("net", "recheck") /\ stLock = None /\ stLock' = "net"
     /\ UNCHANGED <<manager, early, serial, todo, seen, won, signatures>>

(* The vote goes into the buffer without looking at the pending set again. *)
BufferRecheckOnce ==
  /\ AtTask("net", "recheck")
  /\ Goto("net", "buffer")
  /\ UNCHANGED <<manager, early, stLock, serial, job, todo, seen, floor, back, won, signatures>>

(* Under the buffer lock, look at the pending set again: a checkpoint      *)
(* proposed meanwhile has already drained the buffer.                      *)
BufferRecheck ==
  /\ AtTask("net", "recheck")
  /\ IF pending[job["net"].vote.height] # None
     THEN Goto("net", "submit") /\ stLock' = None
     ELSE Goto("net", "buffer") /\ UNCHANGED stLock
  /\ UNCHANGED <<manager, early, serial, job, todo, seen, floor, back, won, signatures>>

(* One vote per voter and height; the caps and the horizon may refuse it.  *)
BufferInsert ==
  LET v == job["net"].vote
      held == \E u \in early : u.voter = v.voter /\ u.height = v.height
  IN /\ AtTask("net", "buffer")
     /\ early' \in {early, IF held THEN early ELSE early \union {v}}
     /\ stLock' = None
     /\ Done("net")
     /\ UNCHANGED <<manager, serial, todo, seen, won, signatures>>

----------------------------------------------------------------------------
(* finalize_checkpoint and prune, called by either task                    *)

JobHeight(t) == IF t = "net" THEN job[t].vote.height ELSE job[t].height

Returns(t) == pc' = [pc EXCEPT ![t] = back[t]]

(* Nothing with quorum is pending there any more.                          *)
FinalizeNothing(t) ==
  /\ AtTask(t, "finalize") /\ serial = None
  /\ JobHeight(t) \notin QuorumPendingHeights
  /\ Returns(t)
  /\ UNCHANGED <<manager, early, stLock, serial, job, todo, seen, floor, back, won, signatures>>

(* The certificate cannot be written: nothing finalizes.                   *)
FinalizeFails(t) ==
  /\ AtTask(t, "finalize") /\ serial = None
  /\ JobHeight(t) \in QuorumPendingHeights
  /\ PersistCandidateFails(JobHeight(t))
  /\ Returns(t)
  /\ UNCHANGED <<early, stLock, serial, job, todo, seen, floor, back, won, signatures>>

(* Guarded: the certificate is durable, and the guard runs on it with no   *)
(* manager lock held.                                                      *)
FinalizeGuarded(t) ==
  /\ setting.guarded
  /\ AtTask(t, "finalize") /\ serial = None
  /\ JobHeight(t) \in QuorumPendingHeights
  /\ PersistCandidate(JobHeight(t))
  /\ seen' = pending[JobHeight(t)]
  /\ serial' = t
  /\ Goto(t, "guard")
  /\ UNCHANGED <<early, stLock, job, todo, floor, back, won, signatures>>

FinalizeSettles(t) ==
  /\ AtTask(t, "guard")
  /\ Settle(JobHeight(t), seen)
  /\ seen' = None
  /\ serial' = None
  /\ won' = (won \/ (t = "driver" /\ back[t] = "retry"))
  /\ Returns(t)
  /\ UNCHANGED <<early, stLock, job, todo, floor, back, signatures>>

FinalizeUnguarded(t) ==
  /\ ~setting.guarded
  /\ AtTask(t, "finalize") /\ serial = None
  /\ JobHeight(t) \in QuorumPendingHeights
  /\ SettleUnguarded(JobHeight(t))
  /\ won' = (won \/ (t = "driver" /\ back[t] = "retry"))
  /\ Returns(t)
  /\ UNCHANGED <<early, stLock, serial, job, todo, seen, floor, back, signatures>>

(* prune: read the floor, then one lock after the other.                   *)
PruneFloor(t) ==
  /\ AtTask(t, "prune")
  /\ floor' = [floor EXCEPT ![t] = latest]
  /\ Goto(t, "prunePending")
  /\ UNCHANGED <<manager, early, stLock, serial, job, todo, seen, back, won, signatures>>

PruneManager(t) ==
  /\ \/ AtTask(t, "prunePending") /\ PrunePending(floor[t]) /\ Goto(t, "pruneVoted")
     \/ AtTask(t, "pruneVoted") /\ PruneVoted(floor[t]) /\ Goto(t, "pruneEarly")
  /\ UNCHANGED <<early, stLock, serial, job, todo, seen, floor, back, won, signatures>>

PruneEarly(t) ==
  /\ AtTask(t, "pruneEarly")
  /\ stLock = None
  /\ early' = {u \in early : u.height > floor[t]}
  /\ Done(t)
  /\ won' = (won /\ t = "net")
  /\ UNCHANGED <<manager, stLock, serial, todo, seen, signatures>>

----------------------------------------------------------------------------
(* The process stops and starts again on the same disk.                    *)
Crash ==
  /\ Load
  /\ early' = {} /\ stLock' = None /\ serial' = None
  /\ pc' = [t \in Tasks |-> "idle"]
  /\ job' = [t \in Tasks |-> None]
  /\ todo' = {} /\ won' = FALSE /\ seen' = None
  /\ floor' = [t \in Tasks |-> 0]
  /\ back' = [t \in Tasks |-> "idle"]
  /\ UNCHANGED signatures

Driver ==
  \/ \E h \in Heights : \E x \in BlocksAt[h] : OnBuried(h, x)
  \/ EnsureProposed \/ OwnVoteMissing \/ SignOwnVote \/ SkipOwnVote \/ Drain \/ Replay
  \/ RetryFinalizations \/ RetryNext
  \/ \E due \in SUBSET Heights : RetryDue(due)

Net ==
  \/ \E h \in Heights, w \in Voters, signed \in BOOLEAN : \E x \in BlocksAt[h] :
       OnInboundVote([height |-> h, hash |-> x, voter |-> w], signed)
  \/ SubmitPending \/ BufferEarly \/ BufferRecheck \/ BufferInsert

Finalization(t) ==
  \/ FinalizeNothing(t) \/ FinalizeFails(t) \/ FinalizeGuarded(t)
  \/ FinalizeSettles(t) \/ FinalizeUnguarded(t)
  \/ PruneFloor(t) \/ PruneManager(t) \/ PruneEarly(t)

Next == Driver \/ Net \/ (\E t \in Tasks : Finalization(t)) \/ Crash

Spec == Init /\ [][Next]_vars

(* Neither task stops in the middle of a call.  The driver's loop retries  *)
(* on every pass, so a height that stays pending with quorum becomes due   *)
(* again and again; and the store does not fail every write for ever.  The *)
(* GadgetState mutex is tokio's, which serves its waiters in order: a task *)
(* that waits for it gets it however often the other one takes it.         *)
Fairness ==
  /\ WF_vars(EnsureProposed \/ OwnVoteMissing \/ SignOwnVote \/ SkipOwnVote \/ Drain \/ Replay
             \/ RetryNext)
  /\ WF_vars(SubmitPending \/ BufferEarly \/ BufferRecheck \/ BufferInsert)
  /\ SF_vars(Drain) /\ SF_vars(RetryFinalizations)
  /\ \A t \in Tasks :
       /\ WF_vars(Finalization(t)) /\ SF_vars(PruneEarly(t))
       /\ SF_vars(FinalizeGuarded(t) \/ FinalizeUnguarded(t))
  /\ \A h \in Heights : SF_vars(\E due \in SUBSET Heights : h \in due /\ RetryDue(due))

LiveSpec == Spec /\ Fairness

----------------------------------------------------------------------------
(* Properties                                                              *)

(* The manager's variables have their types and its maps their caps        *)
(* (ensure_proposed, trim_finalized), and each lock is held by the task    *)
(* that is inside the section it protects.                                 *)
TypeOK ==
  /\ ManagerTypeOK
  /\ Cardinality(Held(pending)) <= MaxPending /\ Cardinality(Held(finalized)) <= MaxFinalized
  /\ early \subseteq Vote
  /\ stLock = "net" <=> pc["net"] \in {"recheck", "buffer"}
  /\ \A t \in Tasks : serial = t <=> pc[t] = "guard"
  /\ seen \in Entry \union {None} /\ (seen # None <=> serial # None)

(* "Nothing becomes visible before the certificate is durable"             *)
(* (finalize_checkpoint): whatever is finalized in memory, a restart would *)
(* load a certificate for the same block.                                  *)
DurableBeforeVisible ==
  /\ latest > 0 => disk[latest] # None
  /\ \A h \in Held(finalized) : disk[h] # None /\ disk[h].hash = finalized[h].hash

(* A stored certificate is worth its name (verify_certificate): a quorum   *)
(* of its block's committee signed that block, even when the entry was     *)
(* evicted, pruned or re-proposed while the guard ran.                     *)
CertificatesSound ==
  \A h \in Held(disk) :
    /\ HasDerivedQuorum(disk[h])
    /\ disk[h].votes \subseteq Committee[disk[h].hash]
    /\ \A w \in disk[h].votes :
         Signed([height |-> h, hash |-> disk[h].hash, voter |-> w])

(* A height is certified once: no later finalization, retry, re-proposal   *)
(* or restart replaces the certificate by one for another block.           *)
CertificateStable ==
  [][\A h \in Held(disk) : disk'[h] # None /\ disk'[h].hash = disk[h].hash]_vars

(* No voter is locked out (submit_vote, "ONLY mark voted after all         *)
(* validation succeeds"): a replay marker above the finalized height means *)
(* that the voter's vote is counted in the pending checkpoint.             *)
NoLockout ==
  \A m \in voted : m[1] > latest =>
    pending[m[1]] # None /\ m[2] \in pending[m[1]].votes

(* No vote is stranded (buffer_early): outside the driver's window between *)
(* its proposal and its drain, the buffer holds no vote for the checkpoint *)
(* pending at that height.                                                 *)
NoStrandedVote ==
  \A u \in early :
    \/ pending[u.height] = None
    \/ pending[u.height].hash # u.hash
    \/ pc["driver"] \in {"own", "finalize", "guard", "drain"}

(* "Every finalization after a guard returns Ok": what the guard saw is    *)
(* finalized, with at least its votes.                                     *)
GuardedFinalizes ==
  [][\A t \in Tasks :
       pc[t] = "guard" /\ pc'[t] = back[t] =>
         /\ latest' >= JobHeight(t)
         /\ disk'[JobHeight(t)].hash = seen.hash
         /\ seen.votes \subseteq disk'[JobHeight(t)].votes]_vars

(* A proposal that raced a finalization does not outlive the driver's      *)
(* report: with both tasks idle every pending checkpoint is above the      *)
(* finalized height.                                                       *)
NoZombie ==
  (\A t \in Tasks : pc[t] = "idle") => \A h \in Held(pending) : h > latest

(* "A checkpoint whose certificate write failed finalizes once the store   *)
(* recovers even if no further vote ever arrives" (retry_finalizations):   *)
(* quorum leads to finality unless the entry is evicted or the node        *)
(* restarts.                                                               *)
QuorumFinalizes ==
  \A h \in Heights :
    h \in QuorumPendingHeights ~> (latest >= h \/ pending[h] = None)
=============================================================================
