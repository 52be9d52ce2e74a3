---------------------------- MODULE VoteSigning ----------------------------
(***************************************************************************)
(* How one validator signs its own checkpoint votes: the durable           *)
(* signed-vote record of the finality gadget, the safety stop that the     *)
(* floor verifier engages, and the tasks that race over both               *)
(* (core/consensus/src/checkpoint_gadget.rs).                              *)
(*                                                                         *)
(* Three tasks interleave.  The driver reports buried boundaries and signs *)
(* (on_buried_checkpoint, sign_own_vote); any task that finalized a        *)
(* checkpoint prunes the record (prune); the floor verifier engages and    *)
(* clears the stop.  A crash loses everything that is not on disk.         *)
(***************************************************************************)
EXTENDS Integers, FiniteSets

CONSTANTS
  Heights,          \* the checkpoint boundaries that occur
  Hashes,           \* the block hashes that can stand at a boundary
  Interval,         \* CheckpointConfig::interval
  MaxSignedHeights, \* MAX_SIGNED_HEIGHTS
  None              \* no hash / nothing cached

ASSUME IntervalAssumption == Interval \in Nat \ {0}
ASSUME SpanAssumption == MaxSignedHeights \in Nat \ {0}
ASSUME HeightsAssumption ==
  \A h \in Heights : h \in Nat /\ h > 0 /\ h % Interval = 0
ASSUME NoneAssumption ==
  /\ None \notin Hashes
  /\ None \notin [floor : Nat, highest : Nat]

VARIABLES
  record,    \* disk: checkpoint_signed:<chain>:<h>, height -> hash or None
  meta,      \* disk: checkpoint_signed_meta:<chain>, the watermarks
  cached,    \* memory: GadgetState.signed_meta, None until first loaded
  latest,    \* the manager's latest finalized height (on disk: certificates)
  engaged,   \* SafetyStop.engaged
  gate,      \* SafetyStop.gate: TRUE while the signing path holds it
  pc,        \* where the driver is in sign_own_vote
  job,       \* the boundary the driver is signing
  votes      \* every <<height, hash>> this validator ever let out

durable == <<record, meta, latest, votes>>
stop == <<engaged, gate>>
vars == <<record, meta, cached, latest, engaged, gate, pc, job, votes>>

Max2(a, b) == IF a >= b THEN a ELSE b
Min2(a, b) == IF a <= b THEN a ELSE b

NoJob == [height |-> 0, hash |-> None]
EmptyMeta == [floor |-> 0, highest |-> 0]

(* The span a signature may lie below the highest one: the interval times  *)
(* MAX_SIGNED_HEIGHTS.                                                     *)
Horizon == Interval * MaxSignedHeights

(* Boundaries in (after, upto], the first MAX_SIGNED_HEIGHTS + 1 of them.  *)
BoundariesBetween(after, upto) ==
  { h \in Heights :
      /\ after < h /\ h <= upto
      /\ h <= (after \div Interval) * Interval + Interval * (MaxSignedHeights + 1) }

DeleteRecords(rec, heights) ==
  [h \in Heights |-> IF h \in heights THEN None ELSE rec[h]]

Init ==
  /\ record = [h \in Heights |-> None]
  /\ meta = EmptyMeta
  /\ cached = None
  /\ latest = 0
  /\ engaged = FALSE
  /\ gate = FALSE
  /\ pc = "idle"
  /\ job = NoJob
  /\ votes = {}

----------------------------------------------------------------------------
(* The store as the gadget uses it: a batch is applied as a whole or not   *)
(* at all, and every read or write may fail.                               *)

(* The watermarks a step works with: the cached ones, else the stored.     *)
SignedMeta == IF cached = None THEN meta ELSE cached

----------------------------------------------------------------------------
(* The driver                                                              *)

(* A buried boundary reaches sign_own_vote: the unlocked halted() hint was *)
(* clear and the checkpoint is pending without this node's vote.           *)
ReportBuried(h, x) ==
  /\ pc = "idle"
  /\ ~engaged
  /\ h > latest
  /\ pc' = "permit"
  /\ job' = [height |-> h, hash |-> x]
  /\ UNCHANGED <<durable, cached, stop>>

(* Every return of sign_own_vote.                                          *)
Finish == pc' = "idle" /\ job' = NoJob

(* SafetyStop::signing_permit: wait for the gate, then look at the flag.   *)
SigningPermit ==
  /\ pc = "permit"
  /\ ~gate
  /\ IF engaged
     THEN Finish /\ UNCHANGED gate
     ELSE pc' = "authorize" /\ gate' = TRUE /\ UNCHANGED job
  /\ UNCHANGED <<durable, cached, engaged>>

(* authorize_sign, the ways it says no without writing: a failed read, a   *)
(* height at or below the floor (stored, or as this signature would raise  *)
(* it), another hash on record, or a failed batch.                         *)
Refuse ==
  /\ pc = "authorize"
  /\ gate' = FALSE
  /\ Finish
  /\ cached' \in {cached, SignedMeta}
  /\ UNCHANGED <<durable, engaged>>

(* The identical vote again: the record names this very hash.              *)
AuthorizeAgain ==
  /\ pc = "authorize"
  /\ job.height > SignedMeta.floor
  /\ record[job.height] = job.hash
  /\ cached' = SignedMeta
  /\ pc' = "sign"
  /\ UNCHANGED <<durable, stop, job>>

(* The record is only cached in memory: signing does not wait for the disk. *)
AuthorizeFirstUnsynced ==
  /\ pc = "authorize"
  /\ job.height > SignedMeta.floor
  /\ record[job.height] = None
  /\ cached' = [SignedMeta EXCEPT !.highest = Max2(@, job.height)]
  /\ pc' = "sign"
  /\ UNCHANGED <<durable, stop, job>>

(* The first signature at this height: one synced batch writes the record, *)
(* the watermarks and the deletions below the new floor.                   *)
AuthorizeFirst ==
  LET m       == SignedMeta
      highest == Max2(m.highest, job.height)
      floor   == Max2(m.floor, highest - Horizon)
      gone    == BoundariesBetween(m.floor, Min2(floor, m.highest))
      next    == [floor |-> floor, highest |-> highest]
  IN /\ pc = "authorize"
     /\ job.height > m.floor
     /\ record[job.height] = None
     /\ job.height > floor
     /\ record' = [DeleteRecords(record, gone) EXCEPT ![job.height] = job.hash]
     /\ meta' = next
     /\ cached' = next
     /\ pc' = "sign"
     /\ UNCHANGED <<latest, votes, stop, job>>

(* The vote is signed and the stop looked at once more under the gate.     *)
Recheck ==
  /\ pc = "sign"
  /\ IF engaged
     THEN Finish /\ gate' = FALSE
     ELSE pc' = "submit" /\ UNCHANGED <<job, gate>>
  /\ UNCHANGED <<durable, cached, engaged>>

(* Submit, queue for broadcast and release the gate.  submit_vote refuses  *)
(* when the pending checkpoint has gone meanwhile; the vote then never     *)
(* leaves this function.                                                   *)
SubmitOwnVote ==
  /\ pc = "submit"
  /\ votes' \in {votes, votes \union {<<job.height, job.hash>>}}
  /\ gate' = FALSE
  /\ Finish
  /\ UNCHANGED <<record, meta, latest, cached, engaged>>

----------------------------------------------------------------------------
(* The other tasks                                                         *)

(* A checkpoint finalizes at h (CheckpointManager::finalize_checkpoint).   *)
Finalized(h) ==
  /\ h > latest
  /\ latest' = h
  /\ UNCHANGED <<record, meta, votes, cached, stop, pc, job>>

(* The records go, the durable floor stays: the height can be signed anew. *)
PruneSignedRecordsNoFloor ==
  LET m == SignedMeta
  IN /\ latest > m.floor
     /\ record' = DeleteRecords(record, BoundariesBetween(m.floor, Min2(latest, m.highest)))
     /\ cached' = m
     /\ UNCHANGED <<meta, latest, votes, stop, pc, job>>

(* The floor is raised on disk only: the cached watermarks keep the old    *)
(* one, so the driver does not see it before a restart.                    *)
PruneSignedRecordsStaleCache ==
  LET m == SignedMeta
  IN /\ latest > m.floor
     /\ record' = DeleteRecords(record, BoundariesBetween(m.floor, Min2(latest, m.highest)))
     /\ meta' = [m EXCEPT !.floor = latest]
     /\ cached' = m
     /\ UNCHANGED <<latest, votes, stop, pc, job>>

(* prune: raise the durable floor to the finalized height and delete the   *)
(* records it covers, in one synced batch.                                 *)
PruneSignedRecords ==
  LET m == SignedMeta
  IN /\ latest > m.floor
     /\ record' = DeleteRecords(record, BoundariesBetween(m.floor, Min2(latest, m.highest)))
     /\ meta' = [m EXCEPT !.floor = latest]
     /\ cached' = meta'
     /\ UNCHANGED <<latest, votes, stop, pc, job>>

(* A prune that writes nothing (no higher floor, or a failed batch) may    *)
(* still have loaded the watermarks.                                       *)
LoadMeta ==
  /\ latest > 0
  /\ cached = None
  /\ cached' = meta
  /\ UNCHANGED <<durable, stop, pc, job>>

(* The flag is set without waiting for the signing gate.                   *)
EngageUngated ==
  /\ ~engaged
  /\ engaged' = TRUE
  /\ UNCHANGED <<durable, cached, gate, pc, job>>

(* SafetyStop::engage and clear: the flag is written only under the gate.  *)
Engage ==
  /\ ~gate
  /\ ~engaged
  /\ engaged' = TRUE
  /\ UNCHANGED <<durable, cached, gate, pc, job>>

Clear ==
  /\ ~gate
  /\ engaged
  /\ engaged' = FALSE
  /\ UNCHANGED <<durable, cached, gate, pc, job>>

(* The process stops and starts again on the same disk.                    *)
Crash ==
  /\ cached' = None
  /\ engaged' = FALSE
  /\ gate' = FALSE
  /\ Finish
  /\ UNCHANGED durable

Next ==
  \/ \E h \in Heights, x \in Hashes : ReportBuried(h, x)
  \/ SigningPermit
  \/ Refuse
  \/ AuthorizeAgain
  \/ AuthorizeFirst
  \/ Recheck
  \/ SubmitOwnVote
  \/ \E h \in Heights : Finalized(h)
  \/ PruneSignedRecords
  \/ LoadMeta
  \/ Engage
  \/ Clear
  \/ Crash

Spec == Init /\ [][Next]_vars

----------------------------------------------------------------------------
(* Properties                                                              *)

MetaType == [floor : Nat, highest : Nat]

(* Every variable has the type its declaration gives it; the driver holds  *)
(* a job exactly while it is inside sign_own_vote.                         *)
TypeOK ==
  /\ record \in [Heights -> Hashes \union {None}]
  /\ meta \in MetaType
  /\ cached \in MetaType \union {None}
  /\ latest \in Nat
  /\ engaged \in BOOLEAN
  /\ gate \in BOOLEAN
  /\ pc \in {"idle", "permit", "authorize", "sign", "submit"}
  /\ IF pc = "idle" THEN job = NoJob ELSE job \in [height : Heights, hash : Hashes]
  /\ votes \subseteq Heights \X Hashes

(* The signing gate (SafetyStop::signing_permit): it is held exactly from  *)
(* the permit to the queued vote, the cached watermarks are the stored     *)
(* ones, and no flag change gets in between: "always false while the       *)
(* permit is alive".                                                       *)
PermitInv ==
  /\ gate <=> pc \in {"authorize", "sign", "submit"}
  /\ gate => ~engaged
  /\ cached = None \/ cached = meta

(* No equivocation across restarts, pruning and failed writes              *)
(* (authorize_sign): whatever the node went through, it never let out      *)
(* votes for two different blocks at one height.                           *)
NoEquivocation ==
  \A u, v \in votes : u[1] = v[1] => u[2] = v[2]

(* The signing decision is durable before the vote exists (sign_own_vote): *)
(* every vote that left the node is on record, or its height is at or      *)
(* below the durable floor, where nothing is ever signed again.            *)
VotesOnRecord ==
  \A v \in votes : v[1] <= meta.floor \/ record[v[1]] = v[2]

(* What authorize_sign allowed stays right until the vote is queued: the   *)
(* authorized block is the one on record or its height is under the        *)
(* durable floor, and every vote already let out at the height is for the  *)
(* same block, although finalization and prune run between the report, the *)
(* authorization and the submission (sign_own_vote, prune_signed_records). *)
AuthorizedAlone ==
  pc \in {"sign", "submit"} =>
    /\ job.height <= meta.floor \/ record[job.height] = job.hash
    /\ \A v \in votes : v[1] = job.height => v[2] = job.hash

(* The record stays bounded (MAX_SIGNED_HEIGHTS): records exist only in    *)
(* (floor, highest], and never more than MAX_SIGNED_HEIGHTS of them.       *)
RecordsInSpan ==
  /\ \A h \in Heights : record[h] # None => meta.floor < h /\ h <= meta.highest
  /\ meta.highest - meta.floor <= Horizon

(* The record is exactly as durable and as long as signing needs it.       *)
RecordInv == VotesOnRecord /\ RecordsInSpan

(* "Once engage returns, no new signature is created until clear"          *)
(* (SafetyStop): no step lets a vote out while the stop is engaged.        *)
StopHaltsSigning == [][votes' # votes => ~engaged]_vars
=============================================================================
