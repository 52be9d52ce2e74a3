----------------------- MODULE FinalityGadget_proofs -----------------------
(***************************************************************************)
(* The guarantees of a node's finality tasks for every number of heights,  *)
(* blocks and validators, and for all caps: the rest of the proof that the *)
(* invariant of FinalityGadget_lemmas is inductive, and the theorems that  *)
(* follow from it.                                                         *)
(***************************************************************************)
EXTENDS FinalityGadget_lemmas

----------------------------------------------------------------------------
(* Replay markers                                                          *)

(* Heights, and the finalized height, are naturals.                        *)
LEMMA LatestNat ==
  ASSUME TypeInv
  PROVE  /\ Heights \subseteq Nat /\ latest \in Nat
         /\ \A t \in Tasks : floor[t] \in Nat
BY HeightsAssumption DEF TypeInv, ManagerTypeOK, LocalsOK

(* A prune never works with more than the finalized height.                *)
LEMMA FloorNext ==
  ASSUME TypeInv, TypeInv', FloorInv, [Next]_vars
  PROVE  FloorInv'
<1> USE DEF TypeInv, LocalsOK, Tasks, AtTask, Goto, Continue, Done, Returns, locals, manager,
   Propose, SubmitVote, PrunePending, PruneVoted, PersistCandidate, PersistCandidateFails
<1>1. ASSUME latest' = latest, \A s \in Tasks : floor'[s] \in {floor[s], 0, latest}
      PROVE  FloorInv'
  BY <1>1, LatestNat DEF FloorInv
<1>2. CASE \/ \E h \in Heights : \E x \in BlocksAt[h] : OnBuried(h, x)
           \/ EnsureProposed
           \/ SignOwnVote
           \/ SkipOwnVote
           \/ Drain
           \/ Replay
           \/ RetryFinalizations
           \/ RetryNext
           \/ \E due \in SUBSET Heights : RetryDue(due)
  BY <1>2, <1>1, Zenon DEF OnBuried, EnsureProposed, SignOwnVote, SkipOwnVote, Drain, Replay,
     RetryFinalizations, RetryNext, RetryDue
<1>3. CASE \/ \E h \in Heights, w \in Voters, signed \in BOOLEAN : \E x \in BlocksAt[h] :
                  OnInboundVote([height |-> h, hash |-> x, voter |-> w], signed)
           \/ SubmitPending
           \/ BufferEarly
           \/ BufferRecheck
           \/ BufferInsert
  BY <1>3, <1>1, ZenonT(30) DEF OnInboundVote, SubmitPending, BufferEarly, BufferRecheck,
     BufferInsert
<1>4. CASE \/ \E t \in Tasks : FinalizeNothing(t)
           \/ \E t \in Tasks : FinalizeFails(t)
           \/ \E t \in Tasks : FinalizeGuarded(t)
           \/ \E t \in Tasks : PruneFloor(t)
           \/ \E t \in Tasks : PruneManager(t)
           \/ \E t \in Tasks : PruneEarly(t)
  BY <1>4, <1>1, Zenon DEF FinalizeNothing, FinalizeFails, FinalizeGuarded, PruneFloor, PruneManager,
     PruneEarly
<1>5. ASSUME NEW t \in Tasks, FinalizeSettles(t)
      PROVE  FloorInv'
  BY <1>5, LatestNat, JobHeightOK DEF FinalizeSettles, Settle, Visible, FloorInv
<1>6. ASSUME NEW t \in Tasks, FinalizeUnguarded(t)
      PROVE  FloorInv'
  BY <1>6, LatestNat, JobHeightOK DEF FinalizeUnguarded, SettleUnguarded, Visible, FloorInv
<1>7. CASE Crash
  BY <1>7, HeightsAssumption DEF Crash, FloorInv, ManagerTypeOK
<1>8. CASE UNCHANGED vars
  BY <1>8, <1>1 DEF vars
<1>9. CASE OwnVoteMissing
  BY <1>9, <1>1, Zenon DEF OwnVoteMissing
<1> HIDE DEF TypeInv, LocalsOK, Tasks, AtTask, Goto, Continue, Done, Returns, locals, manager,
   Propose, SubmitVote, PrunePending, PruneVoted, PersistCandidate, PersistCandidateFails
<1> QED
  BY <1>2, <1>3, <1>4, <1>5, <1>6, <1>7, <1>8, <1>9, Zenon DEF Next, Driver, Net, Finalization

(* Markers that stay, of votes that stay.                                  *)
LEMMA MarkersStay ==
  ASSUME TypeInv, NoLockout, voted' \subseteq voted, latest' \in Nat, latest <= latest',
         \A m \in voted' : m[1] > latest' => pending'[m[1]] = pending[m[1]]
  PROVE  NoLockout'
<1>1. \A m \in voted : m[1] \in Nat
  BY LatestNat DEF TypeInv, ManagerTypeOK
<1> QED
  BY <1>1, LatestNat DEF NoLockout

(* submit_vote marks a voter exactly when it counts the vote.              *)
LEMMA SubmitVoteMarks ==
  ASSUME TypeInv, NoLockout, NEW v \in Vote, NEW signed, SubmitVote(v, signed)
  PROVE  NoLockout'
<1>1. CASE ~Accepts(v, signed)
  BY <1>1 DEF SubmitVote, NoLockout
<1>2. CASE Accepts(v, signed)
  <2>1. pending \in [Heights -> Entry \union {None}] /\ v.height \in Heights
    BY DEF TypeInv, ManagerTypeOK, Vote
  <2>2. pending[v.height] \in Entry
    BY <1>2, <2>1 DEF Accepts
  <2>3. pending' = [pending EXCEPT ![v.height].votes = pending[v.height].votes \union {v.voter}]
    BY <1>2 DEF SubmitVote
  <2>4. pending'[v.height] = [pending[v.height] EXCEPT !.votes = pending[v.height].votes \union {v.voter}]
    BY <2>1, <2>3
  <2>5. /\ pending'[v.height] \in Entry
        /\ pending'[v.height].votes = pending[v.height].votes \union {v.voter}
    <3>1. v.voter \in Voters
      BY DEF Vote
    <3> QED
      BY <2>2, <2>4, <3>1 DEF Entry
  <2>6. \A h \in Heights : h # v.height => pending'[h] = pending[h]
    BY <2>1, <2>3
  <2>7. voted' = voted \union {<<v.height, v.voter>>} /\ latest' = latest
    BY <1>2 DEF SubmitVote
  <2> SUFFICES ASSUME NEW m \in voted', m[1] > latest
               PROVE  pending'[m[1]] # None /\ m[2] \in pending'[m[1]].votes
    BY <2>7 DEF NoLockout
  <2>8. m[1] \in Heights
    BY <2>1, <2>7 DEF TypeInv, ManagerTypeOK
  <2>9. CASE m[1] = v.height
    <3>1. m \in voted => m[2] \in pending[v.height].votes
      BY <2>9 DEF NoLockout
    <3>2. m \notin voted => m[2] = v.voter
      BY <2>7
    <3> QED
      BY <2>5, <2>9, <3>1, <3>2, NoneAssumption DEF Entry
  <2>10. CASE m[1] # v.height
    <3>1. m \in voted
      BY <2>7, <2>10
    <3> QED
      BY <2>6, <2>8, <2>10, <3>1 DEF NoLockout
  <2> QED
    BY <2>9, <2>10
<1> QED
  BY <1>1, <1>2

(* A finalization drops the markers of its height with the entry.          *)
LEMMA VisibleUnlocks ==
  ASSUME TypeInv, NoLockout, NEW j \in Heights, NEW cert, Visible(j, cert)
  PROVE  NoLockout'
<1>1. latest' \in Nat /\ latest <= latest'
  BY LatestNat DEF Visible
<1>2. \A m \in voted' : m[1] \in Heights /\ m[1] # j
  BY DEF Visible, TypeInv, ManagerTypeOK
<1>3. \A m \in voted' : pending'[m[1]] = pending[m[1]]
  BY <1>2 DEF Visible, TypeInv, ManagerTypeOK
<1> QED
  BY <1>1, <1>3, MarkersStay DEF Visible

(* A marker above the finalized height always has its vote.                *)
LEMMA NoLockoutNext ==
  ASSUME TypeInv, FloorInv, NoLockout, Calls
  PROVE  NoLockout'
<1>0. \A m \in voted : m[1] \in Heights /\ m[1] \in Nat
  BY LatestNat DEF TypeInv, ManagerTypeOK
<1>1. CASE UNCHANGED manager
  BY <1>1 DEF manager, NoLockout
<1>2. ASSUME NEW h \in Heights, NEW x \in BlocksAt[h], pending[h] = None, Propose(h, x)
      PROVE  NoLockout'
  <2> DEFINE kept == Highest(pending, MaxPending - 1)
  <2> SUFFICES ASSUME NEW m \in voted', m[1] > latest
               PROVE  pending'[m[1]] = pending[m[1]]
    BY <1>2, MarkersStay, LatestNat DEF Propose
  <2>1. m \in voted /\ m[1] \in Heights /\ pending[m[1]] # None
    BY <1>0, <1>2, Zenon DEF Propose, NoLockout
  <2>2. m[1] \in kept /\ m[1] # h
    BY <1>2, <2>1, Zenon DEF Propose, Held
  <2> QED
    BY <1>2, <2>1, <2>2, Zenon DEF Propose, Only
<1>3. ASSUME NEW v \in Vote, NEW signed \in BOOLEAN, SubmitVote(v, signed), signed => Signed(v)'
      PROVE  NoLockout'
  BY <1>3, SubmitVoteMarks
<1>4. ASSUME NEW t \in Tasks, PrunePending(floor[t]) \/ PruneVoted(floor[t])
      PROVE  NoLockout'
  <2>1. CASE PrunePending(floor[t])
    <3>1. \A m \in voted : m[1] > latest => m[1] > floor[t]
      BY <1>0, LatestNat DEF FloorInv
    <3>2. \A m \in voted : m[1] > latest => pending'[m[1]] = pending[m[1]]
      BY <1>0, <2>1, <3>1 DEF PrunePending, Only
    <3> QED
      BY <2>1, <3>2, MarkersStay, LatestNat DEF PrunePending
  <2>2. CASE PruneVoted(floor[t])
    BY <2>2, MarkersStay, LatestNat DEF PruneVoted
  <2> QED
    BY <1>4, <2>1, <2>2
<1>5. ASSUME NEW h \in QuorumPendingHeights,
             PersistCandidate(h) \/ PersistCandidateFails(h) \/ SettleUnguarded(h)
      PROVE  NoLockout'
  <2>1. CASE PersistCandidate(h) \/ PersistCandidateFails(h)
    BY <2>1 DEF PersistCandidate, PersistCandidateFails, NoLockout
  <2>2. CASE SettleUnguarded(h)
    BY <2>2, VisibleUnlocks DEF SettleUnguarded, QuorumPendingHeights, Held
  <2> QED
    BY <1>5, <2>1, <2>2
<1>6. ASSUME NEW h \in Heights, seen \in Entry \ {None}, disk[h] = seen, Settle(h, seen)
      PROVE  NoLockout'
  BY <1>6, VisibleUnlocks DEF Settle
<1>7. CASE Load
  BY <1>7, Zenon DEF Load, NoLockout
<1> QED
  BY <1>1, <1>2, <1>3, <1>4, <1>5, <1>6, <1>7, ZenonT(30) DEF Calls

----------------------------------------------------------------------------
(* The early-vote buffer                                                   *)

(* Height h has no pending entry afterwards, or one for the same block.    *)
SameBlock(h) ==
  pending'[h] = None \/ (pending[h] # None /\ pending'[h].hash = pending[h].hash)

(* submit_vote proposes nothing and changes no entry's block.              *)
LEMMA SubmitVoteHash ==
  ASSUME ManagerTypeOK, NEW v \in Vote, NEW signed, SubmitVote(v, signed), NEW h \in Heights
  PROVE  SameBlock(h)
<1>1. CASE ~Accepts(v, signed)
  BY <1>1 DEF SubmitVote, SameBlock
<1>2. CASE Accepts(v, signed) /\ h # v.height
  BY <1>2 DEF SubmitVote, SameBlock, ManagerTypeOK
<1>3. CASE Accepts(v, signed) /\ h = v.height
  <2>1. pending[h] \in Entry /\ pending[h] # None
    BY <1>3 DEF Accepts, ManagerTypeOK
  <2>2. pending'[h] = [pending[h] EXCEPT !.votes = pending[h].votes \union {v.voter}]
    BY <1>3 DEF SubmitVote, ManagerTypeOK
  <2> QED
    BY <2>1, <2>2 DEF SameBlock, Entry
<1> QED
  BY <1>1, <1>2, <1>3

(* Nothing enters the buffer or the pending set, and a drain that was to   *)
(* come still comes.                                                       *)
LEMMA StrandStays ==
  ASSUME TypeInv, StrandInv, early' \subseteq early, \A h \in Heights : SameBlock(h),
         \A h \in Heights : WillDrain(h) => WillDrain(h)',
         pc'["net"] = "buffer" => pc["net"] = "buffer" /\ job'["net"] = job["net"]
  PROVE  StrandInv'
<1>1. \A u \in early : u.height \in Heights
  BY DEF TypeInv, Vote
<1>2. pc'["net"] = "buffer" => job["net"].vote.height \in Heights
  BY JobsTyped DEF InHand
<1>3. \A u \in early' :
        pending'[u.height] = None \/ pending'[u.height].hash # u.hash \/ WillDrain(u.height)'
  BY <1>1, Zenon DEF StrandInv, SameBlock
<1>4. pc'["net"] = "buffer" =>
        pending'[job["net"].vote.height] = None \/ WillDrain(job["net"].vote.height)'
  BY <1>2 DEF StrandInv, SameBlock
<1> QED
  BY <1>3, <1>4, Zenon DEF StrandInv, WillDrain, Proposed, Finalizing

(* Only the driver's own proposal puts an entry where there was none.      *)
LEMMA SameBlockNext ==
  ASSUME TypeInv, ~EnsureProposed, [Next]_vars
  PROVE  \A g \in Heights : SameBlock(g)
<1> USE DEF manager, TypeInv, ManagerTypeOK, PersistCandidate, PersistCandidateFails
<1>1. UNCHANGED pending => \A g \in Heights : SameBlock(g)
  BY DEF SameBlock
<1>2. CASE \/ \E h \in Heights : \E x \in BlocksAt[h] : OnBuried(h, x)
           \/ SkipOwnVote
           \/ Drain
           \/ RetryFinalizations
           \/ RetryNext
           \/ \E due \in SUBSET Heights : RetryDue(due)
  BY <1>2, <1>1, Zenon DEF OnBuried, SkipOwnVote, Drain, RetryFinalizations, RetryNext, RetryDue
<1>3. CASE EnsureProposed
  BY <1>3
<1>4. CASE SignOwnVote
  BY <1>4, JobsTyped, SubmitVoteHash, Zenon DEF SignOwnVote, AtTask, Proposed
<1>5. CASE Replay
  BY <1>5, <1>1, JobsTyped, SubmitVoteHash, Zenon DEF Replay, AtTask, Replaying
<1>6. CASE \E h \in Heights, w \in Voters, signed \in BOOLEAN : \E x \in BlocksAt[h] :
                  OnInboundVote([height |-> h, hash |-> x, voter |-> w], signed)
  BY <1>6, <1>1, Zenon DEF OnInboundVote
<1>7. CASE SubmitPending
  BY <1>7, JobsTyped, SubmitVoteHash, Zenon DEF SubmitPending, AtTask, InHand
<1>8. CASE \/ BufferEarly
           \/ BufferRecheck
           \/ BufferInsert
  BY <1>8, <1>1, Zenon DEF BufferEarly, BufferRecheck, BufferInsert
<1>9. CASE \/ \E t \in Tasks : FinalizeNothing(t)
           \/ \E t \in Tasks : FinalizeFails(t)
           \/ \E t \in Tasks : FinalizeGuarded(t)
           \/ \E t \in Tasks : PruneFloor(t)
           \/ \E t \in Tasks : PruneEarly(t)
  BY <1>9, <1>1, Zenon DEF FinalizeNothing, FinalizeFails, FinalizeGuarded, PruneFloor, PruneEarly
<1>10. ASSUME NEW t \in Tasks, FinalizeSettles(t)
      PROVE  \A g \in Heights : SameBlock(g)
  BY <1>10, Zenon DEF FinalizeSettles, Settle, Visible, SameBlock
<1>11. ASSUME NEW t \in Tasks, FinalizeUnguarded(t)
      PROVE  \A g \in Heights : SameBlock(g)
  BY <1>11 DEF FinalizeUnguarded, SettleUnguarded, Visible, SameBlock
<1>12. ASSUME NEW t \in Tasks, PruneManager(t)
      PROVE  \A g \in Heights : SameBlock(g)
  BY <1>12 DEF PruneManager, PrunePending, PruneVoted, Only, SameBlock
<1>13. CASE Crash
  BY <1>13 DEF Crash, Load, Nothing, SameBlock
<1>14. CASE UNCHANGED vars
  BY <1>14, <1>1 DEF vars
<1>15. CASE OwnVoteMissing
  BY <1>15, <1>1, Zenon DEF OwnVoteMissing
<1> HIDE DEF manager, TypeInv, ManagerTypeOK, PersistCandidate, PersistCandidateFails
<1> QED
  BY <1>2, <1>3, <1>4, <1>5, <1>6, <1>7, <1>8, <1>9, <1>10, <1>11, <1>12, <1>13, <1>14, <1>15, ZenonT(30)
     DEF Next, Driver, Net, Finalization

(* The driver's proposal: its drain of that height is still to come.       *)
LEMMA StrandPropose ==
  ASSUME TypeInv, StrandInv, EnsureProposed
  PROVE  StrandInv'
<1> DEFINE v == job["driver"]
<1>1. v.height \in Heights /\ pc["driver"] = "propose"
  BY DEF EnsureProposed, AtTask, TypeInv, DriverOK, OwnVote, Vote
<1>2. \A h \in Heights : ~WillDrain(h)
  BY <1>1 DEF WillDrain, Proposed, Finalizing
<1>3. UNCHANGED early /\ job'["net"] = job["net"] /\ (pc'["net"] = "buffer" => pc["net"] = "buffer")
  BY DEF EnsureProposed, TypeInv, LocalsOK, Tasks, AtTask, Goto, Continue, Done, Returns, locals
<1>4. CASE UNCHANGED manager
  BY <1>2, <1>3, <1>4, StrandStays DEF manager, SameBlock
<1>5. CASE Propose(v.height, v.hash) /\ Continue("driver", "own")
  <2>1. WillDrain(v.height)'
    BY <1>5 DEF WillDrain, Proposed, TypeInv, LocalsOK, Tasks, AtTask, Goto, Continue, Done, Returns, locals
  <2>2. \A h \in Heights : h # v.height => pending'[h] \in {pending[h], None}
    BY <1>1, <1>5, Zenon DEF Propose, Only
  <2>3. \A u \in early : u.height \in Heights
    BY DEF TypeInv, Vote
  <2>4. \A u \in early' : u.height # v.height =>
          pending'[u.height] = None \/ pending'[u.height].hash # u.hash
    BY <1>2, <1>3, <2>2, <2>3 DEF StrandInv
  <2>5. pc'["net"] = "buffer" => job["net"].vote.height \in Heights
    BY <1>3, JobsTyped DEF InHand
  <2>6. pc'["net"] = "buffer" => job["net"].vote.height = v.height \/ pending'[job["net"].vote.height] = None
    BY <1>2, <1>3, <2>2, <2>5, Zenon DEF StrandInv
  <2>7. job' = job
    BY <1>5 DEF Continue
  <2> QED
    BY <1>3, <2>1, <2>4, <2>6, <2>7, Zenon DEF StrandInv, WillDrain, Proposed, Finalizing
<1> QED
  BY <1>4, <1>5, Zenon DEF EnsureProposed

(* No vote stays in the buffer for a checkpoint whose drain is over.       *)
LEMMA StrandNext ==
  ASSUME TypeInv, StrandInv, [Next]_vars
  PROVE  StrandInv'
<1> USE DEF TypeInv, LocalsOK, Tasks, AtTask, Goto, Continue, Done, Returns, locals, WillDrain,
   Proposed, Finalizing
<1>1. ASSUME early' \subseteq early, \A h \in Heights : WillDrain(h) => WillDrain(h)',
             pc'["net"] = "buffer" => pc["net"] = "buffer" /\ job'["net"] = job["net"]
      PROVE  StrandInv'
  BY <1>1, SameBlockNext, StrandStays, StrandPropose, Zenon
<1>2. CASE \/ \E h \in Heights : \E x \in BlocksAt[h] : OnBuried(h, x)
           \/ SkipOwnVote
           \/ Replay
           \/ RetryFinalizations
           \/ RetryNext
           \/ \E due \in SUBSET Heights : RetryDue(due)
  BY <1>2, <1>1, Zenon DEF OnBuried, SkipOwnVote, Replay, RetryFinalizations, RetryNext,
     RetryDue
<1>3. CASE EnsureProposed
  BY <1>3, StrandPropose
<1>4. CASE SignOwnVote
  BY <1>4, <1>1, Zenon DEF SignOwnVote
<1>5. CASE Drain
  <2> DEFINE v == job["driver"]
  <2>1. pc["net"] # "buffer" /\ pc'["net"] = pc["net"]
    BY <1>5, SettingsAssumption, Zenon DEF Drain, TypeInv, LocksOK, LocalsOK, Goto, Tasks
  <2>2. \A u \in early' : u \in early /\ u.height # v.height
    BY <1>5, Zenon DEF Drain
  <2>3. \A u \in early' : pending'[u.height] = None \/ pending'[u.height].hash # u.hash
    BY <1>5, <2>2 DEF Drain, manager, StrandInv, WillDrain
  <2> QED
    BY <2>1, <2>3 DEF StrandInv
<1>6. CASE \E h \in Heights, w \in Voters, signed \in BOOLEAN : \E x \in BlocksAt[h] :
                  OnInboundVote([height |-> h, hash |-> x, voter |-> w], signed)
  BY <1>6, <1>1 DEF OnInboundVote
<1>7. CASE SubmitPending
  BY <1>7, <1>1 DEF SubmitPending
<1>8. CASE BufferEarly
  BY <1>8, <1>1 DEF BufferEarly
<1>9. CASE BufferRecheck
  <2>1. UNCHANGED <<pending, early, job>>
    BY <1>9, Zenon DEF BufferRecheck, manager
  <2>2. \A g \in Heights : WillDrain(g) => WillDrain(g)'
    BY <1>9, Zenon DEF BufferRecheck, TypeInv, LocalsOK, Tasks, AtTask, Goto, Continue, Done, Returns, locals, WillDrain, Proposed, Finalizing
  <2>3. \A u \in early : u.height \in Heights
    BY DEF TypeInv, Vote
  <2>4. pc'["net"] = "buffer" => pending[job["net"].vote.height] = None
    BY <1>9 DEF BufferRecheck, Goto, TypeInv, LocalsOK, Tasks
  <2>5. \A u \in early' :
          pending'[u.height] = None \/ pending'[u.height].hash # u.hash \/ WillDrain(u.height)'
    BY <2>1, <2>2, <2>3, Zenon DEF StrandInv
  <2> QED
    BY <2>1, <2>4, <2>5, Zenon DEF StrandInv, WillDrain, Proposed, Finalizing
<1>10. CASE BufferInsert
  <2> DEFINE v == job["net"].vote
  <2>1. early' \subseteq early \union {v} /\ pending' = pending
    BY <1>10 DEF BufferInsert, manager
  <2>2. \A g \in Heights : WillDrain(g) => WillDrain(g)'
    BY <1>10 DEF BufferInsert, TypeInv, LocalsOK, Tasks, AtTask, Goto, Continue, Done, Returns, locals, WillDrain, Proposed, Finalizing
  <2>3. v.height \in Heights /\ \A u \in early : u.height \in Heights
    BY <1>10, JobsTyped, Zenon DEF BufferInsert, InHand, Vote
  <2>4. pending[v.height] = None \/ WillDrain(v.height)
    BY <1>10 DEF BufferInsert, AtTask, StrandInv
  <2>5. pc'["net"] # "buffer"
    BY <1>10 DEF BufferInsert, TypeInv, LocalsOK, Tasks, AtTask, Goto, Continue, Done, Returns, locals
  <2>6. \A u \in early' :
          pending'[u.height] = None \/ pending'[u.height].hash # u.hash \/ WillDrain(u.height)'
    BY <2>1, <2>2, <2>3, <2>4, Zenon DEF StrandInv
  <2> QED
    BY <2>5, <2>6 DEF StrandInv, WillDrain, Proposed, Finalizing
<1>11. CASE \E t \in Tasks : FinalizeNothing(t)
  BY <1>11, <1>1, BackOK, Zenon DEF FinalizeNothing
<1>12. CASE \E t \in Tasks : FinalizeFails(t)
  BY <1>12, <1>1, BackOK DEF FinalizeFails
<1>13. CASE \E t \in Tasks : FinalizeGuarded(t)
  BY <1>13, <1>1, BackOK, Zenon DEF FinalizeGuarded
<1>14. CASE \E t \in Tasks : FinalizeSettles(t)
  BY <1>14, <1>1, BackOK, Zenon DEF FinalizeSettles
<1>15. CASE \E t \in Tasks : FinalizeUnguarded(t)
  BY <1>15, <1>1, BackOK DEF FinalizeUnguarded
<1>16. CASE \E t \in Tasks : PruneFloor(t)
  BY <1>16, <1>1 DEF PruneFloor
<1>17. CASE \E t \in Tasks : PruneManager(t)
  BY <1>17, <1>1 DEF PruneManager
<1>18. CASE \E t \in Tasks : PruneEarly(t)
  BY <1>18, <1>1 DEF PruneEarly
<1>19. CASE Crash
  BY <1>19 DEF Crash, StrandInv, Tasks
<1>20. CASE UNCHANGED vars
  BY <1>20, <1>1 DEF vars
<1>21. CASE OwnVoteMissing
  BY <1>21, <1>1, Zenon DEF OwnVoteMissing
<1> HIDE DEF TypeInv, LocalsOK, Tasks, AtTask, Goto, Continue, Done, Returns, locals, WillDrain,
   Proposed, Finalizing
<1> QED
  BY <1>2, <1>3, <1>4, <1>5, <1>6, <1>7, <1>8, <1>9, <1>10, <1>11, <1>12, <1>13, <1>14, <1>15,
     <1>16, <1>17, <1>18, <1>19, <1>20, <1>21, Zenon DEF Next, Driver, Net, Finalization

----------------------------------------------------------------------------
(* Proposals that raced a finalization                                     *)

(* The driver prunes after every report.                                   *)
LEMMA ZombiePropose ==
  ASSUME TypeInv, ZombieInv, EnsureProposed
  PROVE  ZombieInv'
<1> USE DEF TypeInv, LocalsOK, Tasks, AtTask, Goto, Continue, Done
<1>1. CASE Continue("driver", "own")
  <2>1. \A h \in Heights : WillPrune("driver", h)'
    BY <1>1 DEF WillPrune, Proposed
  <2> QED
    BY <2>1 DEF ZombieInv, Held
<1>2. CASE (Continue("driver", "missing") \/ Done("driver")) /\ UNCHANGED manager
  <2>1. \A s \in Tasks, h \in Heights : WillPrune(s, h) => WillPrune(s, h)'
    BY <1>2, Zenon DEF EnsureProposed, WillPrune, Proposed, Replaying, Retrying, Finalizing
  <2> QED
    BY <1>2, <2>1 DEF manager, ZombieInv, Held
<1> QED
  BY <1>1, <1>2 DEF EnsureProposed

(* Whatever is pending at or below the finalized height, a prune is coming. *)
LEMMA ZombieNext ==
  ASSUME TypeInv, ZombieInv, [Next]_vars
  PROVE  ZombieInv'
<1> USE DEF TypeInv, LocalsOK, Tasks, AtTask, Goto, Continue, Done, Returns, locals, WillPrune,
   Proposed, Replaying, Retrying, Finalizing, manager, SubmitVote, PersistCandidate,
   PersistCandidateFails
<1>1. ASSUME latest' = latest,
             \A s \in Tasks, h \in Heights : h <= latest /\ WillPrune(s, h) => WillPrune(s, h)'
      PROVE  ZombieInv'
  <2>1. CASE EnsureProposed
    BY <2>1, ZombiePropose
  <2>2. CASE ~EnsureProposed
    <3>1. Held(pending') \subseteq Held(pending)
      BY <2>2, SameBlockNext DEF SameBlock, Held
    <3> QED
      BY <1>1, <3>1, Zenon DEF ZombieInv, Held
  <2> QED
    BY <2>1, <2>2
<1>2. CASE \E h \in Heights : \E x \in BlocksAt[h] : OnBuried(h, x)
  BY <1>2, <1>1, Zenon DEF OnBuried
<1>3. CASE EnsureProposed
  BY <1>3, ZombiePropose
<1>4. CASE SignOwnVote
  BY <1>4, <1>1 DEF SignOwnVote
<1>5. CASE SkipOwnVote
  BY <1>5, <1>1 DEF SkipOwnVote
<1>6. CASE Drain
  BY <1>6, <1>1 DEF Drain
<1>7. CASE Replay
  BY <1>7, <1>1, Zenon DEF Replay
<1>8. CASE RetryFinalizations
  BY <1>8, <1>1 DEF RetryFinalizations
<1>9. CASE RetryNext
  BY <1>9, <1>1 DEF RetryNext
<1>10. CASE \E due \in SUBSET Heights : RetryDue(due)
  BY <1>10, <1>1, ZenonT(30) DEF RetryDue
<1>11. CASE \E h \in Heights, w \in Voters, signed \in BOOLEAN : \E x \in BlocksAt[h] :
                  OnInboundVote([height |-> h, hash |-> x, voter |-> w], signed)
  BY <1>11, <1>1 DEF OnInboundVote
<1>12. CASE SubmitPending
  BY <1>12, <1>1 DEF SubmitPending
<1>13. CASE BufferEarly
  BY <1>13, <1>1 DEF BufferEarly
<1>14. CASE BufferRecheck
  BY <1>14, <1>1, Zenon DEF BufferRecheck
<1>15. CASE BufferInsert
  BY <1>15, <1>1, Zenon DEF BufferInsert
<1>16. CASE \E t \in Tasks : FinalizeNothing(t)
  BY <1>16, <1>1, BackOK DEF FinalizeNothing
<1>17. CASE \E t \in Tasks : FinalizeFails(t)
  BY <1>17, <1>1 DEF FinalizeFails
<1>18. CASE \E t \in Tasks : FinalizeGuarded(t)
  BY <1>18, <1>1 DEF FinalizeGuarded
<1>19. ASSUME NEW t \in Tasks, FinalizeSettles(t)
      PROVE  ZombieInv'
  <2>1. \A h \in Heights : WillPrune(t, h)'
    BY <1>19, BackOK, Zenon DEF FinalizeSettles
  <2> QED
    BY <2>1 DEF ZombieInv, Held
<1>20. ASSUME NEW t \in Tasks, FinalizeUnguarded(t)
      PROVE  ZombieInv'
  <2>1. \A h \in Heights : WillPrune(t, h)'
    BY <1>20, BackOK, Zenon DEF FinalizeUnguarded
  <2> QED
    BY <2>1 DEF ZombieInv, Held
<1>21. CASE \E t \in Tasks : PruneFloor(t)
  BY <1>21, <1>1 DEF PruneFloor
<1>22. ASSUME NEW t \in Tasks, PruneManager(t)
      PROVE  ZombieInv'
  <2>1. CASE PrunePending(floor[t])
    <3>1. latest' = latest /\ \A h \in Held(pending') : h \in Held(pending) /\ h > floor[t]
      BY <2>1, Zenon DEF PrunePending, Only, Held
    <3>2. \A s \in Tasks, h \in Heights : h > floor[t] /\ WillPrune(s, h) => WillPrune(s, h)'
      BY <1>22, <2>1, LatestNat DEF PruneManager
    <3> QED
      BY <3>1, <3>2, Zenon DEF ZombieInv, Held
  <2>2. CASE AtTask(t, "pruneVoted") /\ PruneVoted(floor[t]) /\ Goto(t, "pruneEarly")
    BY <1>22, <1>1, <2>2, Zenon DEF PruneManager, PruneVoted
  <2> QED
    BY <1>22, <2>1, <2>2, Zenon DEF PruneManager
<1>23. CASE \E t \in Tasks : PruneEarly(t)
  BY <1>23, <1>1, Zenon DEF PruneEarly
<1>24. CASE Crash
  BY <1>24, Zenon DEF Crash, Load, Nothing, ZombieInv, Held
<1>25. CASE UNCHANGED vars
  BY <1>25, <1>1, Zenon DEF vars
<1>26. CASE OwnVoteMissing
  BY <1>26, <1>1, Zenon DEF OwnVoteMissing
<1> HIDE DEF TypeInv, LocalsOK, Tasks, AtTask, Goto, Continue, Done, Returns, locals, WillPrune,
   Proposed, Replaying, Retrying, Finalizing, manager, SubmitVote, PersistCandidate,
   PersistCandidateFails
<1> QED
  BY <1>2, <1>3, <1>4, <1>5, <1>6, <1>7, <1>8, <1>9, <1>10, <1>11, <1>12, <1>13, <1>14, <1>15,
     <1>16, <1>17, <1>18, <1>19, <1>20, <1>21, <1>22, <1>23, <1>24, <1>25, <1>26, ZenonT(30) DEF Next, Driver, Net,
     Finalization

----------------------------------------------------------------------------
(* One certificate per height                                              *)

(* Two sets of more than two thirds of C share a member outside B when B   *)
(* has fewer than a third of C: an honest member is in both quorums.       *)
LEMMA QuorumsMeet ==
  ASSUME NEW C, NEW B, NEW S, NEW T,
         IsFiniteSet(C), S \subseteq C, T \subseteq C,
         3 * Cardinality(C \intersect B) < Cardinality(C),
         3 * Cardinality(S) > 2 * Cardinality(C), 3 * Cardinality(T) > 2 * Cardinality(C)
  PROVE  \E v \in S \intersect T : v \notin B
<1> SUFFICES ASSUME S \intersect T \subseteq C \intersect B PROVE FALSE
  OBVIOUS
<1>1. IsFiniteSet(S) /\ IsFiniteSet(T) /\ IsFiniteSet(C \intersect B)
  BY FS_Subset
<1>2. IsFiniteSet(S \union T) /\ IsFiniteSet(S \intersect T)
  BY <1>1, FS_Union, FS_Intersection, Zenon
<1>3. /\ Cardinality(S) \in Nat /\ Cardinality(T) \in Nat /\ Cardinality(C) \in Nat
      /\ Cardinality(C \intersect B) \in Nat
      /\ Cardinality(S \union T) \in Nat /\ Cardinality(S \intersect T) \in Nat
  BY <1>1, <1>2, FS_CardinalityType
<1>4. Cardinality(S \union T) = Cardinality(S) + Cardinality(T) - Cardinality(S \intersect T)
  BY <1>1, FS_Union
<1>5. Cardinality(S \union T) <= Cardinality(C)
  BY FS_Subset, S \union T \subseteq C
<1>6. Cardinality(S \intersect T) <= Cardinality(C \intersect B)
  BY <1>1, FS_Subset
<1> QED
  BY <1>3, <1>4, <1>5, <1>6

(* Two entries of one height with sound quorums are for the same block: an *)
(* honest validator, this node included, signs one block per height.       *)
LEMMA OneCertificate ==
  ASSUME Assumptions, TypeInv, NEW h \in Heights, NEW e \in Entry, NEW f \in Entry,
         EntrySound(h, e), EntrySound(h, f), HasDerivedQuorum(e), HasDerivedQuorum(f)
  PROVE  e.hash = f.hash
<1>1. setting \in Settings
  BY DEF TypeInv, SignaturesOK
<1>2. Committee[e.hash] = Committee[f.hash]
  BY <1>1 DEF Assumptions, SharedCommittee, EntrySound, BlocksAt
<1> DEFINE C == Committee[e.hash]
<1>3. 3 * Cardinality(C \intersect Byzantine) < Cardinality(C)
  BY <1>1, Zenon DEF Assumptions, FewByzantine, EntrySound, BlocksAt, Byzantine
<1>4. IsFiniteSet(C) /\ e.votes \subseteq C /\ f.votes \subseteq C /\ C \subseteq Voters
  <2>1. C \subseteq Voters
    BY CommitteeAssumption DEF Entry
  <2> QED
    BY <1>2, <2>1, VotersAssumption, FS_Subset, Zenon DEF EntrySound
<1>5. 3 * Cardinality(e.votes) > 2 * Cardinality(C) /\ 3 * Cardinality(f.votes) > 2 * Cardinality(C)
  <2> DEFINE n == Cardinality(C)
  <2>1. n \in Nat /\ Cardinality(e.votes) \in Nat /\ Cardinality(f.votes) \in Nat
    BY <1>4, FS_Subset, FS_CardinalityType, Zenon
  <2>2. Cardinality(e.votes) >= DerivedQuorum(n) /\ Cardinality(f.votes) >= DerivedQuorum(n)
    BY <1>2, Zenon DEF HasDerivedQuorum
  <2> HIDE DEF n
  <2>3. 3 * Cardinality(e.votes) > 2 * n /\ 3 * Cardinality(f.votes) > 2 * n
    BY <2>1, <2>2 DEF DerivedQuorum
  <2> QED
    BY <2>3 DEF n
<1>6. PICK w \in e.votes \intersect f.votes : w \notin Byzantine
  <2> HIDE DEF C
  <2> QED
    BY <1>3, <1>4, <1>5, QuorumsMeet, Zenon
<1>7. /\ Signed([height |-> h, hash |-> e.hash, voter |-> w])
      /\ Signed([height |-> h, hash |-> f.hash, voter |-> w])
  BY <1>6, Zenon DEF EntrySound
<1> QED
  BY <1>6, <1>7, Zenon DEF Signed, Peers

(* A certificate on disk is only replaced by one for the same block.       *)
LEMMA CertificateKept ==
  ASSUME Assumptions, TypeInv, PendingSound, DiskSound, Calls, NEW h \in Held(disk)
  PROVE  disk'[h] # None /\ disk'[h].hash = disk[h].hash
<1>1. h \in Heights /\ disk[h] \in Entry /\ disk[h] # None
  BY DEF Held, TypeInv, ManagerTypeOK
<1>2. CASE disk'[h] = disk[h]
  BY <1>1, <1>2
<1>3. CASE Rewritten(h)
  <2>1. pending[h] \in Entry /\ pending[h] # None
    BY <1>3, Zenon DEF Rewritten, QuorumPendingHeights, Held, TypeInv, ManagerTypeOK
  <2>2. EntrySound(h, pending[h]) /\ HasDerivedQuorum(pending[h])
    BY <1>3 DEF Rewritten, QuorumPendingHeights, PendingSound
  <2>3. EntrySound(h, disk[h]) /\ HasDerivedQuorum(disk[h])
    BY DEF DiskSound
  <2> QED
    BY <1>1, <1>3, <2>1, <2>2, <2>3, OneCertificate, Zenon DEF Rewritten
<1> QED
  BY <1>1, <1>2, <1>3, DiskNext, Zenon

----------------------------------------------------------------------------
(* The inductive invariant                                                 *)

(* A node that starts with an empty store satisfies the invariant.         *)
LEMMA InitIInv == Init => IInv
<1> SUFFICES ASSUME Init PROVE IInv
  OBVIOUS
<1>1. ManagerTypeOK /\ Held(pending) = {} /\ Held(finalized) = {} /\ Held(disk) = {}
  BY Zenon DEF Init, ManagerInit, ManagerTypeOK, Nothing, Held
<1>2. Capped
  BY <1>1, FS_EmptySet, CapsAssumption DEF Capped
<1>3. SignaturesOK
  <2>1. peerVote \in [Peers -> [Heights -> Hashes \union {None}]]
    BY DEF Init
  <2> QED
    BY <2>1, Zenon DEF Init, SignaturesOK, Nothing
<1>4. LocalsOK
  BY Zenon DEF Init, LocalsOK, Tasks, Labels, Jobs
<1>5. DriverOK /\ NetOK /\ LocksOK
  BY Zenon, SettingsAssumption
     DEF Init, DriverOK, NetOK, LocksOK, Tasks, Proposed, Replaying, Retrying, Finalizing,
         InHand
<1>6. early = {} /\ voted = {} /\ latest = 0 /\ \A t \in Tasks : pc[t] = "idle" /\ floor[t] = 0
  BY Zenon DEF Init, ManagerInit
<1>7. TypeInv
  BY <1>1, <1>3, <1>4, <1>5, <1>6, Zenon DEF TypeInv
<1>8. SoundInv
  BY <1>1, <1>6 DEF SoundInv, PendingSound, DiskSound, VotesSound, Replaying, Finalizing, InHand, Tasks
<1>9. GuardInv /\ FloorInv /\ NoLockout
  <2>1. GuardInv /\ NoLockout
    BY <1>6 DEF GuardInv, NoLockout
  <2>2. FloorInv
    BY <1>6 DEF FloorInv
  <2> QED
    BY <2>1, <2>2
<1>10. StrandInv /\ ZombieInv
  BY <1>1, <1>6 DEF StrandInv, ZombieInv, Tasks
<1> QED
  BY <1>2, <1>7, <1>8, <1>9, <1>10, Zenon DEF IInv

(* Every step of the tasks, a restart included, keeps it.                  *)
LEMMA NextIInv == IInv /\ [Next]_vars => IInv'
<1> SUFFICES ASSUME IInv, [Next]_vars PROVE IInv'
  OBVIOUS
<1> USE DEF IInv, SoundInv
<1>1. Calls
  BY CallsNext
<1>2. TypeInv' /\ Capped'
  BY TypeNext
<1>3. SoundInv'
  BY <1>1, PendingSoundNext, DiskSoundNext, VotesSoundNext, Zenon
<1>4. GuardInv' /\ FloorInv' /\ NoLockout'
  BY <1>1, <1>2, GuardNext, FloorNext, NoLockoutNext, Zenon
<1>5. StrandInv' /\ ZombieInv'
  BY <1>1, <1>2, StrandNext, ZombieNext
<1> QED
  BY <1>2, <1>3, <1>4, <1>5

(* The invariant of the gadget's tasks: it holds in every state of every   *)
(* instance.                                                               *)
THEOREM Invariance == Spec => []IInv
BY InitIInv, NextIInv, PTL DEF Spec

----------------------------------------------------------------------------
(* The properties                                                          *)

(* The manager's maps stay typed and within max_pending and max_finalized  *)
(* whatever proposals, votes and finalizations come (the cap enforcement   *)
(* in ensure_proposed, settle and load).                                   *)
THEOREM TypesAndCaps == Spec => []TypeOK
<1>1. IInv => TypeOK
  BY DEF IInv, TypeInv, LocksOK, Capped, TypeOK
<1> QED
  BY <1>1, Invariance, PTL

(* Every certificate on disk is for a block of its height and carries a    *)
(* derived quorum of committee votes that their voters really signed, also *)
(* after failed writes and restarts.                                       *)
THEOREM StoredCertificatesSound == Spec => []CertificatesSound
<1>1. IInv => CertificatesSound
  BY Zenon DEF IInv, SoundInv, DiskSound, EntrySound, CertificatesSound
<1> QED
  BY <1>1, Invariance, PTL

(* No validator is marked as having voted at an open height whose entry    *)
(* does not hold their vote: the voted markers of submit_vote, the         *)
(* eviction in ensure_proposed and the two prunes agree.                   *)
THEOREM NobodyLockedOut == Spec => []NoLockout
<1>1. IInv => NoLockout
  BY Zenon DEF IInv
<1> QED
  BY <1>1, Invariance, PTL

(* No vote stays in the early buffer beside a pending entry it belongs to, *)
(* unless the driver is about to drain it: the re-check under the buffer   *)
(* lock closes the race between on_inbound_vote and ensure_proposed.       *)
THEOREM NoVoteStranded == Spec => []NoStrandedVote
<1>1. IInv => NoStrandedVote
  BY DEF IInv, StrandInv, NoStrandedVote, WillDrain, Proposed, Finalizing
<1> QED
  BY <1>1, Invariance, PTL

(* When both tasks are idle no pending checkpoint is at or below the       *)
(* latest finalized height: whichever task finalizes goes on to prune.     *)
THEOREM NoZombieStays == Spec => []NoZombie
<1>1. IInv => NoZombie
  <2> SUFFICES ASSUME IInv, \A t \in Tasks : pc[t] = "idle", NEW h \in Held(pending)
               PROVE  h > latest
    BY DEF NoZombie
  <2>1. \A t \in Tasks : ~WillPrune(t, h)
    BY DEF WillPrune, Proposed, Replaying, Retrying, Finalizing, Tasks
  <2>2. h \in Nat /\ latest \in Nat
    BY LatestNat DEF IInv, Held
  <2> QED
    BY <2>1, <2>2 DEF IInv, ZombieInv
<1> QED
  BY <1>1, Invariance, PTL

(* A finalization whose guard said yes does finalize: the height becomes   *)
(* visible with the block and at least the votes the guard saw, whatever   *)
(* ran while the locks were released.                                      *)
THEOREM GuardOkFinalizes == Spec => GuardedFinalizes
<1> DEFINE A == \A t \in Tasks :
                  pc[t] = "guard" /\ pc'[t] = back[t] =>
                    /\ latest' >= JobHeight(t)
                    /\ disk'[JobHeight(t)].hash = seen.hash
                    /\ seen.votes \subseteq disk'[JobHeight(t)].votes
<1>1. IInv /\ [Next]_vars => A
  <2> SUFFICES ASSUME IInv, [Next]_vars, NEW t \in Tasks, pc[t] = "guard", pc'[t] = back[t]
               PROVE  /\ latest' >= JobHeight(t)
                      /\ disk'[JobHeight(t)].hash = seen.hash
                      /\ seen.votes \subseteq disk'[JobHeight(t)].votes
    OBVIOUS
  <2> DEFINE j == JobHeight(t)
  <2>1. /\ TypeInv /\ back[t] \in {"drain", "replay", "retry", "prune"}
        /\ j \in Heights /\ j \in Nat /\ latest \in Nat /\ disk[j] = seen
    BY BackOK, JobHeightOK, LatestNat, Zenon DEF IInv, GuardInv
  <2>2. FinalizeSettles(t)
    <3> USE DEF AtTask, Goto, Continue, Done, Returns, TypeInv, LocalsOK, Tasks
    <3>1. ~UNCHANGED vars /\ ~Crash
      BY <2>1 DEF vars, locals, Crash
    <3>2. ~Driver \/ FinalizeSettles(t)
      BY <2>1, Zenon DEF Driver, OnBuried, EnsureProposed, OwnVoteMissing, SignOwnVote, SkipOwnVote, Drain,
         Replay, RetryFinalizations, RetryNext, RetryDue
    <3>3. ~Net
      BY <2>1, ZenonT(30) DEF Net, OnInboundVote, SubmitPending, BufferEarly, BufferRecheck,
         BufferInsert
    <3>4. ASSUME NEW s \in Tasks, Finalization(s) PROVE FinalizeSettles(t)
      BY <2>1, <3>4, Zenon DEF Finalization, FinalizeNothing, FinalizeFails, FinalizeGuarded, FinalizeUnguarded,
           FinalizeSettles, PruneFloor, PruneManager, PruneEarly
    <3> QED
      BY <3>1, <3>2, <3>3, <3>4, Zenon DEF Next
  <2>3. latest' = IF j > latest THEN j ELSE latest
    BY <2>2, Zenon DEF FinalizeSettles, Settle, Visible
  <2> HIDE DEF j
  <2>4. latest' >= j
    BY <2>1, <2>3
  <2>5. /\ disk'[j].hash = seen.hash
        /\ seen.votes \subseteq disk'[j].votes
    BY <2>1, <2>2, Zenon DEF j, FinalizeSettles, Settle, PersistFails, ExtendsCertificate, TypeInv, ManagerTypeOK
  <2> QED
    BY <2>4, <2>5, Zenon DEF j
<1>2. Spec => [][A]_vars
  BY <1>1, Invariance, PTL DEF Spec
<1> QED
  BY <1>2 DEF GuardedFinalizes

(* With one committee per boundary and fewer than a third of it Byzantine, *)
(* a height's certificate is never lost nor replaced by one for another    *)
(* block: persist_candidate may only write more votes for the same block.  *)
THEOREM CertificatesStable == Assumptions /\ Spec => CertificateStable
<1>1. Assumptions /\ IInv /\ [Next]_vars =>
        \A h \in Held(disk) : disk'[h] # None /\ disk'[h].hash = disk[h].hash
  BY CallsNext, CertificateKept DEF IInv, SoundInv
<1>2. Assumptions /\ Spec => [][\A h \in Held(disk) : disk'[h] # None /\ disk'[h].hash = disk[h].hash]_vars
  <2>1. Assumptions => Assumptions'
    BY Zenon DEF Assumptions, SharedCommittee, FewByzantine
  <2> QED
    BY <1>1, <2>1, Invariance, PTL DEF Spec
<1> QED
  BY <1>2 DEF CertificateStable

(* Nothing finalized and nothing forgotten: still durable.                 *)
LEMMA DurableStays ==
  ASSUME Assumptions, IInv, DurableBeforeVisible, Calls,
         finalized' = finalized, latest' = latest
  PROVE  DurableBeforeVisible'
<1>1. \A h \in Held(disk) : disk'[h] # None /\ disk'[h].hash = disk[h].hash
  BY CertificateKept DEF IInv, SoundInv
<1>2. latest > 0 => latest \in Held(disk)
  BY DEF IInv, TypeInv, ManagerTypeOK, DurableBeforeVisible, Held
<1>3. \A h \in Held(finalized) : h \in Held(disk) /\ disk[h].hash = finalized[h].hash
  BY DEF DurableBeforeVisible, Held
<1>4. Held(finalized') = Held(finalized)
  BY DEF Held
<1> QED
  BY <1>1, <1>2, <1>3, <1>4, Zenon DEF DurableBeforeVisible

(* A certificate that becomes visible is the durable one.                  *)
LEMMA VisibleDurable ==
  ASSUME Assumptions, IInv, DurableBeforeVisible, Calls,
         NEW j \in Heights, NEW cert, Visible(j, cert), disk'[j] # None, disk'[j].hash = cert.hash
  PROVE  DurableBeforeVisible'
<1>1. \A h \in Held(disk) : disk'[h] # None /\ disk'[h].hash = disk[h].hash
  BY CertificateKept, Zenon DEF IInv, SoundInv
<1>2. latest > 0 => disk'[latest] # None
  BY <1>1 DEF IInv, TypeInv, ManagerTypeOK, DurableBeforeVisible, Held
<1>3. latest' > 0 => disk'[latest'] # None
  BY <1>2, Zenon DEF Visible
<1>4. ASSUME NEW h \in Held(finalized')
      PROVE  disk'[h] # None /\ disk'[h].hash = finalized'[h].hash
  <2>1. h \in Heights /\ finalized'[h] = [finalized EXCEPT ![j] = cert][h] /\ finalized'[h] # None
    BY <1>4, Zenon DEF Visible, Only, Held
  <2>2. CASE h = j
    BY <2>1, <2>2 DEF IInv, TypeInv, ManagerTypeOK
  <2>3. CASE h # j
    <3>1. finalized'[h] = finalized[h] /\ h \in Held(finalized)
      BY <2>1, <2>3 DEF IInv, TypeInv, ManagerTypeOK, Held
    <3>2. h \in Held(disk) /\ disk[h].hash = finalized[h].hash
      BY <3>1, Zenon DEF DurableBeforeVisible, Held
    <3> QED
      BY <1>1, <3>1, <3>2, Zenon
  <2> QED
    BY <2>2, <2>3
<1> QED
  BY <1>3, <1>4 DEF DurableBeforeVisible

(* No call of the manager makes a finalization visible before its          *)
(* certificate is on disk, or the other way round forgets the certificate. *)
LEMMA DurableNext ==
  ASSUME Assumptions, IInv, DurableBeforeVisible, Calls
  PROVE  DurableBeforeVisible'
<1>1. CASE UNCHANGED manager
  BY <1>1, DurableStays, Zenon DEF manager
<1>2. ASSUME NEW h \in Heights, NEW x \in BlocksAt[h], pending[h] = None, Propose(h, x)
      PROVE  DurableBeforeVisible'
  BY <1>2, DurableStays DEF Propose
<1>3. ASSUME NEW v \in Vote, NEW signed \in BOOLEAN, SubmitVote(v, signed), signed => Signed(v)'
      PROVE  DurableBeforeVisible'
  BY <1>3, DurableStays DEF SubmitVote
<1>4. ASSUME NEW t \in Tasks, PrunePending(floor[t]) \/ PruneVoted(floor[t])
      PROVE  DurableBeforeVisible'
  BY <1>4, DurableStays DEF PrunePending, PruneVoted
<1>5. ASSUME NEW h \in QuorumPendingHeights,
             PersistCandidate(h) \/ PersistCandidateFails(h) \/ SettleUnguarded(h)
      PROVE  DurableBeforeVisible'
  <2>1. CASE PersistCandidate(h) \/ PersistCandidateFails(h)
    BY <2>1, DurableStays DEF PersistCandidate, PersistCandidateFails
  <2>2. CASE SettleUnguarded(h)
    <3>1. h \in Heights /\ pending[h] # None
      BY DEF QuorumPendingHeights, Held
    <3>2. Visible(h, pending[h]) /\ disk'[h] = pending[h]
      BY <2>2, <3>1 DEF SettleUnguarded, IInv, TypeInv, ManagerTypeOK
    <3>3. PICK cert : cert = pending[h]
      OBVIOUS
    <3> QED
      BY <3>1, <3>2, <3>3, VisibleDurable
  <2> QED
    BY <1>5, <2>1, <2>2
<1>6. ASSUME NEW h \in Heights, seen \in Entry \ {None}, disk[h] = seen, Settle(h, seen)
      PROVE  DurableBeforeVisible'
  <2>1. PICK cert \in {seen, pending[h]} :
          /\ Visible(h, cert) /\ cert.hash = seen.hash
          /\ disk' \in {disk, [disk EXCEPT ![h] = pending[h]]}
          /\ disk' # disk => ExtendsCertificate(h, seen)
    BY <1>6, Zenon DEF Settle, PersistFails, ExtendsCertificate
  <2>2. disk'[h] # None /\ disk'[h].hash = cert.hash
    BY <1>6, <2>1, Zenon DEF ExtendsCertificate, IInv, TypeInv, ManagerTypeOK
  <2> QED
    BY <2>1, <2>2, VisibleDurable
<1>7. CASE Load
  <2>1. disk' = disk /\ ManagerTypeOK' /\ (latest' # 0 => disk[latest'] # None)
    BY <1>7, LoadKeeps DEF Load, IInv, TypeInv
  <2>2. latest' \in Nat
    BY <2>1, HeightsAssumption DEF ManagerTypeOK
  <2>3. \A h \in Held(finalized') : disk'[h] = finalized'[h] /\ finalized'[h] # None
    BY <1>7 DEF Load, Only, Held
  <2> QED
    BY <2>1, <2>2, <2>3 DEF DurableBeforeVisible
<1> QED
  BY <1>1, <1>2, <1>3, <1>4, <1>5, <1>6, <1>7, ZenonT(30) DEF Calls

(* "Nothing becomes visible before the certificate is durable": a          *)
(* finalized checkpoint in memory has a certificate for the same block on  *)
(* disk, also after a failed write and after a restart.                    *)
THEOREM VisibleIsDurable == Assumptions /\ Spec => []DurableBeforeVisible
<1>1. Init => DurableBeforeVisible
  BY DEF Init, ManagerInit, DurableBeforeVisible, Nothing, Held
<1>2. Assumptions /\ IInv /\ DurableBeforeVisible /\ [Next]_vars => DurableBeforeVisible'
  BY CallsNext, DurableNext DEF IInv, SoundInv
<1>3. Assumptions => Assumptions'
  BY DEF Assumptions, SharedCommittee, FewByzantine
<1> QED
  BY <1>1, <1>2, <1>3, Invariance, PTL DEF Spec
=============================================================================
