------------------------- MODULE CheckpointManager -------------------------
(***************************************************************************)
(* The checkpoint manager (core/consensus/src/checkpoint.rs): pending      *)
(* checkpoints that collect committee votes, the replay markers, the       *)
(* finalized window in memory and the certificates on disk.                *)
(*                                                                         *)
(* This module holds the manager's state and what each of its calls does   *)
(* under the locks it holds; FinalityGadget interleaves the tasks that     *)
(* make the calls.  A critical section of the pending write lock is one    *)
(* step.  A durable write that fails may or may not have reached the disk. *)
(***************************************************************************)
EXTENDS Integers, FiniteSets

CONSTANTS
  Heights,       \* the checkpoint boundaries that occur
  Hashes,        \* block hashes
  Voters,        \* validator keys
  Committee,     \* Committee[x]: committee_for(height of x, seed of x)
  MinCommittee,  \* MIN_FINALITY_COMMITTEE
  MaxPending,    \* MAX_PENDING_CHECKPOINTS
  MaxFinalized,  \* MAX_FINALIZED_IN_MEMORY
  None

ASSUME HeightsAssumption == (\A h \in Heights : h \in Nat \ {0}) /\ IsFiniteSet(Heights)
ASSUME VotersAssumption == IsFiniteSet(Voters)
ASSUME CommitteeAssumption == Committee \in [Hashes -> SUBSET Voters]
ASSUME CapsAssumption ==
  MinCommittee \in Nat /\ MaxPending \in Nat \ {0} /\ MaxFinalized \in Nat \ {0}
ASSUME NoneAssumption ==
  None \notin Hashes /\ None \notin [hash : Hashes, votes : SUBSET Voters]

VARIABLES
  pending,    \* height -> checkpoint collecting votes, or None
  voted,      \* replay markers <<height, voter>>
  finalized,  \* height -> certificate held in memory, or None
  latest,     \* latest_finalized_height
  disk        \* height -> certificate under checkpoint:<height>, or None

manager == <<pending, voted, finalized, latest, disk>>

Entry == [hash : Hashes, votes : SUBSET Voters]
Vote == [height : Heights, hash : Hashes, voter : Voters]

Nothing == [h \in Heights |-> None]
Held(f) == {h \in Heights : f[h] # None}

(* The n highest heights f holds.                                          *)
Highest(f, n) == {h \in Held(f) : Cardinality({g \in Held(f) : g >= h}) <= n}
Only(f, keep) == [h \in Heights |-> IF h \in keep THEN f[h] ELSE None]

ManagerInit ==
  /\ pending = Nothing
  /\ voted = {}
  /\ finalized = Nothing
  /\ latest = 0
  /\ disk = Nothing

----------------------------------------------------------------------------
(* Rounded down: two quorums may share only Byzantine members.             *)
DerivedQuorumDown(n) == (2 * n) \div 3

(* floor(2n/3) + 1.                                                        *)
DerivedQuorum(n) == (2 * n) \div 3 + 1

HasDerivedQuorum(cp) ==
  LET n == Cardinality(Committee[cp.hash])
  IN n >= MinCommittee /\ Cardinality(cp.votes) >= DerivedQuorum(n)

(* height <= latest or is_finalized(height): memory first, then the disk,  *)
(* where a read that fails finds nothing.                                  *)
FoundFinalized(h, readable) ==
  h <= latest \/ finalized[h] # None \/ (readable /\ disk[h] # None)

QuorumPendingHeights == {h \in Held(pending) : HasDerivedQuorum(pending[h])}

(* The cap is not enforced.                                                *)
ProposeUncapped(h, x) ==
  /\ pending' = [pending EXCEPT ![h] = [hash |-> x, votes |-> {}]]
  /\ UNCHANGED <<voted, finalized, latest, disk>>

(* ensure_proposed once it holds the pending lock: make room by dropping   *)
(* the lowest pending checkpoints with their markers, then insert.         *)
Propose(h, x) ==
  LET kept == Highest(pending, MaxPending - 1)
  IN /\ pending' = [Only(pending, kept) EXCEPT ![h] = [hash |-> x, votes |-> {}]]
     /\ voted' = {m \in voted : m[1] \in kept \/ m[1] \notin Held(pending)}
     /\ UNCHANGED <<finalized, latest, disk>>

(* Off by one: the finalized height itself is kept.                        *)
PrunePendingBelow(floor) ==
  /\ pending' = Only(pending, {h \in Heights : h >= floor})
  /\ UNCHANGED <<voted, finalized, latest, disk>>

(* prune_at_or_below, one step per lock.                                   *)
PrunePending(floor) ==
  /\ pending' = Only(pending, {h \in Heights : h > floor})
  /\ UNCHANGED <<voted, finalized, latest, disk>>

PruneVoted(floor) ==
  /\ voted' = {m \in voted : m[1] > floor}
  /\ UNCHANGED <<pending, finalized, latest, disk>>

----------------------------------------------------------------------------
(* submit_vote.  signed says whether the signature verifies.               *)

Accepts(v, signed) ==
  LET cp == pending[v.height]
  IN /\ cp # None
     /\ v.voter \in Committee[cp.hash] \ cp.votes
     /\ v.hash = cp.hash
     /\ signed
     /\ <<v.height, v.voter>> \notin voted

(* The marker is set before the vote is validated.                         *)
SubmitVoteMarksFirst(v, signed) ==
  /\ pending' = IF Accepts(v, signed)
                THEN [pending EXCEPT ![v.height].votes = @ \union {v.voter}]
                ELSE pending
  /\ voted' = IF pending[v.height] # None THEN voted \union {<<v.height, v.voter>>} ELSE voted
  /\ UNCHANGED <<finalized, latest, disk>>

SubmitVote(v, signed) ==
  /\ IF Accepts(v, signed)
     THEN /\ pending' = [pending EXCEPT ![v.height].votes = @ \union {v.voter}]
          /\ voted' = voted \union {<<v.height, v.voter>>}
     ELSE UNCHANGED <<pending, voted>>
  /\ UNCHANGED <<finalized, latest, disk>>

(* submit_vote returned Ok(true).                                          *)
ReachesQuorum(v, signed) ==
  /\ Accepts(v, signed)
  /\ HasDerivedQuorum([pending[v.height] EXCEPT !.votes = @ \union {v.voter}])

----------------------------------------------------------------------------
(* finalize_checkpoint, under finalize_serial                              *)

(* A durable write of a certificate that fails.                            *)
PersistFails(h, cert) == disk' \in {disk, [disk EXCEPT ![h] = cert]}

(* The write is left to the end of the finalization.                       *)
PersistCandidateLater(h) == h \in Held(pending) /\ UNCHANGED manager

(* The certificate is made durable before the guard runs.                  *)
PersistCandidate(h) ==
  /\ disk' = [disk EXCEPT ![h] = pending[h]]
  /\ UNCHANGED <<pending, voted, finalized, latest>>

PersistCandidateFails(h) ==
  /\ PersistFails(h, pending[h])
  /\ UNCHANGED <<pending, voted, finalized, latest>>

(* Make cert visible: latest height, in-memory window, and the height's    *)
(* pending entry and markers gone.                                         *)
Visible(h, cert) ==
  LET all == [finalized EXCEPT ![h] = cert]
  IN /\ pending' = [pending EXCEPT ![h] = None]
     /\ voted' = {m \in voted : m[1] # h}
     /\ finalized' = Only(all, Highest(all, MaxFinalized))
     /\ latest' = IF h > latest THEN h ELSE latest

(* A pending entry for the same block is taken to be the guarded one.      *)
ExtendsCertificateHashOnly(h, seen) ==
  pending[h] # None /\ pending[h].hash = seen.hash

ExtendsCertificate(h, seen) ==
  pending[h] # None /\ pending[h].hash = seen.hash /\ seen.votes \subseteq pending[h].votes

(* After the guard: the pending entry finalizes if it extends what the     *)
(* guard saw and, when it has more votes, can be written; else the guarded *)
(* certificate does.                                                       *)
Settle(h, seen) ==
  \/ /\ ~ExtendsCertificate(h, seen)
     /\ Visible(h, seen)
     /\ UNCHANGED disk
  \/ /\ ExtendsCertificate(h, seen)
     /\ Visible(h, pending[h])
     /\ disk' = [disk EXCEPT ![h] = pending[h]]
  \/ /\ ExtendsCertificate(h, seen) /\ pending[h] # seen
     /\ Visible(h, seen)
     /\ PersistFails(h, pending[h])

(* Without a guard: one section of the pending lock.                       *)
SettleUnguarded(h) ==
  /\ Visible(h, pending[h])
  /\ disk' = [disk EXCEPT ![h] = pending[h]]

(* The process starts on what the disk holds (with_persistence).           *)
Load ==
  /\ pending' = Nothing
  /\ voted' = {}
  /\ latest' = IF Held(disk) = {} THEN 0
               ELSE CHOOSE h \in Held(disk) : \A g \in Held(disk) : g <= h
  /\ finalized' = Only(disk, Highest(disk, MaxFinalized))
  /\ UNCHANGED disk

----------------------------------------------------------------------------
ManagerTypeOK ==
  /\ pending \in [Heights -> Entry \union {None}]
  /\ voted \subseteq Heights \X Voters
  /\ finalized \in [Heights -> Entry \union {None}]
  /\ latest \in Heights \union {0}
  /\ disk \in [Heights -> Entry \union {None}]
=============================================================================
