----------------------- MODULE FinalityGadget_lemmas -----------------------
(***************************************************************************)
(* What the proofs about a node's finality tasks rest on: the state of the *)
(* tasks at each point of their code, the inductive invariant, and the     *)
(* lemmas about single calls of the checkpoint manager.                    *)
(*                                                                         *)
(* The inductive invariant IInv says what each task holds at each point of *)
(* its code (TypeInv), that pending entries, certificates and votes under  *)
(* way carry real signatures (SoundInv), that what a guard saw is still on *)
(* disk (GuardInv), that a prune works with a finalized height (FloorInv), *)
(* and which steps are still to come for a vote in the buffer (StrandInv)  *)
(* or for a pending entry that is already finalized (ZombieInv).           *)
(*                                                                         *)
(* The argument goes through the calls of the manager: CallsNext shows     *)
(* that every step of the two tasks makes at most one of them, in a state  *)
(* that meets what the call relies on.                                     *)
(***************************************************************************)
EXTENDS FinalityGadget, FiniteSetTheorems, TLAPS

----------------------------------------------------------------------------
(* Finite sets                                                             *)

(* A set of naturals that is not empty has a least element.                *)
LEMMA LeastNatural ==
  ASSUME NEW N, N \subseteq Nat, N # {}
  PROVE  \E n \in N : \A m \in N : n <= m
<1>1. PICK n \in N : \A m \in N : ~(<<m, n>> \in OpToRel(<, Nat))
  BY WFMin, NatLessThanWellFounded, Zenon
<1>2. \A m \in N : ~(m < n)
  BY <1>1, Zenon DEF OpToRel
<1> QED
  BY <1>2

(* A finite set of integers that is not empty has a greatest element: one  *)
(* with the fewest elements over it.                                       *)
LEMMA FiniteHasMax ==
  ASSUME NEW T, IsFiniteSet(T), T \subseteq Int, T # {}
  PROVE  \E m \in T : \A x \in T : x <= m
<1> DEFINE Over(m) == {x \in T : m < x}
           Sizes == {Cardinality(Over(m)) : m \in T}
<1>1. \A m \in T : IsFiniteSet(Over(m)) /\ Cardinality(Over(m)) \in Nat
  BY FS_Subset, FS_CardinalityType
<1>2. PICK m \in T : \A x \in T : Cardinality(Over(m)) <= Cardinality(Over(x))
  <2>1. Sizes \subseteq Nat /\ Sizes # {}
    BY <1>1, Zenon
  <2>2. PICK n \in Sizes : \A k \in Sizes : n <= k
    BY <2>1, LeastNatural, Zenon
  <2> QED
    BY <2>2, Zenon
<1>3. ASSUME NEW y \in T, m < y PROVE FALSE
  <2>1. Over(y) \subseteq Over(m) /\ y \in Over(m) /\ y \notin Over(y)
    <3>1. m \in Int /\ y \in Int /\ \A x \in T : x \in Int
      OBVIOUS
    <3>2. ~(y < y) /\ \A x \in T : y < x => m < x
      BY <1>3, <3>1
    <3> QED
      BY <1>3, <3>2, Zenon
  <2>2. Cardinality(Over(y)) < Cardinality(Over(m))
    <3> HIDE DEF Over
    <3> QED
      BY <1>1, <2>1, FS_Subset
  <2> QED
    BY <1>1, <1>2, <2>2
<1> QED
  BY <1>3

(* One committee for all candidates of a boundary, fewer than a third of   *)
(* it Byzantine.                                                           *)
SharedCommittee ==
  \A s \in Settings, h \in Heights : \A x, y \in s.blocks[h] : Committee[x] = Committee[y]

FewByzantine ==
  \A s \in Settings, h \in Heights : \A x \in s.blocks[h] :
    3 * Cardinality(Committee[x] \intersect s.byzantine) < Cardinality(Committee[x])

Assumptions == SharedCommittee /\ FewByzantine

----------------------------------------------------------------------------
(* What the tasks hold at each point of their code                         *)

(* The driver finalizes, on its way back to `label'.                       *)
Finalizing(t, label) == pc[t] \in {"finalize", "guard"} /\ back[t] = label

(* The driver's report: between the proposal and the drain, and replaying. *)
Proposed == pc["driver"] \in {"own", "drain"} \/ Finalizing("driver", "drain")
Replaying == pc["driver"] = "replay" \/ Finalizing("driver", "replay")
Retrying == pc["driver"] = "retry" \/ Finalizing("driver", "retry")

(* The network task holds an inbound vote it has not submitted yet.        *)
InHand == pc["net"] \in {"submit", "early", "recheck", "buffer"}

Labels ==
  {"idle", "propose", "missing", "own", "drain", "replay", "due", "retry",
   "submit", "early", "recheck", "buffer", "finalize", "guard",
   "prune", "prunePending", "pruneVoted", "pruneEarly"}
OwnVote == {v \in Vote : v.voter = Self /\ v.hash \in BlocksAt[v.height]}
Inbound == [vote : Vote, signed : BOOLEAN]
Jobs == {None} \union Vote \union [height : Heights] \union Inbound

SignaturesOK ==
  /\ setting \in Settings
  /\ record \in [Heights -> Hashes \union {None}]
  /\ peerVote \in [Peers -> [Heights -> Hashes \union {None}]]

LocalsOK ==
  /\ pc \in [Tasks -> Labels] /\ job \in [Tasks -> Jobs]
  /\ floor \in [Tasks -> Heights \union {0}] /\ back \in [Tasks -> Labels]
  /\ won \in BOOLEAN

DriverOK ==
  /\ pc["driver"] \in {"propose", "missing"} \/ Proposed \/ Replaying => job["driver"] \in OwnVote
  /\ Replaying => todo \subseteq Vote
  /\ pc["driver"] = "due" \/ Retrying => todo \subseteq Heights
  /\ Finalizing("driver", "retry") => job["driver"] \in [height : Heights]
  /\ pc["driver"] \in {"finalize", "guard"} => back["driver"] \in {"drain", "replay", "retry"}

NetOK ==
  /\ InHand \/ pc["net"] \in {"finalize", "guard"} => job["net"] \in Inbound
  /\ pc["net"] \in {"recheck", "buffer"} => job["net"].signed
  /\ pc["net"] \in {"finalize", "guard"} => back["net"] = "prune"

LocksOK ==
  /\ stLock \in {None, "net"} /\ serial \in Tasks \union {None}
  /\ stLock = "net" <=> pc["net"] \in {"recheck", "buffer"}
  /\ \A t \in Tasks : serial = t <=> pc[t] = "guard"
  /\ seen \in Entry \union {None} /\ (seen # None <=> serial # None)

Capped == Cardinality(Held(pending)) <= MaxPending /\ Cardinality(Held(finalized)) <= MaxFinalized

TypeInv ==
  /\ ManagerTypeOK /\ SignaturesOK /\ LocalsOK /\ DriverOK /\ NetOK /\ LocksOK
  /\ early \subseteq Vote

----------------------------------------------------------------------------
(* The strengthened invariants                                             *)

(* The votes of e were signed by members of the committee of its block.    *)
EntrySound(h, e) ==
  /\ e.hash \in BlocksAt[h]
  /\ e.votes \subseteq Committee[e.hash]
  /\ \A w \in e.votes : Signed([height |-> h, hash |-> e.hash, voter |-> w])

PendingSound == \A h \in Held(pending) : EntrySound(h, pending[h])

DiskSound == \A h \in Held(disk) : EntrySound(h, disk[h]) /\ HasDerivedQuorum(disk[h])

(* Buffered votes, votes being replayed and the vote at hand are signed.   *)
VotesSound ==
  /\ \A u \in early : Signed(u)
  /\ Replaying => \A u \in todo : Signed(u)
  /\ InHand /\ job["net"].signed => Signed(job["net"].vote)

SoundInv == PendingSound /\ DiskSound /\ VotesSound

(* While the guard runs the certificate it sees is the one on disk.        *)
GuardInv == \A t \in Tasks : pc[t] = "guard" => disk[JobHeight(t)] = seen

(* A prune in flight works with a height that was finalized.               *)
FloorInv == \A t \in Tasks : floor[t] <= latest

(* The driver will still drain the buffer of height h.                     *)
WillDrain(h) == Proposed /\ job["driver"].height = h

StrandInv ==
  /\ \A u \in early :
       pending[u.height] = None \/ pending[u.height].hash # u.hash \/ WillDrain(u.height)
  /\ pc["net"] = "buffer" =>
       LET h == job["net"].vote.height IN pending[h] = None \/ WillDrain(h)

(* Task t is on its way to a prune that reaches height h.                  *)
WillPrune(t, h) ==
  \/ pc[t] = "prune"
  \/ pc[t] = "prunePending" /\ h <= floor[t]
  \/ t = "driver" /\ (Proposed \/ Replaying \/ (Retrying /\ won))

ZombieInv == \A h \in Held(pending) : h <= latest => \E t \in Tasks : WillPrune(t, h)

IInv ==
  /\ TypeInv /\ Capped /\ SoundInv /\ GuardInv /\ FloorInv /\ NoLockout
  /\ StrandInv /\ ZombieInv

----------------------------------------------------------------------------
(* The manager's calls keep its types and its caps                         *)

(* No more than n heights are among the n highest.                         *)
LEMMA HighestCapped ==
  ASSUME NEW f, NEW n \in Nat
  PROVE  Cardinality(Highest(f, n)) <= n
<1> DEFINE K == Highest(f, n)
<1>1. Held(f) \subseteq Heights /\ K \subseteq Held(f) /\ Heights \subseteq Nat
  BY HeightsAssumption DEF Held, Highest
<1>2. IsFiniteSet(Held(f))
  BY <1>1, HeightsAssumption, FS_Subset
<1>3. CASE K = {}
  BY <1>3, FS_EmptySet
<1>4. CASE K # {}
  <2>1. PICK m \in K : \A g \in K : m <= g
    BY <1>1, <1>4, LeastNatural, Zenon
  <2> DEFINE U == {g \in Held(f) : g >= m}
  <2>2. Cardinality(U) <= n
    BY <2>1 DEF Highest
  <2>3. K \subseteq U /\ U \subseteq Held(f)
    BY <1>1, <2>1
  <2>4. IsFiniteSet(U) /\ IsFiniteSet(K)
    BY <1>2, <2>3, FS_Subset
  <2>5. Cardinality(K) <= Cardinality(U)
    BY <2>3, <2>4, FS_Subset
  <2>6. Cardinality(K) \in Nat /\ Cardinality(U) \in Nat
    BY <2>4, FS_CardinalityType
  <2>7. Cardinality(K) <= n
    <3> HIDE DEF K, U
    <3> QED
      BY <2>2, <2>5, <2>6
  <2> QED
    BY <2>7
<1> QED
  BY <1>3, <1>4

(* Fewer heights held, a smaller count.                                    *)
LEMMA HeldFewer ==
  ASSUME NEW f, NEW S, NEW n \in Nat, Held(f) \subseteq S, S \subseteq Heights, Cardinality(S) <= n
  PROVE  Cardinality(Held(f)) <= n
<1>1. IsFiniteSet(S) /\ IsFiniteSet(Held(f))
  BY HeightsAssumption, FS_Subset DEF Held
<1>2. Cardinality(Held(f)) <= Cardinality(S)
  BY <1>1, FS_Subset
<1> QED
  BY <1>1, <1>2, FS_CardinalityType

(* ensure_proposed inserts one entry after it has made room for it.        *)
LEMMA ProposeKeeps ==
  ASSUME ManagerTypeOK, Capped, NEW h \in Heights, NEW x \in Hashes, Propose(h, x)
  PROVE  ManagerTypeOK' /\ Capped'
<1> DEFINE kept == Highest(pending, MaxPending - 1)
<1>1. pending' = [Only(pending, kept) EXCEPT ![h] = [hash |-> x, votes |-> {}]]
  BY DEF Propose
<1>2. Only(pending, kept) \in [Heights -> Entry \union {None}]
  BY DEF Only, ManagerTypeOK
<1>3. [hash |-> x, votes |-> {}] \in Entry
  BY DEF Entry
<1>4. ManagerTypeOK'
  BY <1>1, <1>2, <1>3 DEF ManagerTypeOK, Propose
<1>5. kept \subseteq Heights /\ Cardinality(kept) <= MaxPending - 1
  <2>1. MaxPending - 1 \in Nat
    BY CapsAssumption
  <2> QED
    BY <2>1, HighestCapped, Zenon DEF Highest, Held
<1>6. Held(pending') \subseteq kept \union {h}
  BY <1>1 DEF Held, Only
<1>7. kept \union {h} \subseteq Heights /\ Cardinality(kept \union {h}) <= MaxPending
  <2>1. IsFiniteSet(kept)
    BY <1>5, HeightsAssumption, FS_Subset
  <2> HIDE DEF kept
  <2>2. Cardinality(kept) \in Nat
    BY <2>1, FS_CardinalityType
  <2>3. \/ Cardinality(kept \union {h}) = Cardinality(kept)
        \/ Cardinality(kept \union {h}) = Cardinality(kept) + 1
    BY <2>1, FS_AddElement
  <2> QED
    BY <1>5, <2>2, <2>3, CapsAssumption
<1>8. Cardinality(Held(pending')) <= MaxPending
  <2> HIDE DEF kept
  <2> QED
    BY <1>6, <1>7, HeldFewer, CapsAssumption
<1> QED
  BY <1>4, <1>8 DEF Capped, Propose

(* submit_vote adds at most one vote to one entry.                         *)
LEMMA SubmitVoteKeeps ==
  ASSUME ManagerTypeOK, Capped, NEW v \in Vote, NEW signed, SubmitVote(v, signed)
  PROVE  ManagerTypeOK' /\ Capped' /\ Held(pending') = Held(pending)
<1>1. CASE ~Accepts(v, signed)
  BY <1>1 DEF SubmitVote, ManagerTypeOK, Capped, Held
<1>2. CASE Accepts(v, signed)
  <2>1. v.height \in Heights /\ v.voter \in Voters /\ pending[v.height] \in Entry
    BY <1>2 DEF Vote, Accepts, ManagerTypeOK
  <2>2. pending' = [pending EXCEPT ![v.height].votes = pending[v.height].votes \union {v.voter}]
    BY <1>2 DEF SubmitVote
  <2>3. /\ [pending[v.height] EXCEPT !.votes = pending[v.height].votes \union {v.voter}] \in Entry
        /\ pending[v.height] # None
    BY <1>2, <2>1 DEF Entry, Accepts
  <2>4. \A g \in Heights : g # v.height => pending'[g] = pending[g]
    BY <2>2 DEF ManagerTypeOK
  <2>5. pending'[v.height] \in Entry
    BY <2>1, <2>2, <2>3, Zenon DEF ManagerTypeOK
  <2>6. Held(pending') = Held(pending)
    BY <2>3, <2>4, <2>5, NoneAssumption DEF Held, Entry
  <2>7. pending' \in [Heights -> Entry \union {None}]
    BY <2>2, <2>3, <2>1 DEF ManagerTypeOK
  <2>8. voted' \subseteq Heights \X Voters
    BY <1>2, <2>1 DEF SubmitVote, ManagerTypeOK
  <2> QED
    BY <2>6, <2>7, <2>8 DEF SubmitVote, ManagerTypeOK, Capped
<1> QED
  BY <1>1, <1>2

(* A prune only drops entries and markers.                                 *)
LEMMA PruneKeeps ==
  ASSUME ManagerTypeOK, Capped, NEW n, PrunePending(n) \/ PruneVoted(n)
  PROVE  ManagerTypeOK' /\ Capped'
<1>1. CASE PrunePending(n)
  <2>1. ManagerTypeOK'
    BY <1>1 DEF PrunePending, ManagerTypeOK, Only
  <2>2. Held(pending') \subseteq Held(pending) /\ Held(pending) \subseteq Heights
    BY <1>1 DEF PrunePending, Only, Held
  <2>3. Cardinality(Held(pending')) <= MaxPending
    BY <2>2, HeldFewer, CapsAssumption DEF Capped
  <2> QED
    BY <1>1, <2>1, <2>3 DEF PrunePending, Capped
<1>2. CASE PruneVoted(n)
  BY <1>2 DEF PruneVoted, ManagerTypeOK, Capped
<1> QED
  BY <1>1, <1>2

(* A durable write, whether or not it succeeds.                            *)
LEMMA PersistKeeps ==
  ASSUME ManagerTypeOK, Capped, NEW h \in Heights, pending[h] # None,
         PersistCandidate(h) \/ PersistCandidateFails(h)
  PROVE  ManagerTypeOK' /\ Capped'
BY DEF PersistCandidate, PersistCandidateFails, PersistFails, ManagerTypeOK, Capped

(* A finalization that becomes visible drops one pending entry and keeps   *)
(* the in-memory window within its cap.                                    *)
LEMMA VisibleKeeps ==
  ASSUME ManagerTypeOK, Capped, NEW h \in Heights, NEW cert \in Entry, Visible(h, cert)
  PROVE  /\ pending' \in [Heights -> Entry \union {None}]
         /\ voted' \subseteq Heights \X Voters
         /\ finalized' \in [Heights -> Entry \union {None}]
         /\ latest' \in Heights \union {0}
         /\ Capped'
<1> DEFINE all == [finalized EXCEPT ![h] = cert]
<1>1. all \in [Heights -> Entry \union {None}]
  BY DEF ManagerTypeOK
<1>2. finalized' = Only(all, Highest(all, MaxFinalized))
  BY DEF Visible
<1>3. finalized' \in [Heights -> Entry \union {None}]
  BY <1>1, <1>2 DEF Only
<1>4. pending' \in [Heights -> Entry \union {None}] /\ voted' \subseteq Heights \X Voters
  BY DEF Visible, ManagerTypeOK
<1>5. latest' \in Heights \union {0}
  BY DEF Visible, ManagerTypeOK
<1>6. Held(pending') \subseteq Held(pending) /\ Held(pending) \subseteq Heights
  BY DEF Visible, Held, ManagerTypeOK
<1>7. Cardinality(Held(pending')) <= MaxPending
  BY <1>6, HeldFewer, CapsAssumption DEF Capped
<1>8. Held(finalized') \subseteq Highest(all, MaxFinalized) /\ Highest(all, MaxFinalized) \subseteq Heights
  BY <1>2 DEF Held, Only, Highest
<1>9. Cardinality(Highest(all, MaxFinalized)) <= MaxFinalized
  BY HighestCapped, CapsAssumption
<1>10. Cardinality(Held(finalized')) <= MaxFinalized
  <2> HIDE DEF all
  <2> QED
    BY <1>8, <1>9, HeldFewer, CapsAssumption
<1> QED
  BY <1>3, <1>4, <1>5, <1>7, <1>10 DEF Capped

(* Both forms of the final section.                                        *)
LEMMA SettleKeeps ==
  ASSUME ManagerTypeOK, Capped, NEW h \in Heights, NEW cert \in Entry,
         Settle(h, cert) \/ (pending[h] # None /\ SettleUnguarded(h))
  PROVE  ManagerTypeOK' /\ Capped'
<1>1. pending[h] # None => pending[h] \in Entry
  BY DEF ManagerTypeOK
<1>2. \E c \in Entry : Visible(h, c)
  BY <1>1 DEF Settle, SettleUnguarded, ExtendsCertificate
<1>3. disk' \in [Heights -> Entry \union {None}]
  BY <1>1 DEF Settle, SettleUnguarded, ExtendsCertificate, PersistFails, ManagerTypeOK
<1> QED
  BY <1>2, <1>3, VisibleKeeps DEF ManagerTypeOK

(* What a restart loads.                                                   *)
LEMMA LoadKeeps ==
  ASSUME ManagerTypeOK, Load
  PROVE  /\ ManagerTypeOK' /\ Capped'
         /\ latest' # 0 => disk[latest'] # None
<1>1. Held(disk) = {} => latest' = 0
  BY DEF Load
<1>2. Held(disk) # {} => latest' \in Held(disk)
  <2> SUFFICES ASSUME Held(disk) # {} PROVE latest' \in Held(disk)
    OBVIOUS
  <2>1. Held(disk) \subseteq Int /\ IsFiniteSet(Held(disk))
    BY HeightsAssumption, FS_Subset DEF Held
  <2>2. \E h \in Held(disk) : \A g \in Held(disk) : g <= h
    BY <2>1, FiniteHasMax
  <2> QED
    BY <2>2 DEF Load
<1>3. latest' \in Heights \union {0} /\ (latest' # 0 => disk[latest'] # None)
  BY <1>1, <1>2 DEF Held
<1>4. pending' \in [Heights -> Entry \union {None}] /\ voted' \subseteq Heights \X Voters
  BY DEF Load, Nothing
<1>5. finalized' \in [Heights -> Entry \union {None}]
  BY DEF Load, Only, ManagerTypeOK
<1>6. Held(pending') = {}
  BY DEF Load, Nothing, Held
<1>7. Held(finalized') \subseteq Highest(disk, MaxFinalized) /\ Highest(disk, MaxFinalized) \subseteq Heights
  BY DEF Load, Only, Held, Highest
<1>8. Cardinality(Held(finalized')) <= MaxFinalized
  BY <1>7, HighestCapped, HeldFewer, CapsAssumption
<1>9. Cardinality(Held(pending')) <= MaxPending
  BY <1>6, FS_EmptySet, CapsAssumption
<1> QED
  BY <1>3, <1>4, <1>5, <1>8, <1>9 DEF ManagerTypeOK, Capped, Load

----------------------------------------------------------------------------
(* Types and locks of the tasks                                            *)

(* A task that finalizes works at a height and returns into its own code.  *)
LEMMA JobHeightOK ==
  ASSUME TypeInv, NEW t \in Tasks, pc[t] \in {"finalize", "guard"}
  PROVE  JobHeight(t) \in Heights
<1>1. CASE t = "net"
  BY <1>1 DEF TypeInv, NetOK, Inbound, Vote, JobHeight
<1>2. CASE t = "driver"
  BY <1>2 DEF TypeInv, DriverOK, OwnVote, Vote, JobHeight, Proposed, Replaying, Finalizing
<1> QED
  BY <1>1, <1>2 DEF Tasks

(* A task that finalizes returns to one of the four call sites.            *)
LEMMA BackOK ==
  ASSUME TypeInv, NEW t \in Tasks, pc[t] \in {"finalize", "guard"}
  PROVE  back[t] \in {"drain", "replay", "retry", "prune"} /\ (t = "net" => back[t] = "prune")
BY DEF TypeInv, DriverOK, NetOK, Tasks

(* The blocks of a boundary are blocks.                                    *)
LEMMA BlockIsHash ==
  ASSUME TypeInv, NEW h \in Heights, NEW x \in BlocksAt[h]
  PROVE  x \in Hashes
<1>1. BlocksAt \in [Heights -> SUBSET Hashes]
  BY SettingsAssumption DEF TypeInv, SignaturesOK, BlocksAt
<1> QED
  BY <1>1

(* What a task works on when it is about to call the manager.              *)
LEMMA JobsTyped ==
  ASSUME TypeInv
  PROVE  /\ pc["driver"] \in {"propose", "missing"} \/ Proposed \/ Replaying =>
              job["driver"] \in OwnVote /\ job["driver"] \in Vote /\ job["driver"].height \in Heights
         /\ Replaying => todo \subseteq Vote
         /\ InHand => /\ job["net"] \in Inbound /\ job["net"].vote \in Vote
                      /\ job["net"].signed \in BOOLEAN /\ job["net"].vote.height \in Heights
BY DEF TypeInv, DriverOK, NetOK, InHand, OwnVote, Vote, Inbound

(* This node's record of what it signed is never rewritten.                *)
RecordKept == \A h \in Heights : record[h] # None => record'[h] = record[h]

(* What has been signed stays signed, and the surroundings stay the same.  *)
LEMMA SignaturesNext ==
  ASSUME TypeInv, [Next]_vars
  PROVE  SignaturesOK' /\ UNCHANGED <<peerVote, setting>> /\ RecordKept
<1>1. ASSUME UNCHANGED signatures
      PROVE  SignaturesOK' /\ UNCHANGED <<peerVote, setting>> /\ RecordKept
  BY <1>1 DEF signatures, TypeInv, SignaturesOK, Peers, Byzantine, RecordKept
<1>2. CASE \/ \E h \in Heights : \E x \in BlocksAt[h] : OnBuried(h, x)
           \/ EnsureProposed
           \/ SkipOwnVote
           \/ Drain
           \/ Replay
           \/ RetryFinalizations
           \/ RetryNext
           \/ \E due \in SUBSET Heights : RetryDue(due)
  BY <1>2, <1>1, Zenon DEF OnBuried, EnsureProposed, SkipOwnVote, Drain, Replay,
     RetryFinalizations, RetryNext, RetryDue
<1>3. CASE SignOwnVote
  <2>1. job["driver"].height \in Heights /\ job["driver"].hash \in Hashes
    BY <1>3, JobsTyped DEF SignOwnVote, AtTask, Proposed, Vote
  <2> QED
    BY <1>3, <2>1 DEF SignOwnVote, TypeInv, SignaturesOK, Peers, Byzantine, RecordKept
<1>4. CASE \/ \E h \in Heights, w \in Voters, signed \in BOOLEAN : \E x \in BlocksAt[h] :
                  OnInboundVote([height |-> h, hash |-> x, voter |-> w], signed)
           \/ SubmitPending
           \/ BufferEarly
           \/ BufferRecheck
           \/ BufferInsert
  BY <1>4, <1>1, ZenonT(30) DEF OnInboundVote, SubmitPending, BufferEarly, BufferRecheck,
     BufferInsert
<1>5. CASE \/ \E t \in Tasks : FinalizeNothing(t)
           \/ \E t \in Tasks : FinalizeFails(t)
           \/ \E t \in Tasks : FinalizeGuarded(t)
           \/ \E t \in Tasks : FinalizeSettles(t)
           \/ \E t \in Tasks : FinalizeUnguarded(t)
           \/ \E t \in Tasks : PruneFloor(t)
           \/ \E t \in Tasks : PruneManager(t)
           \/ \E t \in Tasks : PruneEarly(t)
  BY <1>5, <1>1 DEF FinalizeNothing, FinalizeFails, FinalizeGuarded, FinalizeSettles,
     FinalizeUnguarded, PruneFloor, PruneManager, PruneEarly
<1>6. CASE \/ Crash
           \/ UNCHANGED vars
  BY <1>6, <1>1 DEF Crash, vars, signatures
<1>7. CASE OwnVoteMissing
  BY <1>7, <1>1, Zenon DEF OwnVoteMissing
<1> QED
  BY <1>2, <1>3, <1>4, <1>5, <1>6, <1>7 DEF Next, Driver, Net, Finalization

(* Every step keeps the locals typed.                                      *)
LEMMA LocalsNext ==
  ASSUME TypeInv, [Next]_vars
  PROVE  LocalsOK' /\ early' \subseteq Vote
<1> USE DEF TypeInv, LocalsOK, Tasks, AtTask, Goto, Continue, Done, Returns, locals, Labels
<1>1. ASSUME NEW h \in Heights, NEW x \in BlocksAt[h], OnBuried(h, x)
      PROVE  LocalsOK' /\ early' \subseteq Vote
  <2>1. [height |-> h, hash |-> x, voter |-> Self] \in Jobs
    BY <1>1, BlockIsHash, SettingsAssumption DEF Vote, Jobs
  <2> QED
    BY <1>1, <2>1 DEF OnBuried
<1>2. CASE EnsureProposed
  BY <1>2 DEF EnsureProposed, Jobs
<1>3. CASE SignOwnVote
  BY <1>3 DEF SignOwnVote
<1>4. CASE SkipOwnVote
  BY <1>4 DEF SkipOwnVote
<1>5. CASE Drain
  BY <1>5 DEF Drain
<1>6. CASE Replay
  <2>1. PICK label \in Labels : Goto("driver", label)
    BY <1>6, Zenon DEF Replay
  <2>2. back' = back \/ back' = [back EXCEPT !["driver"] = "replay"]
    BY <1>6, Zenon DEF Replay
  <2> QED
    BY <1>6, <2>1, <2>2 DEF Replay
<1>7. CASE RetryFinalizations
  BY <1>7 DEF RetryFinalizations
<1>8. CASE RetryNext
  <2>1. None \in Jobs /\ \A h \in todo : [height |-> h] \in Jobs
    BY <1>8 DEF RetryNext, DriverOK, Retrying, Jobs
  <2> QED
    BY <1>8, <2>1 DEF RetryNext
<1>9. CASE \E due \in SUBSET Heights : RetryDue(due)
  BY <1>9, Zenon DEF RetryDue
<1>10. ASSUME NEW h \in Heights, NEW w \in Voters, NEW signed \in BOOLEAN, NEW x \in BlocksAt[h],
              OnInboundVote([height |-> h, hash |-> x, voter |-> w], signed)
      PROVE  LocalsOK' /\ early' \subseteq Vote
  <2>1. [vote |-> [height |-> h, hash |-> x, voter |-> w], signed |-> signed] \in Jobs
    BY <1>10, BlockIsHash, ZenonT(30) DEF Inbound, Vote, Jobs
  <2> QED
    BY <1>10, <2>1 DEF OnInboundVote
<1>11. CASE \/ SubmitPending
            \/ BufferEarly
            \/ BufferRecheck
            \/ BufferInsert
  BY <1>11, JobsTyped DEF SubmitPending, BufferEarly, BufferRecheck, BufferInsert, Jobs,
     InHand
<1>12. CASE \E t \in Tasks : FinalizeNothing(t)
  BY <1>12 DEF FinalizeNothing
<1>13. CASE \E t \in Tasks : FinalizeFails(t)
  BY <1>13 DEF FinalizeFails
<1>14. CASE \E t \in Tasks : FinalizeGuarded(t)
  BY <1>14 DEF FinalizeGuarded
<1>15. CASE \E t \in Tasks : FinalizeSettles(t)
  BY <1>15 DEF FinalizeSettles
<1>16. CASE \E t \in Tasks : FinalizeUnguarded(t)
  BY <1>16 DEF FinalizeUnguarded
<1>17. CASE \E t \in Tasks : PruneFloor(t)
  BY <1>17 DEF PruneFloor, ManagerTypeOK
<1>18. CASE \E t \in Tasks : PruneManager(t)
  BY <1>18 DEF PruneManager
<1>19. CASE \E t \in Tasks : PruneEarly(t)
  BY <1>19 DEF PruneEarly, Jobs
<1>20. CASE \/ Crash
            \/ UNCHANGED vars
  BY <1>20, ZenonT(30) DEF Crash, vars, Jobs
<1>21. CASE OwnVoteMissing
  BY <1>21 DEF OwnVoteMissing, Jobs
<1> HIDE DEF TypeInv, LocalsOK, Tasks, AtTask, Goto, Continue, Done, Returns, locals, Labels
<1> QED
  BY <1>1, <1>2, <1>3, <1>4, <1>5, <1>6, <1>7, <1>8, <1>9, <1>10, <1>11, <1>12, <1>13, <1>14,
     <1>15, <1>16, <1>17, <1>18, <1>19, <1>20, <1>21, Zenon DEF Next, Driver, Net, Finalization

(* The driver's locals fit the point of the code it is at.                 *)
LEMMA DriverNext ==
  ASSUME TypeInv, [Next]_vars
  PROVE  DriverOK'
<1> USE DEF TypeInv, LocalsOK, Tasks, AtTask, Goto, Continue, Done, Returns, locals, DriverOK,
   Proposed, Replaying, Retrying, Finalizing, OwnVote
<1>1. /\ BlocksAt' = BlocksAt
      /\ UNCHANGED <<todo, pc["driver"], job["driver"], back["driver"]>> => DriverOK'
  <2>1. BlocksAt' = BlocksAt
    BY SignaturesNext DEF BlocksAt
  <2> QED
    BY <2>1
<1>2. ASSUME NEW h \in Heights, NEW x \in BlocksAt[h], OnBuried(h, x)
      PROVE  DriverOK'
  <2>1. [height |-> h, hash |-> x, voter |-> Self] \in OwnVote
    BY <1>2, BlockIsHash, SettingsAssumption DEF Vote, OwnVote
  <2> QED
    BY <1>2, <1>1, <2>1, Zenon DEF OnBuried
<1>3. CASE \/ EnsureProposed
           \/ SignOwnVote
           \/ SkipOwnVote
  BY <1>3, <1>1, ZenonT(30) DEF EnsureProposed, SignOwnVote, SkipOwnVote
<1>4. CASE \/ Drain
           \/ Replay
  BY <1>4, <1>1, Zenon DEF Drain, Replay
<1>5. CASE \/ RetryFinalizations
           \/ RetryNext
           \/ \E due \in SUBSET Heights : RetryDue(due)
  BY <1>5, <1>1 DEF RetryFinalizations, RetryNext, RetryDue, QuorumPendingHeights, Held
<1>6. CASE \E h \in Heights, w \in Voters, signed \in BOOLEAN : \E x \in BlocksAt[h] :
                  OnInboundVote([height |-> h, hash |-> x, voter |-> w], signed)
  BY <1>6, <1>1 DEF OnInboundVote
<1>7. CASE SubmitPending
  BY <1>7, <1>1, ZenonT(30) DEF SubmitPending
<1>8. CASE BufferEarly
  BY <1>8, <1>1 DEF BufferEarly
<1>9. CASE BufferRecheck
  BY <1>9, <1>1 DEF BufferRecheck
<1>10. CASE BufferInsert
  BY <1>10, <1>1, ZenonT(30) DEF BufferInsert
<1>11. CASE \/ \E t \in Tasks : FinalizeNothing(t)
            \/ \E t \in Tasks : FinalizeFails(t)
            \/ \E t \in Tasks : FinalizeGuarded(t)
            \/ \E t \in Tasks : FinalizeSettles(t)
            \/ \E t \in Tasks : FinalizeUnguarded(t)
  BY <1>11, <1>1 DEF FinalizeNothing, FinalizeFails, FinalizeGuarded, FinalizeSettles,
     FinalizeUnguarded
<1>12. CASE \/ \E t \in Tasks : PruneFloor(t)
            \/ \E t \in Tasks : PruneManager(t)
            \/ \E t \in Tasks : PruneEarly(t)
  BY <1>12, <1>1, ZenonT(30) DEF PruneFloor, PruneManager, PruneEarly
<1>13. CASE \/ Crash
            \/ UNCHANGED vars
  BY <1>13, <1>1 DEF Crash, vars
<1>14. CASE OwnVoteMissing
  BY <1>14, <1>1, ZenonT(30) DEF OwnVoteMissing
<1> HIDE DEF TypeInv, LocalsOK, Tasks, AtTask, Goto, Continue, Done, Returns, locals, DriverOK,
   Proposed, Replaying, Retrying, Finalizing, OwnVote
<1> QED
  BY <1>2, <1>3, <1>4, <1>5, <1>6, <1>7, <1>8, <1>9, <1>10, <1>11, <1>12, <1>13, <1>14, Zenon DEF Next,
     Driver, Net, Finalization

(* ... and so do the network task's.                                       *)
LEMMA NetNext ==
  ASSUME TypeInv, [Next]_vars
  PROVE  NetOK'
<1> USE DEF TypeInv, LocalsOK, Tasks, AtTask, Goto, Continue, Done, Returns, locals, NetOK,
   InHand
<1>1. UNCHANGED <<pc["net"], job["net"], back["net"]>> => NetOK'
  OBVIOUS
<1>2. CASE \/ \E h \in Heights : \E x \in BlocksAt[h] : OnBuried(h, x)
           \/ EnsureProposed
           \/ SignOwnVote
           \/ SkipOwnVote
           \/ Drain
           \/ Replay
           \/ RetryFinalizations
           \/ RetryNext
           \/ \E due \in SUBSET Heights : RetryDue(due)
  BY <1>2, <1>1, ZenonT(30) DEF OnBuried, EnsureProposed, SignOwnVote, SkipOwnVote, Drain,
     Replay, RetryFinalizations, RetryNext, RetryDue
<1>3. ASSUME NEW h \in Heights, NEW w \in Voters, NEW signed \in BOOLEAN, NEW x \in BlocksAt[h],
              OnInboundVote([height |-> h, hash |-> x, voter |-> w], signed)
      PROVE  NetOK'
  <2>1. [vote |-> [height |-> h, hash |-> x, voter |-> w], signed |-> signed] \in Inbound
    BY <1>3, BlockIsHash, Zenon DEF Inbound, Vote
  <2> QED
    BY <1>3, <2>1, Zenon DEF OnInboundVote
<1>4. CASE \/ SubmitPending
           \/ BufferEarly
           \/ BufferRecheck
           \/ BufferInsert
  BY <1>4, <1>1, Zenon DEF SubmitPending, BufferEarly, BufferRecheck, BufferInsert
<1>5. CASE \/ \E t \in Tasks : FinalizeNothing(t)
           \/ \E t \in Tasks : FinalizeFails(t)
           \/ \E t \in Tasks : FinalizeGuarded(t)
           \/ \E t \in Tasks : FinalizeSettles(t)
           \/ \E t \in Tasks : FinalizeUnguarded(t)
           \/ \E t \in Tasks : PruneFloor(t)
           \/ \E t \in Tasks : PruneManager(t)
           \/ \E t \in Tasks : PruneEarly(t)
  <2>1. ASSUME NEW t \in Tasks, FinalizeNothing(t) \/ FinalizeFails(t) \/ FinalizeGuarded(t)
        PROVE  NetOK'
    BY <2>1, <1>1, BackOK, Zenon DEF FinalizeNothing, FinalizeFails, FinalizeGuarded
  <2>2. ASSUME NEW t \in Tasks, FinalizeSettles(t) \/ FinalizeUnguarded(t)
        PROVE  NetOK'
    BY <2>2, <1>1, BackOK, Zenon DEF FinalizeSettles, FinalizeUnguarded
  <2>3. ASSUME NEW t \in Tasks, PruneFloor(t) \/ PruneManager(t) \/ PruneEarly(t)
        PROVE  NetOK'
    BY <2>3, <1>1, BackOK, Zenon DEF PruneFloor, PruneManager, PruneEarly
  <2> QED
    BY <1>5, <2>1, <2>2, <2>3, Zenon
<1>6. CASE \/ Crash
           \/ UNCHANGED vars
  BY <1>6, <1>1 DEF Crash, vars
<1>7. CASE OwnVoteMissing
  BY <1>7, <1>1, Zenon DEF OwnVoteMissing
<1> HIDE DEF TypeInv, LocalsOK, Tasks, AtTask, Goto, Continue, Done, Returns, locals, NetOK,
   InHand
<1> QED
  BY <1>2, <1>3, <1>4, <1>5, <1>6, <1>7, Zenon DEF Next, Driver, Net, Finalization

(* A lock is held by the task inside the section it protects.              *)
LEMMA LocksNext ==
  ASSUME TypeInv, [Next]_vars
  PROVE  LocksOK'
<1> USE DEF TypeInv, LocalsOK, Tasks, AtTask, Goto, Continue, Done, Returns, locals, LocksOK
<1>1. CASE \/ \E h \in Heights : \E x \in BlocksAt[h] : OnBuried(h, x)
           \/ EnsureProposed
           \/ SignOwnVote
           \/ SkipOwnVote
           \/ Drain
           \/ Replay
           \/ RetryFinalizations
           \/ RetryNext
           \/ \E due \in SUBSET Heights : RetryDue(due)
  BY <1>1, SettingsAssumption, ZenonT(30) DEF OnBuried, EnsureProposed, SignOwnVote,
     SkipOwnVote, Drain, Replay, RetryFinalizations, RetryNext, RetryDue
<1>2. ASSUME NEW h \in Heights, NEW w \in Voters, NEW signed \in BOOLEAN, NEW x \in BlocksAt[h],
              OnInboundVote([height |-> h, hash |-> x, voter |-> w], signed)
      PROVE  LocksOK'
  <2>1. /\ pc["net"] = "idle" /\ pc'["net"] \in {"submit", "early"}
        /\ UNCHANGED <<pc["driver"], stLock, serial, seen>>
    BY <1>2 DEF OnInboundVote
  <2> QED
    BY <2>1, SettingsAssumption
<1>3. CASE SubmitPending
  BY <1>3, SettingsAssumption, ZenonT(30) DEF SubmitPending
<1>4. CASE BufferEarly
  BY <1>4, SettingsAssumption, Zenon DEF BufferEarly
<1>5. CASE BufferRecheck
  BY <1>5, SettingsAssumption DEF BufferRecheck
<1>6. CASE BufferInsert
  BY <1>6, SettingsAssumption DEF BufferInsert
<1>7. CASE \/ \E t \in Tasks : FinalizeNothing(t)
           \/ \E t \in Tasks : FinalizeFails(t)
           \/ \E t \in Tasks : FinalizeUnguarded(t)
  <2>1. CASE \E t \in Tasks : FinalizeNothing(t)
    BY <2>1, SettingsAssumption, BackOK DEF FinalizeNothing
  <2>2. CASE \E t \in Tasks : FinalizeFails(t)
    BY <2>2, SettingsAssumption, BackOK DEF FinalizeFails
  <2>3. CASE \E t \in Tasks : FinalizeUnguarded(t)
    BY <2>3, SettingsAssumption, BackOK DEF FinalizeUnguarded
  <2> QED
    BY <1>7, <2>1, <2>2, <2>3, Zenon
<1>8. ASSUME NEW t \in Tasks, FinalizeGuarded(t)
      PROVE  LocksOK'
  <2>1. pending[JobHeight(t)] \in Entry /\ pending[JobHeight(t)] # None
    BY <1>8 DEF FinalizeGuarded, QuorumPendingHeights, Held, ManagerTypeOK
  <2> QED
    BY <1>8, <2>1, SettingsAssumption DEF FinalizeGuarded
<1>9. CASE \E t \in Tasks : FinalizeSettles(t)
  BY <1>9, SettingsAssumption, BackOK, ZenonT(30) DEF FinalizeSettles
<1>10. CASE \/ \E t \in Tasks : PruneFloor(t)
            \/ \E t \in Tasks : PruneManager(t)
            \/ \E t \in Tasks : PruneEarly(t)
  BY <1>10, SettingsAssumption DEF PruneFloor, PruneManager, PruneEarly
<1>11. CASE \/ Crash
            \/ UNCHANGED vars
  BY <1>11, SettingsAssumption DEF Crash, vars
<1>12. CASE OwnVoteMissing
  BY <1>12, SettingsAssumption, ZenonT(30) DEF OwnVoteMissing
<1> HIDE DEF TypeInv, LocalsOK, Tasks, AtTask, Goto, Continue, Done, Returns, locals, LocksOK
<1> QED
  BY <1>1, <1>2, <1>3, <1>4, <1>5, <1>6, <1>7, <1>8, <1>9, <1>10, <1>11, <1>12, Zenon DEF Next, Driver,
     Net, Finalization

----------------------------------------------------------------------------
(* Signatures                                                              *)

(* A vote that could be signed can still be signed.                        *)
LEMMA SignedStays ==
  ASSUME TypeInv, [Next]_vars, NEW h \in Heights, NEW x \in Hashes,
         NEW v, v.height = h, v.hash = x, Signed(v)
  PROVE  Signed(v)'
<1>1. UNCHANGED <<peerVote, setting>> /\ RecordKept
  BY SignaturesNext
<1>2. record[h] = x => record'[h] = x
  BY <1>1, NoneAssumption DEF RecordKept
<1> QED
  BY <1>1, <1>2 DEF Signed, Peers, Byzantine

(* No signature is taken back, so a signed vote stays signed.              *)
LEMMA VotesStaySigned ==
  ASSUME TypeInv, [Next]_vars
  PROVE  \A u \in Vote : Signed(u) => Signed(u)'
<1> SUFFICES ASSUME NEW u \in Vote, Signed(u) PROVE Signed(u)'
  OBVIOUS
<1>1. u.height \in Heights /\ u.hash \in Hashes
  BY DEF Vote
<1> QED
  BY <1>1, SignedStays

(* Votes that stay where they are, or go.                                  *)
LEMMA VotesOnlyGo ==
  ASSUME TypeInv, VotesSound, [Next]_vars,
         early' \subseteq early,
         Replaying' => Replaying /\ todo' \subseteq todo,
         InHand' => InHand /\ job'["net"] = job["net"]
  PROVE  VotesSound'
<1>1. \A u \in early' : Signed(u)'
  BY VotesStaySigned DEF TypeInv, VotesSound
<1>2. Replaying' => \A u \in todo' : Signed(u)'
  BY VotesStaySigned, JobsTyped DEF VotesSound
<1>3. InHand' /\ job'["net"].signed => Signed(job["net"].vote)'
  <2> SUFFICES ASSUME InHand', job'["net"].signed PROVE Signed(job["net"].vote)'
    OBVIOUS
  <2>1. PICK v \in Vote : v = job["net"].vote
    BY JobsTyped
  <2>2. Signed(v)'
    BY <2>1, VotesStaySigned DEF VotesSound
  <2> QED
    BY <2>1, <2>2
<1> QED
  BY <1>1, <1>2, <1>3 DEF VotesSound

(* Every vote a task works on, or the buffer holds, was signed.            *)
LEMMA VotesSoundNext ==
  ASSUME TypeInv, VotesSound, [Next]_vars
  PROVE  VotesSound'
<1> USE DEF TypeInv, LocalsOK, Tasks, AtTask, Goto, Continue, Done, Returns, locals, Replaying,
   Finalizing, InHand
<1>1. ASSUME early' \subseteq early, Replaying' => Replaying /\ todo' \subseteq todo,
             InHand' => InHand /\ job'["net"] = job["net"]
      PROVE  VotesSound'
  BY <1>1, VotesOnlyGo
<1>2. CASE \/ \E h \in Heights : \E x \in BlocksAt[h] : OnBuried(h, x)
           \/ EnsureProposed
           \/ SignOwnVote
           \/ SkipOwnVote
           \/ Replay
           \/ RetryFinalizations
           \/ RetryNext
           \/ \E due \in SUBSET Heights : RetryDue(due)
  BY <1>2, <1>1, Zenon DEF OnBuried, EnsureProposed, SignOwnVote, SkipOwnVote, Replay,
     RetryFinalizations, RetryNext, RetryDue
<1>3. CASE Drain
  <2>1. early' \subseteq early /\ todo' \subseteq early /\ job' = job /\ (InHand' => InHand)
    BY <1>3 DEF Drain
  <2>2. \A u \in early : Signed(u)'
    BY VotesStaySigned DEF VotesSound
  <2>3. PICK v : v = job["net"].vote
    OBVIOUS
  <2>4. InHand /\ job["net"].signed => Signed(v)'
    BY <2>3, VotesStaySigned, JobsTyped DEF VotesSound
  <2>5. InHand' /\ job'["net"].signed => Signed(job["net"].vote)'
    BY <2>1, <2>3, <2>4
  <2> QED
    BY <2>1, <2>2, <2>5 DEF VotesSound
<1>4. ASSUME NEW h \in Heights, NEW w \in Voters, NEW signed \in BOOLEAN, NEW x \in BlocksAt[h],
              OnInboundVote([height |-> h, hash |-> x, voter |-> w], signed)
      PROVE  VotesSound'
  <2>1. PICK v \in Vote : v = [height |-> h, hash |-> x, voter |-> w]
    BY <1>4, BlockIsHash, Zenon DEF Vote
  <2>2. job'["net"] = [vote |-> v, signed |-> signed] /\ (signed => Signed(v))
    BY <1>4, <2>1, Zenon DEF OnInboundVote
  <2>3. signed => Signed(v)'
    BY <2>2, VotesStaySigned, Zenon
  <2>4. job'["net"].signed => Signed(job["net"].vote)'
    <3>1. job'["net"].vote = v /\ job'["net"].signed = signed
      BY <2>2
    <3> QED
      BY <2>3, <3>1, Zenon
  <2>5. early' = early /\ (Replaying' => Replaying /\ todo' \subseteq todo)
    BY <1>4 DEF OnInboundVote
  <2>6. (\A u \in early' : Signed(u)') /\ (Replaying' => \A u \in todo' : Signed(u)')
    BY <2>5, VotesStaySigned, JobsTyped, Zenon DEF VotesSound
  <2> QED
    BY <2>4, <2>6 DEF VotesSound
<1>5. CASE SubmitPending
  BY <1>5, <1>1, Zenon DEF SubmitPending
<1>6. CASE BufferEarly
  BY <1>6, <1>1 DEF BufferEarly
<1>7. CASE BufferRecheck
  BY <1>7, <1>1 DEF BufferRecheck
<1>8. CASE BufferInsert
  <2>1. PICK v \in Vote : v = job["net"].vote /\ Signed(v)
    BY <1>8, JobsTyped, Zenon DEF BufferInsert, NetOK, VotesSound
  <2>2. early' \subseteq early \union {v} /\ ~InHand'
    BY <1>8, <2>1 DEF BufferInsert
  <2>3. \A u \in early' : Signed(u)'
    BY <2>1, <2>2, VotesStaySigned DEF VotesSound
  <2>4. Replaying' => Replaying /\ todo' \subseteq todo
    BY <1>8 DEF BufferInsert
  <2>5. Replaying' => \A u \in todo' : Signed(u)'
    BY <2>4, VotesStaySigned, JobsTyped, Zenon DEF VotesSound
  <2> QED
    BY <2>2, <2>3, <2>5, Zenon DEF VotesSound
<1>9. CASE \/ \E t \in Tasks : FinalizeNothing(t)
           \/ \E t \in Tasks : FinalizeFails(t)
           \/ \E t \in Tasks : FinalizeGuarded(t)
           \/ \E t \in Tasks : FinalizeSettles(t)
           \/ \E t \in Tasks : FinalizeUnguarded(t)
           \/ \E t \in Tasks : PruneFloor(t)
           \/ \E t \in Tasks : PruneManager(t)
           \/ \E t \in Tasks : PruneEarly(t)
  <2>1. ASSUME NEW t \in Tasks, FinalizeNothing(t) \/ FinalizeFails(t) \/ FinalizeGuarded(t)
        PROVE  VotesSound'
    BY <2>1, <1>1, BackOK, Zenon DEF FinalizeNothing, FinalizeFails, FinalizeGuarded
  <2>2. ASSUME NEW t \in Tasks, FinalizeSettles(t) \/ FinalizeUnguarded(t)
        PROVE  VotesSound'
    BY <2>2, <1>1, BackOK, Zenon DEF FinalizeSettles, FinalizeUnguarded
  <2>3. ASSUME NEW t \in Tasks, PruneFloor(t) \/ PruneManager(t) \/ PruneEarly(t)
        PROVE  VotesSound'
    BY <2>3, <1>1, BackOK, Zenon DEF PruneFloor, PruneManager, PruneEarly
  <2> QED
    BY <1>9, <2>1, <2>2, <2>3, Zenon
<1>10. CASE \/ Crash
            \/ UNCHANGED vars
  BY <1>10, <1>1 DEF Crash, vars
<1>11. CASE OwnVoteMissing
  BY <1>11, <1>1, Zenon DEF OwnVoteMissing
<1> HIDE DEF TypeInv, LocalsOK, Tasks, AtTask, Goto, Continue, Done, Returns, locals, Replaying,
   Finalizing, InHand
<1> QED
  BY <1>2, <1>3, <1>4, <1>5, <1>6, <1>7, <1>8, <1>9, <1>10, <1>11, Zenon DEF Next, Driver, Net,
     Finalization

----------------------------------------------------------------------------
(* The certificate a guard runs on                                         *)

(* finalize_checkpoint holds finalize_serial while its guard runs: no      *)
(* other finalization is past its start.                                   *)
LEMMA OneGuard ==
  ASSUME TypeInv, NEW t \in Tasks, NEW s \in Tasks, pc[s] = "guard",
         serial = None \/ pc[t] = "guard"
  PROVE  s = t /\ serial # None
BY SettingsAssumption, Zenon DEF TypeInv, LocksOK, Tasks

(* It stays on disk until the finalization settles.                        *)
LEMMA GuardNext ==
  ASSUME TypeInv, GuardInv, [Next]_vars
  PROVE  GuardInv'
<1> USE DEF TypeInv, LocalsOK, Tasks, AtTask, Goto, Continue, Done, Returns, locals, manager,
   Propose, SubmitVote, PrunePending, PruneVoted
<1>1. ASSUME disk' = disk, seen' = seen,
             \A s \in Tasks : pc'[s] = "guard" => pc[s] = "guard" /\ job'[s] = job[s]
      PROVE  GuardInv'
  BY <1>1, Zenon DEF GuardInv, JobHeight
<1>2. CASE \/ \E h \in Heights : \E x \in BlocksAt[h] : OnBuried(h, x)
           \/ EnsureProposed
           \/ SignOwnVote
           \/ SkipOwnVote
           \/ Drain
           \/ Replay
           \/ RetryFinalizations
           \/ RetryNext
           \/ \E due \in SUBSET Heights : RetryDue(due)
  BY <1>2, <1>1, Zenon DEF OnBuried, EnsureProposed, SignOwnVote, SkipOwnVote, Drain, Replay,
     RetryFinalizations, RetryNext, RetryDue
<1>3. CASE \E h \in Heights, w \in Voters, signed \in BOOLEAN : \E x \in BlocksAt[h] :
                  OnInboundVote([height |-> h, hash |-> x, voter |-> w], signed)
  <2>1. PICK h \in Heights, w \in Voters, signed \in BOOLEAN, x \in Hashes :
               OnInboundVote([height |-> h, hash |-> x, voter |-> w], signed)
    BY <1>3, BlockIsHash, Zenon
  <2>2. disk' = disk /\ seen' = seen
    BY <2>1, ZenonT(30) DEF OnInboundVote
  <2>3. \A s \in Tasks : pc'[s] = "guard" => pc[s] = "guard" /\ job'[s] = job[s]
    BY <2>1, Zenon DEF OnInboundVote
  <2> QED
    BY <1>1, <2>2, <2>3, Zenon
<1>4. CASE SubmitPending
  BY <1>4, <1>1 DEF SubmitPending
<1>5. CASE \/ BufferEarly
           \/ BufferRecheck
           \/ BufferInsert
  BY <1>5, <1>1, Zenon DEF BufferEarly, BufferRecheck, BufferInsert
<1>6. CASE \/ \E t \in Tasks : FinalizeNothing(t)
           \/ \E t \in Tasks : PruneFloor(t)
           \/ \E t \in Tasks : PruneManager(t)
           \/ \E t \in Tasks : PruneEarly(t)
  BY <1>6, <1>1, BackOK, Zenon DEF FinalizeNothing, PruneFloor, PruneManager, PruneEarly
<1>7. ASSUME NEW t \in Tasks, FinalizeFails(t)
      PROVE  GuardInv'
  <2>1. \A s \in Tasks : pc'[s] # "guard"
    BY <1>7, OneGuard, BackOK DEF FinalizeFails
  <2> QED
    BY <2>1, Zenon DEF GuardInv
<1>8. ASSUME NEW t \in Tasks, FinalizeGuarded(t)
      PROVE  GuardInv'
  <2>1. \A s \in Tasks : pc'[s] = "guard" => s = t
    BY <1>8, OneGuard, Zenon DEF FinalizeGuarded
  <2>2. JobHeight(t) \in Heights /\ JobHeight(t)' = JobHeight(t)
    BY <1>8, JobHeightOK DEF FinalizeGuarded, JobHeight
  <2>3. disk'[JobHeight(t)] = seen'
    BY <1>8, <2>2, Zenon DEF FinalizeGuarded, PersistCandidate, ManagerTypeOK
  <2> QED
    BY <2>1, <2>2, <2>3, Zenon DEF GuardInv
<1>9. ASSUME NEW t \in Tasks, FinalizeSettles(t)
      PROVE  GuardInv'
  <2>1. \A s \in Tasks : pc'[s] # "guard"
    BY <1>9, OneGuard, BackOK, Zenon DEF FinalizeSettles
  <2> QED
    BY <2>1 DEF GuardInv
<1>10. ASSUME NEW t \in Tasks, FinalizeUnguarded(t)
      PROVE  GuardInv'
  <2>1. \A s \in Tasks : pc'[s] # "guard"
    BY <1>10, OneGuard, BackOK DEF FinalizeUnguarded
  <2> QED
    BY <2>1 DEF GuardInv
<1>11. CASE Crash
  BY <1>11 DEF Crash, GuardInv
<1>12. CASE UNCHANGED vars
  BY <1>12, <1>1 DEF vars
<1>13. CASE OwnVoteMissing
  BY <1>13, <1>1, Zenon DEF OwnVoteMissing
<1> HIDE DEF TypeInv, LocalsOK, Tasks, AtTask, Goto, Continue, Done, Returns, locals, manager,
   Propose, SubmitVote, PrunePending, PruneVoted
<1> QED
  BY <1>2, <1>3, <1>4, <1>5, <1>6, <1>7, <1>8, <1>9, <1>10, <1>11, <1>12, <1>13, Zenon DEF Next, Driver, Net,
     Finalization

----------------------------------------------------------------------------
(* The calls that reach the manager                                        *)

(* Whatever the interleaving, a step makes at most one call of the manager *)
(* and each call meets what it relies on: a proposal finds no entry and    *)
(* names a block of the height, a vote said to be signed is signed, only a *)
(* pending quorum is persisted, and what settles after a guard is on disk. *)
Calls ==
  \/ UNCHANGED manager
  \/ \E h \in Heights : \E x \in BlocksAt[h] : pending[h] = None /\ Propose(h, x)
  \/ \E v \in Vote, signed \in BOOLEAN : SubmitVote(v, signed) /\ (signed => Signed(v)')
  \/ \E t \in Tasks : PrunePending(floor[t]) \/ PruneVoted(floor[t])
  \/ \E h \in QuorumPendingHeights :
       PersistCandidate(h) \/ PersistCandidateFails(h) \/ SettleUnguarded(h)
  \/ \E h \in Heights : seen \in Entry \ {None} /\ disk[h] = seen /\ Settle(h, seen)
  \/ Load

(* Every step of the tasks is one of these calls.                          *)
LEMMA CallsNext ==
  ASSUME TypeInv, VotesSound, GuardInv, [Next]_vars
  PROVE  Calls
<1> USE DEF Calls, manager, locals
<1>1. CASE \/ \E h \in Heights : \E x \in BlocksAt[h] : OnBuried(h, x)
           \/ SkipOwnVote
           \/ Drain
           \/ RetryFinalizations
           \/ RetryNext
           \/ \E due \in SUBSET Heights : RetryDue(due)
  BY <1>1, Zenon DEF OnBuried, SkipOwnVote, Drain, RetryFinalizations, RetryNext, RetryDue
<1>2. CASE EnsureProposed
  BY <1>2, JobsTyped, Zenon DEF EnsureProposed, AtTask, OwnVote
<1>3. CASE SignOwnVote
  <2>1. PICK v \in Vote : v = job["driver"] /\ v.voter = Self /\ v.height \in Heights
    BY <1>3, JobsTyped, Zenon DEF SignOwnVote, AtTask, Proposed, OwnVote
  <2>2. SubmitVote(v, TRUE) /\ record'[v.height] = v.hash
    BY <1>3, <2>1, Zenon DEF SignOwnVote, TypeInv, SignaturesOK
  <2>3. Signed(v)'
    BY <2>1, <2>2 DEF Signed
  <2> QED
    BY <2>2, <2>3, Zenon
<1>4. CASE Replay
  BY <1>4, JobsTyped, VotesStaySigned, Zenon DEF Replay, AtTask, Replaying, VotesSound
<1>5. CASE \E h \in Heights, w \in Voters, signed \in BOOLEAN : \E x \in BlocksAt[h] :
                  OnInboundVote([height |-> h, hash |-> x, voter |-> w], signed)
  BY <1>5, ZenonT(30) DEF OnInboundVote
<1>6. CASE SubmitPending
  <2>1. PICK v \in Vote, signed \in BOOLEAN : v = job["net"].vote /\ signed = job["net"].signed
    BY <1>6, JobsTyped, Zenon DEF SubmitPending, AtTask, InHand
  <2>2. SubmitVote(v, signed) /\ (signed => Signed(v))
    BY <1>6, <2>1, Zenon DEF SubmitPending, AtTask, InHand, VotesSound
  <2> QED
    BY <2>2, VotesStaySigned, Zenon
<1>7. CASE \/ BufferEarly
           \/ BufferRecheck
           \/ BufferInsert
  BY <1>7, Zenon DEF BufferEarly, BufferRecheck, BufferInsert
<1>8. CASE \/ \E t \in Tasks : FinalizeNothing(t)
           \/ \E t \in Tasks : FinalizeFails(t)
           \/ \E t \in Tasks : FinalizeGuarded(t)
           \/ \E t \in Tasks : FinalizeUnguarded(t)
           \/ \E t \in Tasks : PruneFloor(t)
           \/ \E t \in Tasks : PruneManager(t)
           \/ \E t \in Tasks : PruneEarly(t)
  BY <1>8, Zenon DEF FinalizeNothing, FinalizeFails, FinalizeGuarded, FinalizeUnguarded, PruneFloor,
     PruneManager, PruneEarly
<1>9. ASSUME NEW t \in Tasks, FinalizeSettles(t)
      PROVE  Calls
  <2>1. JobHeight(t) \in Heights /\ disk[JobHeight(t)] = seen /\ seen \in Entry \ {None}
    BY <1>9, JobHeightOK, SettingsAssumption, Zenon DEF FinalizeSettles, AtTask, GuardInv, TypeInv, LocksOK, Tasks
  <2> QED
    BY <1>9, <2>1, Zenon DEF FinalizeSettles
<1>10. CASE \/ Crash
            \/ UNCHANGED vars
  BY <1>10, Zenon DEF Crash, vars
<1>11. CASE OwnVoteMissing
  BY <1>11, Zenon DEF OwnVoteMissing
<1> HIDE DEF Calls, manager, locals
<1> QED
  BY <1>1, <1>2, <1>3, <1>4, <1>5, <1>6, <1>7, <1>8, <1>9, <1>10, <1>11, Zenon DEF Next, Driver, Net,
     Finalization

(* Every call keeps the manager typed and capped.                          *)
LEMMA ManagerNext ==
  ASSUME TypeInv, Capped, Calls
  PROVE  ManagerTypeOK' /\ Capped'
<1> USE DEF TypeInv
<1>1. CASE UNCHANGED manager
  BY <1>1 DEF manager, ManagerTypeOK, Capped, Held
<1>2. ASSUME NEW h \in Heights, NEW x \in BlocksAt[h], pending[h] = None, Propose(h, x)
      PROVE  ManagerTypeOK' /\ Capped'
  BY <1>2, BlockIsHash, ProposeKeeps
<1>3. ASSUME NEW v \in Vote, NEW signed \in BOOLEAN, SubmitVote(v, signed), signed => Signed(v)'
      PROVE  ManagerTypeOK' /\ Capped'
  BY <1>3, SubmitVoteKeeps
<1>4. ASSUME NEW t \in Tasks, PrunePending(floor[t]) \/ PruneVoted(floor[t])
      PROVE  ManagerTypeOK' /\ Capped'
  BY <1>4, PruneKeeps
<1>5. ASSUME NEW h \in QuorumPendingHeights,
             PersistCandidate(h) \/ PersistCandidateFails(h) \/ SettleUnguarded(h)
      PROVE  ManagerTypeOK' /\ Capped'
  <2>1. h \in Heights /\ pending[h] # None /\ pending[h] \in Entry
    BY Zenon DEF QuorumPendingHeights, Held, ManagerTypeOK
  <2> QED
    BY <1>5, <2>1, PersistKeeps, SettleKeeps, Zenon
<1>6. ASSUME NEW h \in Heights, seen \in Entry \ {None}, disk[h] = seen, Settle(h, seen)
      PROVE  ManagerTypeOK' /\ Capped'
  BY <1>6, SettleKeeps
<1>7. CASE Load
  BY <1>7, LoadKeeps
<1> QED
  BY <1>1, <1>2, <1>3, <1>4, <1>5, <1>6, <1>7, Zenon DEF Calls

(* Types and caps, over every step of both tasks.                          *)
LEMMA TypeNext ==
  ASSUME TypeInv, Capped, VotesSound, GuardInv, [Next]_vars
  PROVE  TypeInv' /\ Capped'
<1>1. ManagerTypeOK' /\ Capped'
  BY CallsNext, ManagerNext, Zenon
<1> QED
  BY <1>1, SignaturesNext, LocalsNext, DriverNext, NetNext, LocksNext, Zenon DEF TypeInv

----------------------------------------------------------------------------
(* Certificates                                                            *)

(* Signatures, committees and the blocks of a height do not change.        *)
LEMMA EntryStaysSound ==
  ASSUME TypeInv, [Next]_vars, NEW h \in Heights, NEW e \in Entry, EntrySound(h, e)
  PROVE  EntrySound(h, e)'
<1>1. UNCHANGED setting /\ e.hash \in Hashes
  BY SignaturesNext, Zenon DEF Entry
<1>2. ASSUME NEW w \in e.votes
      PROVE  Signed([height |-> h, hash |-> e.hash, voter |-> w])'
  <2>1. PICK v : v = [height |-> h, hash |-> e.hash, voter |-> w]
    BY Zenon
  <2>2. v.height = h /\ v.hash = e.hash /\ Signed(v)
    BY <2>1, Zenon DEF EntrySound
  <2>3. Signed(v)'
    BY <1>1, <2>2, SignedStays
  <2> QED
    BY <2>1, <2>3, Zenon
<1> QED
  BY <1>1, <1>2 DEF EntrySound, BlocksAt

(* An entry that stays, or goes.                                           *)
LEMMA PendingStaysSound ==
  ASSUME TypeInv, [Next]_vars, PendingSound, NEW h \in Heights,
         pending'[h] \in {pending[h], None}, pending'[h] # None
  PROVE  EntrySound(h, pending[h])'
<1>1. PICK e \in Entry : e = pending[h]
  BY DEF TypeInv, ManagerTypeOK
<1>2. EntrySound(h, e)'
  BY <1>1, EntryStaysSound DEF PendingSound, Held
<1> QED
  BY <1>1, <1>2

(* An entry that gets one more signed vote.                                *)
LEMMA SubmitVoteSound ==
  ASSUME TypeInv, [Next]_vars, PendingSound, NEW v \in Vote, NEW signed \in BOOLEAN,
         SubmitVote(v, signed), signed => Signed(v)', NEW h \in Heights, pending'[h] # None
  PROVE  EntrySound(h, pending[h])'
<1>1. pending \in [Heights -> Entry \union {None}] /\ v.height \in Heights
  BY Zenon DEF TypeInv, ManagerTypeOK, Vote
<1>2. CASE pending'[h] = pending[h]
  BY <1>2, PendingStaysSound
<1>3. CASE pending'[h] # pending[h]
  <2>1. Accepts(v, signed) /\ h = v.height
    BY <1>1, <1>3, Zenon DEF SubmitVote
  <2>2. PICK e \in Entry : e = pending[h]
    BY <1>1, <2>1, ZenonT(30) DEF Accepts
  <2>3. EntrySound(h, e)'
    BY <2>1, <2>2, EntryStaysSound DEF PendingSound, Held, Accepts
  <2>4. pending'[h] = [e EXCEPT !.votes = e.votes \union {v.voter}]
    BY <1>1, <2>1, <2>2 DEF SubmitVote
  <2>5. pending'[h].hash = e.hash /\ pending'[h].votes = e.votes \union {v.voter}
    BY <2>4, Zenon DEF Entry
  <2>6. v.voter \in Committee[e.hash] /\ v.hash = e.hash /\ signed
    BY <2>1, <2>2 DEF Accepts
  <2>7. Signed([height |-> h, hash |-> e.hash, voter |-> v.voter])'
    BY <2>1, <2>6, Zenon DEF Signed
  <2> QED
    BY <2>3, <2>5, <2>6, <2>7, Zenon DEF EntrySound
<1> QED
  BY <1>2, <1>3, Zenon

(* Every vote a pending checkpoint counts was signed.                      *)
LEMMA PendingSoundNext ==
  ASSUME TypeInv, PendingSound, Calls, [Next]_vars
  PROVE  PendingSound'
<1> SUFFICES ASSUME NEW g \in Heights, pending'[g] # None
             PROVE  EntrySound(g, pending[g])'
  BY DEF PendingSound, Held
<1> USE DEF TypeInv, ManagerTypeOK
<1>1. CASE UNCHANGED manager
  BY <1>1, PendingStaysSound DEF manager
<1>2. ASSUME NEW h \in Heights, NEW x \in BlocksAt[h], pending[h] = None, Propose(h, x)
      PROVE  EntrySound(g, pending[g])'
  <2>1. CASE g = h
    <3>1. pending'[h] = [hash |-> x, votes |-> {}]
      BY <1>2, Zenon DEF Propose, Only
    <3>2. UNCHANGED setting
      BY SignaturesNext, Zenon
    <3>3. BlocksAt' = BlocksAt
      BY <3>2 DEF BlocksAt
    <3>4. pending'[h].hash = x /\ pending'[h].votes = {}
      BY <3>1
    <3> QED
      BY <2>1, <3>3, <3>4, Zenon DEF EntrySound
  <2>2. CASE g # h
    BY <1>2, <2>2, PendingStaysSound, Zenon DEF Propose, Only
  <2> QED
    BY <2>1, <2>2
<1>3. ASSUME NEW v \in Vote, NEW signed \in BOOLEAN, SubmitVote(v, signed), signed => Signed(v)'
      PROVE  EntrySound(g, pending[g])'
  BY <1>3, SubmitVoteSound, Zenon
<1>4. ASSUME NEW t \in Tasks, PrunePending(floor[t]) \/ PruneVoted(floor[t])
      PROVE  EntrySound(g, pending[g])'
  BY <1>4, PendingStaysSound DEF PrunePending, PruneVoted, Only
<1>5. ASSUME NEW h \in QuorumPendingHeights,
             PersistCandidate(h) \/ PersistCandidateFails(h) \/ SettleUnguarded(h)
      PROVE  EntrySound(g, pending[g])'
  BY <1>5, PendingStaysSound, Zenon DEF PersistCandidate, PersistCandidateFails, SettleUnguarded, Visible
<1>6. ASSUME NEW h \in Heights, seen \in Entry \ {None}, disk[h] = seen, Settle(h, seen)
      PROVE  EntrySound(g, pending[g])'
  BY <1>6, PendingStaysSound, Zenon DEF Settle, Visible
<1>7. CASE Load
  BY <1>7, PendingStaysSound DEF Load, Nothing
<1> QED
  BY <1>1, <1>2, <1>3, <1>4, <1>5, <1>6, <1>7, Zenon DEF Calls

(* More votes for the same block are still a quorum.                       *)
LEMMA QuorumGrows ==
  ASSUME NEW e \in Entry, NEW f \in Entry, e.hash = f.hash, e.votes \subseteq f.votes,
         HasDerivedQuorum(e)
  PROVE  HasDerivedQuorum(f)
<1>1. IsFiniteSet(f.votes) /\ IsFiniteSet(e.votes) /\ IsFiniteSet(Committee[f.hash])
  BY VotersAssumption, CommitteeAssumption, FS_Subset DEF Entry
<1>2. Cardinality(e.votes) <= Cardinality(f.votes)
  BY <1>1, FS_Subset
<1>3. /\ Cardinality(e.votes) \in Nat /\ Cardinality(f.votes) \in Nat
      /\ Cardinality(Committee[f.hash]) \in Nat
  BY <1>1, FS_CardinalityType
<1>4. DerivedQuorum(Cardinality(Committee[f.hash])) \in Nat
  BY <1>3 DEF DerivedQuorum
<1> QED
  BY <1>2, <1>3, <1>4 DEF HasDerivedQuorum

(* What a height's certificate on disk becomes: it stays, or the pending   *)
(* quorum of the height replaces it.                                       *)
Rewritten(g) == g \in QuorumPendingHeights /\ disk'[g] = pending[g]

(* Nothing but a durable write of a pending quorum changes the disk.       *)
LEMMA DiskNext ==
  ASSUME TypeInv, DiskSound, Calls, NEW g \in Heights
  PROVE  disk'[g] = disk[g] \/ Rewritten(g)
<1> USE DEF TypeInv, ManagerTypeOK, Rewritten
<1>1. CASE UNCHANGED manager
  BY <1>1, Zenon DEF manager
<1>2. ASSUME NEW h \in Heights, NEW x \in BlocksAt[h], pending[h] = None, Propose(h, x)
      PROVE  disk'[g] = disk[g] \/ Rewritten(g)
  BY <1>2, Zenon DEF Propose
<1>3. ASSUME NEW v \in Vote, NEW signed \in BOOLEAN, SubmitVote(v, signed), signed => Signed(v)'
      PROVE  disk'[g] = disk[g] \/ Rewritten(g)
  BY <1>3 DEF SubmitVote
<1>4. ASSUME NEW t \in Tasks, PrunePending(floor[t]) \/ PruneVoted(floor[t])
      PROVE  disk'[g] = disk[g] \/ Rewritten(g)
  BY <1>4 DEF PrunePending, PruneVoted
<1>5. ASSUME NEW h \in QuorumPendingHeights,
             PersistCandidate(h) \/ PersistCandidateFails(h) \/ SettleUnguarded(h)
      PROVE  disk'[g] = disk[g] \/ Rewritten(g)
  BY <1>5 DEF PersistCandidate, PersistCandidateFails, PersistFails, SettleUnguarded
<1>6. ASSUME NEW h \in Heights, seen \in Entry \ {None}, disk[h] = seen, Settle(h, seen)
      PROVE  disk'[g] = disk[g] \/ Rewritten(g)
  <2>1. ExtendsCertificate(h, seen) => h \in QuorumPendingHeights
    <3> SUFFICES ASSUME ExtendsCertificate(h, seen) PROVE h \in QuorumPendingHeights
      BY Zenon
    <3>1. /\ pending[h] \in Entry /\ pending[h] # None
          /\ seen.hash = pending[h].hash /\ seen.votes \subseteq pending[h].votes
      BY DEF ExtendsCertificate
    <3>2. HasDerivedQuorum(seen)
      BY <1>6, Zenon DEF DiskSound, Held
    <3>3. HasDerivedQuorum(pending[h])
      BY <1>6, <3>1, <3>2, QuorumGrows, Zenon
    <3> QED
      BY <3>1, <3>3, Zenon DEF QuorumPendingHeights, Held
  <2>2. \/ disk' = disk
        \/ ExtendsCertificate(h, seen) /\ disk' = [disk EXCEPT ![h] = pending[h]]
    BY <1>6 DEF Settle, PersistFails
  <2> QED
    BY <2>1, <2>2
<1>7. CASE Load
  BY <1>7, Zenon DEF Load
<1> QED
  BY <1>1, <1>2, <1>3, <1>4, <1>5, <1>6, <1>7, Zenon DEF Calls

(* Every certificate on disk is a quorum of signed votes.                  *)
LEMMA DiskSoundNext ==
  ASSUME TypeInv, PendingSound, DiskSound, Calls, [Next]_vars
  PROVE  DiskSound'
<1> SUFFICES ASSUME NEW g \in Heights, disk'[g] # None
             PROVE  EntrySound(g, disk[g])' /\ HasDerivedQuorum(disk[g])'
  BY Zenon DEF DiskSound, Held
<1>1. PICK e \in Entry : /\ e = disk'[g] /\ EntrySound(g, e) /\ HasDerivedQuorum(e)
  BY DiskNext DEF Rewritten, TypeInv, ManagerTypeOK, DiskSound, PendingSound, Held, QuorumPendingHeights
<1>2. EntrySound(g, e)'
  BY <1>1, EntryStaysSound
<1> QED
  BY <1>1, <1>2 DEF HasDerivedQuorum
=============================================================================
