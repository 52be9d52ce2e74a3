----------------------- MODULE FinalityDriver_proofs -----------------------
(***************************************************************************)
(* What the finality driver promises, for every number of boundaries,      *)
(* chains, blocks and reorgs, every cap and every bound of a run.          *)
(***************************************************************************)
EXTENDS FinalityDriver, FiniteSetTheorems, TLAPS

Phases == {"idle", "new", "due", "revisit", "failed", "gate", "send"}
Stages == {"none", "sign", "back"}
Results == {"quiet", "halted", "retry", "voted"}
Hash0 == Hashes \union {None}

(* The driver's own state.                                                 *)
Tracked(r) ==
  /\ r \in [attempts : [Heights -> Nat], halted : SUBSET Heights, held : [Heights -> Hash0]]
  /\ Cardinality({h \in Heights : r.attempts[h] > 0}) <= MaxRetries
  /\ \A h \in Heights : r.attempts[h] < MaxAttempts
  /\ Cardinality(r.halted) <= MaxRevisits
  /\ \A h \in Heights : r.held[h] # None => h \in r.halted

PassTypes ==
  pass \in [phase : Phases, highest : Heights \union {0}, tip : 0..MaxTip,
            chain : Chains \union {None}, todo : SUBSET Heights]

JobTypes ==
  job \in [stage : Stages, height : Heights \union {0}, hash : Hash0, taken : Hash0,
           result : Results]

(* The gadget's and the node's.                                            *)
WorldTypes ==
  /\ tip \in 0..MaxTip /\ chain \in Chains /\ engaged \in BOOLEAN
  /\ record \in [Heights -> Hash0]
  /\ pending \in [Heights -> Hash0]
  /\ own \subseteq {h \in Heights : pending[h] # None}

(* Every vote the node has made, wherever the driver keeps it, is the one  *)
(* on record.                                                              *)
OnRecord(votes) == votes \subseteq {<<h, record[h]>> : h \in {g \in Heights : record[g] # None}}
HeldOnRecord(r) == \A h \in Heights : r.held[h] \in {None, record[h]}
JobOnRecord ==
  job.stage # "none" =>
    /\ job.taken \in {None, record[job.height]}
    /\ job.result = "voted" => job.hash = record[job.height]

(* What is reported is a block of the walked chain, and on its first       *)
(* report one that is buried.                                              *)
Walked ==
  /\ pass.phase # "idle" => pass.chain \in Chains
  /\ pass.phase \in {"new", "revisit"} =>
       \A h \in pass.todo : BlockAt[pass.chain][h] # None
  /\ pass.phase = "new" => \A h \in pass.todo : Buried(h)

Reported ==
  job.stage # "none" =>
    /\ pass.phase \in {"new", "revisit"}
    /\ job.height \in Heights
    /\ job.hash = BlockAt[pass.chain][job.height] /\ job.hash # None
    /\ pass.phase = "new" => Buried(job.height)
    /\ job.stage = "sign" => job.result # "voted"

Inv ==
  /\ WorldTypes
  /\ cursor \in Heights \union {0}
  /\ Tracked(retries) /\ HeldOnRecord(retries)
  /\ PassTypes /\ JobTypes
  /\ OnRecord(outbound) /\ OnRecord(sent) /\ JobOnRecord
  /\ Walked /\ Reported

(* A set of naturals that is not empty has a least element.                *)
LEMMA LeastNatural ==
  ASSUME NEW N, N \subseteq Nat, N # {}
  PROVE  \E n \in N : \A m \in N : n <= m
<1>1. PICK n \in N : \A m \in N : ~(<<m, n>> \in OpToRel(<, Nat))
  BY WFMin, NatLessThanWellFounded, Zenon
<1>2. \A m \in N : ~(m < n)
  BY <1>1, Zenon DEF OpToRel
<1> QED
  BY <1>2

----------------------------------------------------------------------------
(* Operators                                                               *)

(* There are finitely many boundaries, all of them positive.               *)
LEMMA HeightsFinite == IsFiniteSet(Heights) /\ Heights \subseteq Nat \ {0}
<1>1. IsFiniteSet(1..MaxTip)
  BY DriverAssumption, FS_Interval
<1> QED BY <1>1, FS_Subset, DriverAssumption DEF Heights

(* The cap: of a finite set at most n members are kept (the loops that     *)
(* drop the lowest entry in OwnVoteRetries::record and mark_halted).       *)
LEMMA HighestCaps ==
  ASSUME NEW S, IsFiniteSet(S), S \subseteq Nat, NEW n \in Nat
  PROVE  Highest(S, n) \subseteq S /\ IsFiniteSet(Highest(S, n)) /\ Cardinality(Highest(S, n)) <= n
<1> DEFINE H == Highest(S, n)
<1>1. H \subseteq S /\ IsFiniteSet(H)
  BY FS_Subset, Zenon DEF Highest
<1>2. CASE H = {}
  BY <1>1, <1>2, FS_EmptySet
<1>3. CASE H # {}
  <2>1. PICK m \in H : \A k \in H : m <= k
    <3> HIDE DEF H
    <3> QED BY <1>1, <1>3, LeastNatural, Zenon
  <2> DEFINE Over == {g \in S : g > m}
  <2>2. Cardinality(Over) < n /\ IsFiniteSet(Over)
    BY <2>1, FS_Subset DEF Highest
  <2>3. H \ {m} \subseteq Over
    <3> SUFFICES ASSUME NEW k \in H, k # m PROVE k \in S /\ k > m
      OBVIOUS
    <3> HIDE DEF H
    <3>1. k \in Nat /\ m \in Nat /\ m <= k /\ k \in S
      BY <2>1, <1>1
    <3> QED BY <3>1
  <2>4. Cardinality(H) = Cardinality(H \ {m}) + 1
    <3> HIDE DEF H
    <3>1. Cardinality(H \ {m}) = Cardinality(H) - 1
      BY <1>1, <2>1, FS_RemoveElement, Zenon
    <3> QED BY <3>1, <1>1, FS_CardinalityType
  <2>5. Cardinality(H \ {m}) <= Cardinality(Over)
    BY <2>2, <2>3, FS_Subset
  <2> HIDE DEF H, Over
  <2>6. Cardinality(Over) \in Nat /\ Cardinality(H \ {m}) \in Nat
    BY <2>2, <2>3, FS_Subset, FS_CardinalityType
  <2> QED BY <1>1, <2>2, <2>4, <2>5, <2>6 DEF H
<1> QED BY <1>2, <1>3

(* Rounding down to a boundary gives a multiple of the interval.           *)
LEMMA RoundedDown ==
  ASSUME NEW b \in Nat \ {0}, NEW a \in Nat
  PROVE  (a - (a % b)) % b = 0 /\ a - (a % b) \in 0..a
<1> DEFINE q == a \div b
<1>1. a = (b * q) + (a % b) /\ q \in Int /\ a % b \in Int
  OBVIOUS
<1>2. a % b \in 0..(b - 1) /\ a % b <= a
  OBVIOUS
<1> HIDE DEF q
<1>3. (b * q) % b = 0 /\ b * q \in Int
  BY <1>1
<1>4. a - (a % b) = b * q
  BY <1>1, <1>3
<1> QED BY <1>2, <1>3, <1>4

(* highest_buried_boundary gives a boundary buried below the tip, or none. *)
LEMMA BuriedBoundary ==
  ASSUME NEW t \in 0..MaxTip
  PROVE  /\ HighestBuried(t) \in Heights \union {0}
         /\ HighestBuried(t) > 0 => HighestBuried(t) + VoteDepth <= t
<1> DEFINE a == t - VoteDepth
<1>1. CASE t < VoteDepth
  BY <1>1 DEF HighestBuried
<1>2. CASE t >= VoteDepth
  <2>1. a \in Nat /\ a <= MaxTip
    BY <1>2, DriverAssumption
  <2> DEFINE k == a - (a % Interval)
  <2>2. k % Interval = 0 /\ k \in 0..a
    <3> HIDE DEF a
    <3> QED BY <2>1, RoundedDown, DriverAssumption, Zenon
  <2>3. HighestBuried(t) = k
    <3>1. ~(t < VoteDepth)
      BY <1>2, DriverAssumption
    <3>2. HighestBuried(t) = (t - VoteDepth) - ((t - VoteDepth) % Interval)
      BY ONLY <3>1, Zenon DEF HighestBuried
    <3> QED BY <3>2, Zenon
  <2> HIDE DEF k
  <2>4. k + VoteDepth <= t
    BY <2>2, DriverAssumption
  <2> HIDE DEF a
  <2> QED BY <2>1, <2>2, <2>3, <2>4, DriverAssumption DEF Heights
<1> QED BY <1>1, <1>2, DriverAssumption

(* A smaller set stays below a cap.                                        *)
LEMMA Fewer ==
  ASSUME NEW S \in SUBSET Heights, NEW T \in SUBSET S, NEW n \in Nat, Cardinality(S) <= n
  PROVE  Cardinality(T) <= n
<1>1. IsFiniteSet(S) /\ IsFiniteSet(T) /\ Cardinality(T) <= Cardinality(S)
  BY HeightsFinite, FS_Subset, Zenon
<1> QED BY <1>1, FS_CardinalityType

(* Nothing is tracked after a start.                                       *)
LEMMA NothingTracked == Tracked(NoRetries) /\ HeldOnRecord(NoRetries)
<1>1. NoRetries.attempts = [h \in Heights |-> 0] /\ NoRetries.halted = {} /\ NoRetries.held = [h \in Heights |-> None]
  BY DEF NoRetries
<1>2. NoRetries \in [attempts : [Heights -> Nat], halted : SUBSET Heights, held : [Heights -> Hash0]]
  BY DEF NoRetries, Hash0
<1>3. {h \in Heights : NoRetries.attempts[h] > 0} = {}
  BY <1>1
<1>4. Cardinality({}) = 0
  BY FS_EmptySet
<1>5. \A h \in Heights : NoRetries.attempts[h] < MaxAttempts /\ NoRetries.held[h] = None
  BY <1>1, DriverAssumption
<1>6. Cardinality({h \in Heights : NoRetries.attempts[h] > 0}) <= MaxRetries /\ Cardinality(NoRetries.halted) <= MaxRevisits
  <2>1. 0 <= MaxRetries /\ 0 <= MaxRevisits
    BY DriverAssumption
  <2>2. Cardinality({h \in Heights : NoRetries.attempts[h] > 0}) = 0
    BY <1>3, <1>4, Zenon
  <2>3. Cardinality(NoRetries.halted) = 0
    BY <1>1, <1>4, Zenon
  <2> QED BY ONLY <2>1, <2>2, <2>3
<1> QED BY <1>2, <1>5, <1>6 DEF Tracked, HeldOnRecord

(* Forgetting boundaries (forget, and due for those past the horizon).     *)
LEMMA ForgetKeeps ==
  ASSUME NEW r, Tracked(r), NEW hs
  PROVE  /\ Tracked(Forget(r, hs))
         /\ HeldOnRecord(r) => HeldOnRecord(Forget(r, hs))
<1> DEFINE f == Forget(r, hs)
<1>1. f \in [attempts : [Heights -> Nat], halted : SUBSET Heights, held : [Heights -> Hash0]]
  BY DEF Forget, Tracked, Hash0
<1>2. \A h \in Heights : f.attempts[h] \in {0, r.attempts[h]} /\ f.held[h] \in {None, r.held[h]}
  BY DEF Forget
<1>3. \A h \in Heights : f.held[h] # None => h \in f.halted
  BY DEF Forget, Tracked
<1>4. f.halted \subseteq r.halted
  BY DEF Forget
<1> HIDE DEF f
<1>5. {h \in Heights : f.attempts[h] > 0} \subseteq {h \in Heights : r.attempts[h] > 0}
  BY <1>2, DriverAssumption DEF Tracked
<1>6. Cardinality(f.halted) <= MaxRevisits
  BY <1>4, Fewer, DriverAssumption DEF Tracked
<1>7. Cardinality({h \in Heights : f.attempts[h] > 0}) <= MaxRetries
  BY <1>5, Fewer, DriverAssumption DEF Tracked
<1>8. \A h \in Heights : f.attempts[h] < MaxAttempts
  BY <1>2, DriverAssumption DEF Tracked
<1>9. Tracked(f)
  BY <1>1, <1>3, <1>6, <1>7, <1>8 DEF Tracked
<1>10. HeldOnRecord(r) => HeldOnRecord(f)
  BY <1>2 DEF HeldOnRecord
<1> QED BY <1>9, <1>10 DEF f

(* Holding votes of the boundaries marked halted (mark_halted, hold).      *)
LEMMA HoldAllKeeps ==
  ASSUME NEW r, Tracked(r), NEW hs \in SUBSET Heights,
         NEW votes \in SUBSET (hs \X Hashes)
  PROVE  /\ Tracked(HoldAll(r, votes, hs))
         /\ HeldOnRecord(r) /\ OnRecord(votes) => HeldOnRecord(HoldAll(r, votes, hs))
<1> DEFINE f == HoldAll(r, votes, hs)
           all == r.halted \union hs
           kept == Highest(all, MaxRevisits)
           made(h) == CHOOSE v \in votes : v[1] = h
<1>1. f.halted = kept /\ kept \subseteq all /\ all \subseteq Heights /\ Cardinality(kept) <= MaxRevisits
  <2>1. all \subseteq Heights /\ all \subseteq Nat /\ IsFiniteSet(all)
    BY HeightsFinite, FS_Subset, Zenon DEF Tracked
  <2>2. kept \subseteq all /\ Cardinality(kept) <= MaxRevisits
    <3> HIDE DEF all
    <3> QED BY <2>1, HighestCaps, DriverAssumption, Zenon
  <2>3. f.halted = kept
    BY DEF HoldAll
  <2> QED BY <2>1, <2>2, <2>3
<1>2. \A h \in Heights :
        \/ f.held[h] = None
        \/ f.held[h] = r.held[h] /\ h \notin all \ kept
        \/ f.held[h] = made(h)[2] /\ h \notin all \ kept /\ \E v \in votes : v[1] = h
  <2> HIDE DEF kept
  <2> QED BY DEF HoldAll, kept
<1>3. \A h \in Heights : f.attempts[h] \in {0, r.attempts[h]}
  BY DEF HoldAll
<1>4. \A h \in Heights : (\E v \in votes : v[1] = h) => made(h) \in votes /\ made(h)[1] = h
  OBVIOUS
<1>5. f = [attempts |-> f.attempts, halted |-> f.halted, held |-> f.held]
      /\ f.attempts = [h \in Heights |-> f.attempts[h]] /\ f.held = [h \in Heights |-> f.held[h]]
  BY DEF HoldAll
<1> HIDE DEF f, kept, made
<1>6. \A h \in Heights : f.held[h] \in Hash0
  BY <1>2, <1>4 DEF Tracked, Hash0
<1>7. f \in [attempts : [Heights -> Nat], halted : SUBSET Heights, held : [Heights -> Hash0]]
  <2>1. f.attempts \in [Heights -> Nat]
    BY <1>3, <1>5 DEF Tracked
  <2>2. f.held \in [Heights -> Hash0]
    BY <1>5, <1>6
  <2>3. f.halted \in SUBSET Heights
    BY <1>1
  <2> QED BY ONLY <1>5, <2>1, <2>2, <2>3
<1>8. \A h \in Heights : f.held[h] # None => h \in f.halted
  BY <1>1, <1>2, <1>4 DEF Tracked
<1>9. {h \in Heights : f.attempts[h] > 0} \subseteq {h \in Heights : r.attempts[h] > 0}
  BY <1>3, DriverAssumption DEF Tracked
<1>10. Cardinality({h \in Heights : f.attempts[h] > 0}) <= MaxRetries
  BY <1>9, Fewer, DriverAssumption DEF Tracked
<1>11. \A h \in Heights : f.attempts[h] < MaxAttempts
  BY <1>3, DriverAssumption DEF Tracked
<1>12. Tracked(f)
  BY <1>1, <1>7, <1>8, <1>10, <1>11 DEF Tracked
<1>13. HeldOnRecord(r) /\ OnRecord(votes) => HeldOnRecord(f)
  BY <1>2, <1>4 DEF HeldOnRecord, OnRecord
<1> QED BY <1>12, <1>13 DEF f

(* One more attempt, the lowest tracked boundary dropped past the cap      *)
(* (record for Followup::Retry).                                           *)
LEMMA RetryKeeps ==
  ASSUME NEW r, Tracked(r), NEW h \in Heights
  PROVE  /\ Tracked(Retry(r, h))
         /\ HeldOnRecord(r) => HeldOnRecord(Retry(r, h))
<1> DEFINE clear == Forget(r, {h})
           made == r.attempts[h] + 1
           tried == [clear.attempts EXCEPT ![h] = made]
           all == {g \in Heights : tried[g] > 0}
           kept == Highest(all, MaxRetries)
           f == [clear EXCEPT !.attempts = [g \in Heights |-> IF g \in kept THEN tried[g] ELSE 0]]
<1>1. Tracked(clear) /\ (HeldOnRecord(r) => HeldOnRecord(clear))
  BY ForgetKeeps
<1>2. Retry(r, h) = IF made >= MaxAttempts THEN clear ELSE f
  BY DEF Retry
<1> HIDE DEF clear
<1>3. CASE made >= MaxAttempts
  BY <1>1, <1>2, <1>3
<1>4. CASE ~(made >= MaxAttempts)
  <2>1. Retry(r, h) = f
    BY <1>2, <1>4
  <2>2. made \in Nat /\ made < MaxAttempts
    BY <1>4, DriverAssumption DEF Tracked
  <2> HIDE DEF made
  <2>3. tried \in [Heights -> Nat] /\ \A g \in Heights : tried[g] < MaxAttempts
    BY <1>1, <2>2 DEF Tracked
  <2> HIDE DEF tried
  <2>4. all \subseteq Heights /\ all \subseteq Nat /\ IsFiniteSet(all)
    BY HeightsFinite, FS_Subset, Zenon
  <2>5. kept \subseteq all /\ Cardinality(kept) <= MaxRetries
    <3> HIDE DEF all
    <3> QED BY <2>4, HighestCaps, DriverAssumption, Zenon
  <2> HIDE DEF kept
  <2>6. f.attempts = [g \in Heights |-> IF g \in kept THEN tried[g] ELSE 0]
    BY <1>1 DEF Tracked
  <2>7. f.halted = clear.halted /\ f.held = clear.held
    BY <1>1 DEF Tracked
  <2>8. f \in [attempts : [Heights -> Nat], halted : SUBSET Heights, held : [Heights -> Hash0]]
    BY <1>1, <2>3 DEF Tracked
  <2> HIDE DEF f
  <2>9. {g \in Heights : f.attempts[g] > 0} = kept
    BY <2>3, <2>5, <2>6
  <2>10. \A g \in Heights : f.attempts[g] < MaxAttempts
    BY <2>3, <2>6, DriverAssumption
  <2>11. Tracked(f)
    BY <1>1, <2>5, <2>7, <2>8, <2>9, <2>10, Zenon DEF Tracked
  <2>12. HeldOnRecord(r) => HeldOnRecord(f)
    BY <1>1, <2>7 DEF HeldOnRecord
  <2> QED BY <2>1, <2>11, <2>12
<1> QED BY <1>3, <1>4

----------------------------------------------------------------------------
(* Every step keeps the invariant                                          *)

(* It holds at first.                                                      *)
LEMMA InitInv == Init => Inv
<1> SUFFICES ASSUME Init PROVE Inv
  OBVIOUS
<1> USE DEF Init
<1>1. WorldTypes /\ cursor \in Heights \union {0}
  <2>1. tip \in 0..MaxTip
    BY DriverAssumption
  <2>2. chain \in Chains /\ engaged \in BOOLEAN
    BY DriverAssumption, Zenon
  <2>3. record \in [Heights -> Hash0] /\ pending \in [Heights -> Hash0]
    BY DEF Hash0
  <2> QED BY <2>1, <2>2, <2>3 DEF WorldTypes
<1>2. Tracked(retries) /\ HeldOnRecord(retries)
  BY NothingTracked
<1>3. PassTypes
  BY DriverAssumption DEF PassTypes, Idle, Phases
<1>4. JobTypes
  BY DEF JobTypes, NoJob, Stages, Results, Hash0
<1>5. OnRecord(outbound) /\ OnRecord(sent) /\ JobOnRecord
  BY DEF OnRecord, JobOnRecord, NoJob
<1>6. Walked /\ Reported
  BY DEF Walked, Reported, Idle, NoJob
<1> QED BY <1>1, <1>2, <1>3, <1>4, <1>5, <1>6 DEF Inv

(* The boundaries of a walk have blocks, and at first are buried.          *)
LEMMA RunPassKeeps == Inv /\ (\E ok \in BOOLEAN : RunPass(ok)) => Inv'
<1> SUFFICES ASSUME Inv, NEW ok \in BOOLEAN, RunPass(ok) PROVE Inv'
  OBVIOUS
<1> DEFINE highest == HighestBuried(tip)
           heights == BoundariesToProcess(cursor, highest)
<1>1. highest \in Heights \union {0} /\ highest > 0 /\ highest + VoteDepth <= tip
  BY BuriedBoundary DEF Inv, WorldTypes, RunPass
<1>2. heights \subseteq {h \in Heights : h <= highest}
  BY DEF BoundariesToProcess, Highest
<1>3. UNCHANGED <<tip, chain, engaged, record, pending, own, retries, job, outbound, sent>>
  BY DEF RunPass, gadget
<1>4. WorldTypes' /\ Tracked(retries)' /\ HeldOnRecord(retries)' /\ JobTypes'
      /\ OnRecord(outbound)' /\ OnRecord(sent)' /\ JobOnRecord'
  BY <1>3 DEF Inv, WorldTypes, Tracked, HeldOnRecord, JobTypes, OnRecord, JobOnRecord
<1>5. CASE ok
  <2> DEFINE phase == IF heights = {} THEN "due" ELSE "new"
             todo == CanonicalAt(heights, tip, chain)
  <2>1. pass.phase = "idle" /\ UNCHANGED cursor
        /\ pass' = [phase |-> phase, highest |-> highest, tip |-> tip, chain |-> chain, todo |-> todo]
    BY <1>5 DEF RunPass
  <2>2. job.stage = "none"
    BY <2>1 DEF Inv, Reported
  <2>3. todo \subseteq heights /\ \A h \in todo : BlockAt[chain][h] # None
    BY DEF CanonicalAt
  <2>4. \A h \in todo : h \in Heights /\ h + VoteDepth <= tip
    <3> SUFFICES ASSUME NEW h \in todo PROVE h \in Heights /\ h + VoteDepth <= tip
      OBVIOUS
    <3>1. h \in Heights /\ h <= highest
      BY <1>2, <2>3
    <3> HIDE DEF highest
    <3> QED BY <3>1, <1>1, HeightsFinite, DriverAssumption DEF Inv, WorldTypes
  <2> HIDE DEF highest, heights, todo
  <2>5. PassTypes'
    <3>1. tip \in 0..MaxTip /\ chain \in Chains
      BY DEF Inv, WorldTypes
    <3>2. phase \in Phases
      BY DEF Phases
    <3> HIDE DEF phase
    <3> QED BY <3>1, <3>2, <1>1, <2>1, <2>4 DEF PassTypes
  <2>6. Walked'
    <3>1. pass'.chain = chain /\ pass'.tip = tip /\ pass'.todo = todo /\ chain \in Chains
      BY <2>1 DEF Inv, WorldTypes
    <3> QED BY <3>1, <2>3, <2>4 DEF Walked, Buried
  <2>7. Reported'
    BY <1>3, <2>2 DEF Reported
  <2>8. (cursor \in Heights \union {0})'
    BY <2>1 DEF Inv
  <2> QED BY <1>4, <2>5, <2>6, <2>7, <2>8 DEF Inv
<1>6. CASE ~ok
  <2>1. cursor' = highest /\ UNCHANGED pass
    BY <1>6 DEF RunPass
  <2> HIDE DEF highest
  <2>2. (cursor \in Heights \union {0})'
    BY <1>1, <2>1
  <2>3. PassTypes' /\ Walked' /\ Reported'
    BY <1>3, <2>1 DEF Inv, PassTypes, Walked, Reported, Buried
  <2> QED BY <1>4, <2>2, <2>3 DEF Inv
<1> QED BY <1>5, <1>6

(* The reports of new boundaries are done.                                 *)
LEMMA NewDoneKeeps == Inv /\ NewDone => Inv'
<1> SUFFICES ASSUME Inv, NewDone PROVE Inv'
  OBVIOUS
<1>1. UNCHANGED <<tip, chain, engaged, record, pending, own, retries, job, outbound, sent>>
  BY DEF NewDone, world, gadget
<1>2. WorldTypes' /\ Tracked(retries)' /\ HeldOnRecord(retries)' /\ JobTypes'
      /\ OnRecord(outbound)' /\ OnRecord(sent)' /\ JobOnRecord'
  BY <1>1 DEF Inv, WorldTypes, Tracked, HeldOnRecord, JobTypes, OnRecord, JobOnRecord
<1>3. pass \in [phase : Phases, highest : Heights \union {0}, tip : 0..MaxTip,
               chain : Chains \union {None}, todo : SUBSET Heights]
  BY DEF Inv, PassTypes
<1>4. pass' = [pass EXCEPT !.phase = "due"] /\ cursor' = pass.highest /\ job.stage = "none"
  BY DEF NewDone, Free
<1>5. (cursor \in Heights \union {0})' /\ PassTypes'
  BY <1>3, <1>4 DEF PassTypes, Phases
<1>6. Walked' /\ Reported'
  BY <1>1, <1>3, <1>4 DEF NewDone, Inv, Walked, Reported
<1> QED BY <1>2, <1>5, <1>6 DEF Inv

(* A revisit reports what is due and still has a block on the chain.       *)
LEMMA RevisitKeeps == Inv /\ (\E ok \in BOOLEAN : Revisit(ok)) => Inv'
<1> SUFFICES ASSUME Inv, NEW ok \in BOOLEAN, Revisit(ok) PROVE Inv'
  OBVIOUS
<1> DEFINE r == WithinHorizon(retries, pass.highest)
           due == Due(r)
           found == CanonicalAt(due, pass.tip, pass.chain)
           failing == {h \in due : r.held[h] = None}
<1>1. UNCHANGED <<tip, chain, engaged, record, pending, own, cursor, job, outbound, sent>>
  BY DEF Revisit, gadget
<1>2. WorldTypes' /\ (cursor \in Heights \union {0})' /\ JobTypes'
      /\ OnRecord(outbound)' /\ OnRecord(sent)' /\ JobOnRecord'
  BY <1>1 DEF Inv, WorldTypes, JobTypes, OnRecord, JobOnRecord
<1>3. pass \in [phase : Phases, highest : Heights \union {0}, tip : 0..MaxTip,
               chain : Chains \union {None}, todo : SUBSET Heights]
  BY DEF Inv, PassTypes
<1>4. Tracked(r) /\ HeldOnRecord(r)
  BY ForgetKeeps DEF Inv, WithinHorizon
<1> HIDE DEF r
<1>5. due \subseteq Heights
  BY <1>4 DEF Due, Tracked
<1>6. pass.phase = "due" /\ job.stage = "none" /\ pass.chain \in Chains
  BY DEF Revisit, Inv, Reported, Walked
<1> HIDE DEF due
<1>7. CASE ok
  <2>1. retries' = Forget(r, due \ found) /\ pass' = [pass EXCEPT !.phase = "revisit", !.todo = found]
    BY <1>7 DEF Revisit, r, due
  <2>2. found \subseteq Heights /\ \A h \in found : BlockAt[pass.chain][h] # None
    BY <1>5 DEF CanonicalAt
  <2> HIDE DEF found
  <2>3. Tracked(retries)' /\ HeldOnRecord(retries)'
    <3>1. Tracked(retries') /\ HeldOnRecord(retries')
      BY <2>1, <1>4, ForgetKeeps
    <3> QED BY <3>1, <1>1 DEF Tracked, HeldOnRecord
  <2>4. PassTypes'
    BY <1>3, <2>1, <2>2, Zenon DEF PassTypes, Phases
  <2>5. Walked' /\ Reported'
    <3>1. pass'.chain = pass.chain /\ pass'.todo = found /\ pass'.phase = "revisit"
      BY <1>3, <2>1
    <3> QED BY <3>1, <1>1, <1>6, <2>2 DEF Walked, Reported
  <2> QED BY <1>2, <2>3, <2>4, <2>5 DEF Inv
<1>8. CASE ~ok
  <2>1. retries' = r /\ pass' = [pass EXCEPT !.phase = "failed", !.todo = failing]
    BY <1>8 DEF Revisit, r, due
  <2>2. failing \subseteq Heights
    BY <1>5
  <2> HIDE DEF failing
  <2>3. Tracked(retries)' /\ HeldOnRecord(retries)'
    BY <2>1, <1>4, <1>1 DEF Tracked, HeldOnRecord
  <2>4. PassTypes'
    BY <1>3, <2>1, <2>2, Zenon DEF PassTypes, Phases
  <2>5. Walked' /\ Reported'
    <3>1. pass'.chain = pass.chain /\ pass'.phase = "failed"
      BY <1>3, <2>1
    <3> QED BY <3>1, <1>1, <1>6 DEF Walked, Reported
  <2> QED BY <1>2, <2>3, <2>4, <2>5 DEF Inv
<1> QED BY <1>7, <1>8

(* A failed walk counts its attempts.                                      *)
LEMMA RevisitFailedKeeps == Inv /\ RevisitFailed => Inv'
<1> SUFFICES ASSUME Inv, RevisitFailed PROVE Inv'
  OBVIOUS
<1>1. UNCHANGED <<tip, chain, engaged, record, pending, own, cursor, job, outbound, sent>>
  BY DEF RevisitFailed, world, gadget
<1>2. WorldTypes' /\ (cursor \in Heights \union {0})' /\ JobTypes'
      /\ OnRecord(outbound)' /\ OnRecord(sent)' /\ JobOnRecord'
  BY <1>1 DEF Inv, WorldTypes, JobTypes, OnRecord, JobOnRecord
<1>3. pass \in [phase : Phases, highest : Heights \union {0}, tip : 0..MaxTip,
               chain : Chains \union {None}, todo : SUBSET Heights]
  BY DEF Inv, PassTypes
<1>4. pass.phase = "failed" /\ job.stage = "none" /\ pass.chain \in Chains
  BY DEF RevisitFailed, Inv, Reported, Walked
<1>5. /\ pass' \in [phase : Phases, highest : Heights \union {0}, tip : 0..MaxTip,
                   chain : Chains \union {None}, todo : SUBSET Heights]
      /\ pass'.chain = pass.chain /\ pass'.phase \in {"failed", "gate"}
  BY <1>3, <1>4 DEF RevisitFailed, Phases
<1>6. Tracked(retries') /\ HeldOnRecord(retries')
  <2>1. CASE UNCHANGED retries
    BY <2>1 DEF Inv
  <2>2. CASE \E h \in pass.todo : retries' = Retry(retries, h)
    BY <2>2, <1>3, RetryKeeps DEF Inv
  <2> QED BY <2>1, <2>2 DEF RevisitFailed
<1>7. Tracked(retries)' /\ HeldOnRecord(retries)'
  BY <1>6, <1>1 DEF Tracked, HeldOnRecord
<1>8. PassTypes' /\ Walked' /\ Reported'
  BY <1>1, <1>4, <1>5 DEF PassTypes, Walked, Reported
<1> QED BY <1>2, <1>7, <1>8 DEF Inv

(* A report takes the lowest boundary of the walk, with its held vote.     *)
LEMMA ReportKeeps == Inv /\ (\E skip \in BOOLEAN : Report(skip)) => Inv'
<1> SUFFICES ASSUME Inv, NEW skip \in BOOLEAN, Report(skip) PROVE Inv'
  OBVIOUS
<1> DEFINE h == CHOOSE h \in pass.todo : \A g \in pass.todo : h <= g
           x == BlockAt[pass.chain][h]
           proposed == [pending EXCEPT ![h] = IF pending[h] = None THEN x ELSE pending[h]]
           signs == ~engaged /\ ~skip /\ proposed[h] = x /\ (pending[h] = None \/ h \notin own)
           taken == IF pass.phase = "revisit" THEN retries.held[h] ELSE None
<1>1. UNCHANGED <<tip, chain, engaged, record, own, cursor, outbound, sent>>
  BY DEF Report, world
<1>2. pass \in [phase : Phases, highest : Heights \union {0}, tip : 0..MaxTip,
               chain : Chains \union {None}, todo : SUBSET Heights]
  BY DEF Inv, PassTypes
<1>3. pass.phase \in {"new", "revisit"} /\ pass.todo # {} /\ job.stage = "none" /\ pass.chain \in Chains
  BY DEF Report, Free, Inv, Walked
<1>4. h \in pass.todo
  <2>1. pass.todo \subseteq Nat
    BY <1>2, HeightsFinite, Zenon
  <2>2. \E m \in pass.todo : \A g \in pass.todo : m <= g
    BY <1>3, <2>1, LeastNatural
  <2> QED BY <2>2
<1>5. /\ pass' = [pass EXCEPT !.todo = @ \ {h}]
      /\ pending' = IF signs THEN proposed ELSE pending
      /\ job' = [stage |-> IF signs THEN "sign" ELSE "back", height |-> h, hash |-> x, taken |-> taken,
                 result |-> IF engaged THEN "halted" ELSE "quiet"]
      /\ retries' = IF pass.phase = "revisit" THEN [retries EXCEPT !.held[h] = None] ELSE retries
  BY DEF Report
<1> HIDE DEF h
<1>6. h \in Heights /\ x \in Hashes /\ x # None
  <2>1. h \in Heights
    BY <1>2, <1>4
  <2>2. x \in Hashes \union {None}
    BY <1>3, <2>1, DriverAssumption
  <2>3. x # None
    BY <1>3, <1>4 DEF Inv, Walked
  <2> QED BY <2>1, <2>2, <2>3
<1>7. WorldTypes'
  <2>1. proposed \in [Heights -> Hash0] /\ \A g \in Heights : pending[g] # None => proposed[g] # None
    BY <1>6 DEF Inv, WorldTypes, Hash0
  <2> HIDE DEF proposed, signs
  <2>2. pending' \in [Heights -> Hash0] /\ \A g \in Heights : pending[g] # None => pending'[g] # None
    BY <1>5, <2>1 DEF Inv, WorldTypes
  <2> QED BY <1>1, <2>2 DEF Inv, WorldTypes
<1> HIDE DEF x, signs
<1>8. taken \in Hash0 /\ taken \in {None, record[h]}
  BY <1>6 DEF Inv, Tracked, HeldOnRecord, Hash0
<1> HIDE DEF taken
<1>9. JobTypes' /\ JobOnRecord'
  <2>1. JobTypes'
    BY <1>5, <1>6, <1>8 DEF JobTypes, Stages, Results, Hash0
  <2>2. job'.taken = taken /\ job'.height = h /\ job'.result # "voted"
    BY <1>5
  <2> QED BY <1>1, <1>8, <2>1, <2>2 DEF JobOnRecord
<1>10. Tracked(retries') /\ HeldOnRecord(retries')
  <2>1. CASE pass.phase # "revisit"
    BY <2>1, <1>5 DEF Inv
  <2>2. CASE pass.phase = "revisit"
    <3>1. retries' = [retries EXCEPT !.held[h] = None]
      BY <2>2, <1>5
    <3>2. retries \in [attempts : [Heights -> Nat], halted : SUBSET Heights, held : [Heights -> Hash0]]
      BY DEF Inv, Tracked
    <3>3. retries' \in [attempts : [Heights -> Nat], halted : SUBSET Heights, held : [Heights -> Hash0]]
      BY <3>1, <3>2 DEF Hash0
    <3>4. retries'.attempts = retries.attempts /\ retries'.halted = retries.halted
          /\ retries'.held = [retries.held EXCEPT ![h] = None]
      BY <3>1, <3>2
    <3>5. \A g \in Heights : retries'.held[g] \in {None, retries.held[g]}
      BY <3>2, <3>4
    <3> QED BY <3>3, <3>4, <3>5 DEF Inv, Tracked, HeldOnRecord
  <2> QED BY <2>1, <2>2
<1>11. Tracked(retries)' /\ HeldOnRecord(retries)'
  BY <1>10, <1>1 DEF Tracked, HeldOnRecord
<1>12. PassTypes'
  BY <1>2, <1>5 DEF PassTypes
<1>13. pass'.phase = pass.phase /\ pass'.chain = pass.chain /\ pass'.tip = pass.tip /\ pass'.todo \subseteq pass.todo
  BY <1>2, <1>5
<1>14. Walked'
  BY <1>13 DEF Inv, Walked, Buried
<1>15. Reported'
  <2>1. job'.height = h /\ job'.hash = BlockAt[pass.chain][h] /\ job'.result # "voted"
    BY <1>5 DEF x
  <2>2. pass.phase = "new" => Buried(h)
    BY <1>4 DEF Inv, Walked
  <2> QED BY <1>3, <1>6, <1>13, <2>1, <2>2 DEF Reported, Buried, x
<1>16. (cursor \in Heights \union {0})' /\ OnRecord(outbound)' /\ OnRecord(sent)'
  BY <1>1 DEF Inv, OnRecord
<1> QED BY <1>7, <1>9, <1>11, <1>12, <1>14, <1>15, <1>16 DEF Inv

(* Signing puts on record the block it signs, and never over another one.  *)
LEMMA SignOwnVoteKeeps == Inv /\ (\E ok \in BOOLEAN : SignOwnVote(ok)) => Inv'
<1> SUFFICES ASSUME Inv, NEW ok \in BOOLEAN, SignOwnVote(ok) PROVE Inv'
  OBVIOUS
<1> DEFINE h == job.height
           x == job.hash
           authorized == ~engaged /\ ok /\ Authorized(h, x)
           accepted == authorized /\ pending[h] = x
           result == CASE engaged -> "halted" [] ~engaged /\ ~ok -> "retry"
                       [] accepted -> "voted" [] OTHER -> "quiet"
<1>1. UNCHANGED <<tip, chain, engaged, pending, cursor, retries, pass, outbound, sent>>
  BY DEF SignOwnVote
<1>2. /\ record' = IF authorized THEN [record EXCEPT ![h] = x] ELSE record
      /\ own' = IF accepted THEN own \union {h} ELSE own
      /\ job' = [job EXCEPT !.stage = "back", !.result = result]
      /\ job.stage = "sign"
  BY DEF SignOwnVote
<1>3. job \in [stage : Stages, height : Heights \union {0}, hash : Hash0, taken : Hash0,
              result : Results]
  BY DEF Inv, JobTypes
<1>4. h \in Heights /\ x \in Hash0 /\ x # None
  BY <1>2, <1>3 DEF Inv, Reported
<1>5. record \in [Heights -> Hash0]
  BY DEF Inv, WorldTypes
<1>6. authorized => record[h] \in {None, x}
  BY DEF Authorized
<1>7. result \in Results /\ (result = "voted" => accepted)
  <2> HIDE DEF accepted
  <2> QED BY DEF Results, Inv, WorldTypes
<1>8. accepted => authorized /\ pending[h] = x
  OBVIOUS
<1> HIDE DEF h, x, authorized, accepted, result
<1>9. record' \in [Heights -> Hash0] /\ \A g \in Heights : record[g] # None => record'[g] = record[g]
  BY <1>2, <1>4, <1>5, <1>6
<1>10. authorized => record'[h] = x
  BY <1>2, <1>4, <1>5
<1>11. WorldTypes'
  BY <1>1, <1>2, <1>4, <1>8, <1>9 DEF Inv, WorldTypes
<1>12. job'.stage = "back" /\ job'.height = h /\ job'.hash = x /\ job'.taken = job.taken /\ job'.result = result
  BY <1>2, <1>3 DEF h, x
<1>13. JobTypes'
  BY <1>2, <1>3, <1>7, Zenon DEF JobTypes, Stages
<1>14. JobOnRecord'
  <2>1. job.taken \in {None, record[h]}
    BY <1>2 DEF Inv, JobOnRecord, h
  <2>2. job.taken \in {None, record'[h]}
    BY <2>1, <1>4, <1>9
  <2>3. result = "voted" => x = record'[h]
    BY <1>7, <1>8, <1>10
  <2> QED BY <1>12, <2>2, <2>3 DEF JobOnRecord
<1>15. Tracked(retries)' /\ HeldOnRecord(retries)'
  BY <1>1, <1>9 DEF Inv, Tracked, HeldOnRecord
<1>16. OnRecord(outbound)' /\ OnRecord(sent)'
  <2>1. \A g \in Heights : record[g] # None => record'[g] # None /\ <<g, record[g]>> = <<g, record'[g]>>
    BY <1>9
  <2>2. {<<g, record[g]>> : g \in {k \in Heights : record[k] # None}}
          \subseteq {<<g, record'[g]>> : g \in {k \in Heights : record'[k] # None}}
    BY <2>1
  <2> QED BY <1>1, <2>2 DEF Inv, OnRecord
<1>17. (cursor \in Heights \union {0})' /\ PassTypes' /\ Walked'
  BY <1>1 DEF Inv, PassTypes, Walked, Buried
<1>18. Reported'
  BY <1>1, <1>2, <1>12 DEF Inv, Reported, Buried, h, x
<1> QED BY <1>11, <1>13, <1>14, <1>15, <1>16, <1>17, <1>18 DEF Inv

(* A vote on record for a boundary, as the driver hands it on.             *)
LEMMA VoteIsOnRecord ==
  ASSUME NEW h \in Heights, record[h] # None, record \in [Heights -> Hash0]
  PROVE  {<<h, record[h]>>} \in SUBSET ({h} \X Hashes) /\ OnRecord({<<h, record[h]>>})
<1>1. record[h] \in Hashes
  BY DEF Hash0
<1> QED BY <1>1 DEF OnRecord

(* What comes back from the gadget is held, recorded or handed on.         *)
LEMMA ReturnedKeeps == Inv /\ Returned => Inv'
<1> SUFFICES ASSUME Inv, Returned PROVE Inv'
  OBVIOUS
<1> DEFINE h == job.height
           vote == IF job.result = "voted" THEN {<<h, job.hash>>} ELSE {}
           followup == CASE engaged \/ job.result = "halted" -> "halted"
                         [] ~engaged /\ job.result = "retry" -> "retry"
                         [] OTHER -> "done"
           withheld == IF engaged THEN HoldAll(retries, vote, {v[1] : v \in vote}) ELSE retries
           recorded == Record(withheld, h, followup)
           new == IF engaged THEN outbound ELSE outbound \union vote
           again == /\ job.taken = job.hash
                    /\ followup # "halted"
                    /\ \A v \in new : v[1] # h
<1>1. UNCHANGED <<tip, chain, engaged, record, pending, own, cursor, pass, sent>>
  BY DEF Returned, world, gadget
<1>2. /\ job.stage = "back"
      /\ retries' = IF job.taken # None /\ followup = "halted"
                    THEN HoldAll(recorded, {<<h, job.taken>>}, {h}) ELSE recorded
      /\ outbound' = IF again THEN new \union {<<h, job.taken>>} ELSE new
      /\ job' = NoJob
  BY DEF Returned
<1>3. h \in Heights /\ job.hash # None
  BY <1>2 DEF Inv, Reported
<1>4. record \in [Heights -> Hash0]
  BY DEF Inv, WorldTypes
<1>5. (job.taken # None => job.taken = record[h]) /\ (job.result = "voted" => job.hash = record[h])
  BY <1>2 DEF Inv, JobOnRecord
<1>6. followup \in {"halted", "retry", "done"}
  BY Zenon DEF Inv, WorldTypes
<1> HIDE DEF followup
<1>7. vote \in SUBSET ({h} \X Hashes) /\ OnRecord(vote) /\ {v[1] : v \in vote} \subseteq {h}
      /\ vote \in SUBSET ({v[1] : v \in vote} \X Hashes)
  <2>1. CASE job.result = "voted"
    <3>1. vote = {<<h, record[h]>>} /\ record[h] # None /\ record[h] \in Hashes
      BY <2>1, <1>3, <1>4, <1>5 DEF Hash0
    <3> HIDE DEF vote, h
    <3> QED BY <3>1, <1>3, <1>4, VoteIsOnRecord
  <2>2. CASE job.result # "voted"
    <3>1. vote = {}
      BY <2>2
    <3> HIDE DEF vote
    <3> QED BY <3>1 DEF OnRecord
  <2> QED BY <2>1, <2>2
<1>8. job.taken # None => {<<h, job.taken>>} \in SUBSET ({h} \X Hashes) /\ OnRecord({<<h, job.taken>>})
  <2> SUFFICES ASSUME job.taken # None
               PROVE {<<h, job.taken>>} \in SUBSET ({h} \X Hashes) /\ OnRecord({<<h, job.taken>>})
    OBVIOUS
  <2>1. job.taken = record[h]
    BY <1>5
  <2> HIDE DEF h
  <2> QED BY <2>1, <1>3, <1>4, VoteIsOnRecord
<1> HIDE DEF h, vote
<1>9. Tracked(withheld) /\ HeldOnRecord(withheld)
  <2>1. CASE engaged
    <3> DEFINE hs == {v[1] : v \in vote}
    <3>1. hs \in SUBSET Heights /\ vote \in SUBSET (hs \X Hashes)
      BY <1>3, <1>7
    <3>2. withheld = HoldAll(retries, vote, hs)
      BY <2>1
    <3> HIDE DEF hs, withheld
    <3> QED BY <3>1, <3>2, <1>7, HoldAllKeeps DEF Inv
  <2>2. CASE ~engaged
    BY <2>2 DEF Inv
  <2> QED BY <2>1, <2>2, Zenon
<1> HIDE DEF withheld
<1>10. Tracked(recorded) /\ HeldOnRecord(recorded)
  <2>1. CASE followup = "done"
    <3>1. recorded = Forget(withheld, {h})
      BY <2>1 DEF Record
    <3> QED BY <3>1, <1>9, ForgetKeeps
  <2>2. CASE followup = "halted"
    <3>1. recorded = HoldAll(withheld, {}, {h})
      BY <2>2 DEF Record
    <3>2. {} \in SUBSET ({h} \X Hashes) /\ {h} \in SUBSET Heights /\ OnRecord({})
      BY <1>3 DEF OnRecord
    <3> HIDE DEF recorded
    <3> QED BY <3>1, <3>2, <1>9, HoldAllKeeps
  <2>3. CASE followup = "retry"
    <3>1. recorded = Retry(withheld, h)
      BY <2>3 DEF Record
    <3> QED BY <3>1, <1>3, <1>9, RetryKeeps
  <2> QED BY <1>6, <2>1, <2>2, <2>3
<1> HIDE DEF recorded
<1>11. Tracked(retries') /\ HeldOnRecord(retries')
  <2>1. CASE job.taken # None /\ followup = "halted"
    <3>1. retries' = HoldAll(recorded, {<<h, job.taken>>}, {h}) /\ {h} \in SUBSET Heights
      BY <2>1, <1>2, <1>3
    <3> QED BY <3>1, <2>1, <1>8, <1>10, HoldAllKeeps
  <2>2. CASE ~(job.taken # None /\ followup = "halted")
    BY <2>2, <1>2, <1>10
  <2> QED BY <2>1, <2>2
<1>12. Tracked(retries)' /\ HeldOnRecord(retries)'
  BY <1>11, <1>1 DEF Tracked, HeldOnRecord
<1>13. OnRecord(outbound')
  <2>1. OnRecord(new)
    BY <1>7 DEF Inv, OnRecord
  <2>2. again => job.taken # None
    BY <1>3, Zenon
  <2> HIDE DEF new, again
  <2> QED BY <1>2, <1>8, <2>1, <2>2 DEF OnRecord
<1>14. OnRecord(outbound)' /\ OnRecord(sent)'
  BY <1>13, <1>1, Zenon DEF Inv, OnRecord
<1>15. JobTypes' /\ JobOnRecord' /\ Reported'
  BY <1>2 DEF JobTypes, JobOnRecord, Reported, NoJob, Stages, Results, Hash0
<1>16. WorldTypes' /\ (cursor \in Heights \union {0})' /\ PassTypes' /\ Walked'
  BY <1>1 DEF Inv, WorldTypes, PassTypes, Walked, Buried
<1> QED BY <1>12, <1>14, <1>15, <1>16 DEF Inv

(* The reports of a revisit are done.                                      *)
LEMMA RevisitDoneKeeps == Inv /\ RevisitDone => Inv'
<1> SUFFICES ASSUME Inv, RevisitDone PROVE Inv'
  OBVIOUS
<1>1. UNCHANGED <<tip, chain, engaged, record, pending, own, cursor, retries, job, outbound, sent>>
  BY DEF RevisitDone, world, gadget
<1>2. WorldTypes' /\ (cursor \in Heights \union {0})' /\ Tracked(retries)' /\ HeldOnRecord(retries)'
      /\ JobTypes' /\ OnRecord(outbound)' /\ OnRecord(sent)' /\ JobOnRecord'
  BY <1>1 DEF Inv, WorldTypes, Tracked, HeldOnRecord, JobTypes, OnRecord, JobOnRecord
<1>3. pass' = [pass EXCEPT !.phase = "gate"] /\ job.stage = "none" /\ pass.phase = "revisit"
  BY DEF RevisitDone, Free
<1>4. PassTypes'
  BY <1>3 DEF Inv, PassTypes, Phases
<1>5. Walked' /\ Reported'
  BY <1>1, <1>3 DEF Inv, PassTypes, Walked, Reported
<1> QED BY <1>2, <1>4, <1>5 DEF Inv

(* During the stop the votes of the pass are held instead of sent.         *)
LEMMA GateOutboundKeeps == Inv /\ GateOutbound => Inv'
<1> SUFFICES ASSUME Inv, GateOutbound PROVE Inv'
  OBVIOUS
<1> DEFINE hs == {v[1] : v \in outbound}
<1>1. UNCHANGED <<tip, chain, engaged, record, pending, own, cursor, job, sent>>
  BY DEF GateOutbound, world, gadget
<1>2. WorldTypes' /\ (cursor \in Heights \union {0})' /\ JobTypes' /\ OnRecord(sent)' /\ JobOnRecord'
  BY <1>1 DEF Inv, WorldTypes, JobTypes, OnRecord, JobOnRecord
<1>3. pass' = [pass EXCEPT !.phase = "send"] /\ pass.phase = "gate"
  BY DEF GateOutbound
<1>4. job.stage = "none" /\ pass.chain \in Chains
  BY <1>3 DEF Inv, Reported, Walked
<1>5. PassTypes'
  BY <1>3 DEF Inv, PassTypes, Phases
<1>6. Walked' /\ Reported'
  BY <1>1, <1>3, <1>4 DEF Inv, PassTypes, Walked, Reported
<1>7. Tracked(retries') /\ HeldOnRecord(retries') /\ OnRecord(outbound')
  <2>1. CASE engaged
    <3>1. retries' = HoldAll(retries, outbound, hs) /\ outbound' = {}
      BY <2>1 DEF GateOutbound
    <3>2. outbound \subseteq Heights \X Hashes
      BY DEF Inv, OnRecord, WorldTypes, Hash0
    <3>3. hs \in SUBSET Heights /\ outbound \in SUBSET (hs \X Hashes)
      BY <3>2
    <3> HIDE DEF hs
    <3>4. OnRecord({})
      BY DEF OnRecord
    <3> QED BY <3>1, <3>3, <3>4, HoldAllKeeps DEF Inv
  <2>2. CASE ~engaged
    BY <2>2 DEF GateOutbound, Inv
  <2> QED BY <2>1, <2>2
<1>8. Tracked(retries)' /\ HeldOnRecord(retries)' /\ OnRecord(outbound)'
  BY <1>7, <1>1 DEF Tracked, HeldOnRecord, OnRecord
<1> QED BY <1>2, <1>5, <1>6, <1>8 DEF Inv

(* A vote goes out, or the pass is over.                                   *)
LEMMA BroadcastKeeps == Inv /\ Broadcast => Inv'
<1> SUFFICES ASSUME Inv, Broadcast PROVE Inv'
  OBVIOUS
<1>1. UNCHANGED <<tip, chain, engaged, record, pending, own, cursor, retries, job>>
  BY DEF Broadcast, world, gadget
<1>2. WorldTypes' /\ (cursor \in Heights \union {0})' /\ Tracked(retries)' /\ HeldOnRecord(retries)'
      /\ JobTypes' /\ JobOnRecord'
  BY <1>1 DEF Inv, WorldTypes, Tracked, HeldOnRecord, JobTypes, JobOnRecord
<1>3. outbound' \subseteq outbound /\ sent' \subseteq sent \union outbound /\ pass' \in {pass, Idle}
  BY Zenon DEF Broadcast
<1>4. OnRecord(outbound)' /\ OnRecord(sent)'
  BY <1>1, <1>3, Zenon DEF Inv, OnRecord
<1>5. job.stage = "none"
  BY Zenon DEF Broadcast, Inv, Reported
<1>6. PassTypes'
  BY <1>3, DriverAssumption DEF Inv, PassTypes, Idle, Phases
<1>7. Walked' /\ Reported'
  <2>1. CASE pass' = pass
    BY <2>1, <1>1, <1>5, Zenon DEF Inv, Walked, Reported, Buried
  <2>2. CASE pass' = Idle
    BY <2>2, <1>1, <1>5 DEF Walked, Reported, Idle
  <2> QED BY <1>3, <2>1, <2>2, Zenon
<1> QED BY <1>2, <1>4, <1>6, <1>7 DEF Inv

(* What happens around the driver: the chain moves, the stop engages and   *)
(* clears, the gadget drops a checkpoint.                                  *)
LEMMA WorldKeeps ==
  ASSUME Inv,
         \/ \E t \in 1..MaxTip, c \in Chains : MoveTip(t, c)
         \/ Engage \/ Clear
         \/ \E h \in Heights : Evict(h)
  PROVE  Inv'
<1>1. UNCHANGED <<record, cursor, retries, pass, job, outbound, sent>>
  BY Zenon DEF MoveTip, Engage, Clear, Evict, gadget, driver
<1>2. (cursor \in Heights \union {0})' /\ Tracked(retries)' /\ HeldOnRecord(retries)'
      /\ PassTypes' /\ JobTypes' /\ OnRecord(outbound)' /\ OnRecord(sent)' /\ JobOnRecord'
      /\ Walked' /\ Reported'
  <2>1. (cursor \in Heights \union {0})' /\ Tracked(retries)' /\ HeldOnRecord(retries)'
    BY <1>1 DEF Inv, Tracked, HeldOnRecord
  <2>2. PassTypes' /\ JobTypes'
    BY <1>1 DEF Inv, PassTypes, JobTypes
  <2>3. OnRecord(outbound)' /\ OnRecord(sent)' /\ JobOnRecord'
    BY <1>1 DEF Inv, OnRecord, JobOnRecord
  <2>4. Walked' /\ Reported'
    BY <1>1 DEF Inv, Walked, Reported, Buried
  <2> QED BY <2>1, <2>2, <2>3, <2>4
<1>3. ASSUME NEW t \in 1..MaxTip, NEW c \in Chains, MoveTip(t, c) PROVE WorldTypes'
  <2>0. tip' = t /\ chain' = c
    BY <1>3, Zenon DEF MoveTip
  <2>1. tip' \in 0..MaxTip /\ chain' \in Chains
    BY <2>0, DriverAssumption
  <2>2. UNCHANGED <<engaged, record, pending, own>>
    BY <1>3, Zenon DEF MoveTip, gadget
  <2> QED BY <2>1, <2>2, Zenon DEF Inv, WorldTypes
<1>4. ASSUME Engage \/ Clear PROVE WorldTypes'
  BY <1>4, Zenon DEF Engage, Clear, gadget, Inv, WorldTypes
<1>5. ASSUME NEW h \in Heights, Evict(h) PROVE WorldTypes'
  <2>1. UNCHANGED <<tip, chain, engaged, record>> /\ own' = own \ {h} /\ pending' = [pending EXCEPT ![h] = None]
    BY <1>5 DEF Evict, world
  <2>2. pending' \in [Heights -> Hash0] /\ \A g \in Heights \ {h} : pending'[g] = pending[g]
    BY <2>1 DEF Inv, WorldTypes, Hash0
  <2> QED BY <2>1, <2>2 DEF Inv, WorldTypes
<1> QED BY <1>2, <1>3, <1>4, <1>5 DEF Inv

(* After a restart nothing but the record and what was sent is left.       *)
LEMMA CrashKeeps == Inv /\ Crash => Inv'
<1> SUFFICES ASSUME Inv, Crash PROVE Inv'
  OBVIOUS
<1> USE DEF Crash
<1>1. WorldTypes' /\ (cursor \in Heights \union {0})' /\ OnRecord(sent)'
  BY Zenon DEF Inv, WorldTypes, OnRecord, Hash0
<1>2. Tracked(retries)' /\ HeldOnRecord(retries)'
  BY NothingTracked DEF Tracked, HeldOnRecord
<1>3. PassTypes'
  BY DriverAssumption DEF PassTypes, Idle, Phases
<1>4. JobTypes'
  BY DEF JobTypes, NoJob, Stages, Results, Hash0
<1>5. OnRecord(outbound)' /\ JobOnRecord'
  BY DEF OnRecord, JobOnRecord, NoJob
<1>6. Walked' /\ Reported'
  BY Zenon DEF Walked, Reported, Idle, NoJob
<1> QED BY <1>1, <1>2, <1>3, <1>4, <1>5, <1>6 DEF Inv

(* Every step, and a step that changes nothing.                            *)
LEMMA NextKeeps == Inv /\ [Next]_vars => Inv'
<1> SUFFICES ASSUME Inv, [Next]_vars PROVE Inv'
  BY Zenon
<1>1. CASE UNCHANGED vars
  <2>1. /\ UNCHANGED <<tip, chain, engaged, record, pending, own>>
        /\ UNCHANGED <<cursor, retries, pass, job, outbound, sent>>
    BY <1>1, Zenon DEF vars, world, gadget, driver
  <2>2. WorldTypes' /\ (cursor \in Heights \union {0})' /\ Tracked(retries)' /\ HeldOnRecord(retries)'
    BY <2>1 DEF Inv, WorldTypes, Tracked, HeldOnRecord
  <2>3. PassTypes' /\ JobTypes'
    BY <2>1, Zenon DEF Inv, PassTypes, JobTypes
  <2>4. OnRecord(outbound)' /\ OnRecord(sent)' /\ JobOnRecord'
    BY <2>1, Zenon DEF Inv, OnRecord, JobOnRecord
  <2>5. Walked' /\ Reported'
    BY <2>1 DEF Inv, Walked, Reported, Buried
  <2> QED BY <2>2, <2>3, <2>4, <2>5 DEF Inv
<1>2. CASE Driver
  BY <1>2, RunPassKeeps, NewDoneKeeps, RevisitKeeps, RevisitFailedKeeps, ReportKeeps,
     SignOwnVoteKeeps, ReturnedKeeps, RevisitDoneKeeps, GateOutboundKeeps, BroadcastKeeps DEF Driver
<1>3. CASE Crash
  BY <1>3, CrashKeeps
<1>4. CASE \/ \E t \in 1..MaxTip, c \in Chains : MoveTip(t, c)
           \/ Engage \/ Clear
           \/ \E h \in Heights : Evict(h)
  BY <1>4, WorldKeeps
<1> QED BY <1>1, <1>2, <1>3, <1>4 DEF Next

----------------------------------------------------------------------------
(* Theorems                                                                *)

(* The inductive invariant holds throughout.                               *)
THEOREM Invariance == Spec => []Inv
<1> QED BY InitInv, NextKeeps, PTL DEF Spec

(* No two votes for one height with different blocks are ever broadcast,   *)
(* whatever is held during the stop, retried, signed again after a restart *)
(* or sent again (report, revisit, gate_outbound), the caps of the retry   *)
(* and revisit lists hold, and a held vote is always one of a boundary to  *)
(* be revisited.                                                           *)
THEOREM DriverIsSafe == Spec => []DriverInv
<1>1. Inv => DriverInv
  <2> SUFFICES ASSUME Inv PROVE DriverInv
    OBVIOUS
  <2>1. TypeOK
    BY DEF Inv, WorldTypes, Tracked, TypeOK, Hash0
  <2>2. OneVotePerHeight
    BY DEF Inv, OnRecord, OneVotePerHeight
  <2> QED BY <2>1, <2>2 DEF DriverInv
<1> QED BY <1>1, Invariance, PTL

(* "Never vote at the tip": whatever the chain does meanwhile, the first   *)
(* report of a boundary signs only a block vote_depth below the tip the    *)
(* pass started from, and every report only the block of the chain the     *)
(* pass walked (highest_buried_boundary, canonical_at_heights).            *)
THEOREM NeverAtTheTip == Spec => FirstReportBuried
<1> DEFINE Fine == \A h \in Heights : record'[h] # record[h] =>
                     /\ pass.phase = "new" => Buried(h)
                     /\ record'[h] = BlockAt[pass.chain][h]
<1>1. Inv /\ [Next]_vars => [Fine]_vars
  <2> SUFFICES ASSUME Inv, Next, NEW h \in Heights, record'[h] # record[h]
               PROVE  /\ pass.phase = "new" => Buried(h)
                      /\ record'[h] = BlockAt[pass.chain][h]
    BY Zenon
  <2>1. PICK ok \in BOOLEAN : SignOwnVote(ok)
    BY Zenon DEF Next, Driver, RunPass, Revisit, Report, NewDone, Returned, RevisitFailed, RevisitDone,
           GateOutbound, Broadcast, MoveTip, Engage, Clear, Crash, Evict, gadget
  <2>2. job.stage = "sign" /\ record' \in {record, [record EXCEPT ![job.height] = job.hash]}
    BY <2>1 DEF SignOwnVote
  <2>3. h = job.height /\ record'[h] = job.hash
    BY <2>2 DEF Inv, WorldTypes
  <2> QED BY <2>2, <2>3, Zenon DEF Inv, Reported
<1>2. Spec => [][Fine]_vars
  BY <1>1, Invariance, PTL DEF Spec
<1> QED BY <1>2, Zenon DEF FirstReportBuried
============================================================================
