------------------------- MODULE VoteSigning_proofs -------------------------
(***************************************************************************)
(* Proofs about VoteSigning for every set of boundaries and hashes, every  *)
(* interval and every record span.                                         *)
(*                                                                         *)
(* NoEquivocation is not inductive: a vote must still be known when its    *)
(* record is looked up again.  IInv adds that every vote is on record or   *)
(* below the durable floor (VotesOnRecord), that an authorized signature   *)
(* stays the only one at its height while a prune may run in between       *)
(* (AuthorizedAlone), and that the cached watermarks never differ from the *)
(* stored ones (PermitInv).  RecordsInSpan says in addition that the       *)
(* deletions, which look at a bounded number of boundaries, leave nothing  *)
(* behind.                                                                 *)
(***************************************************************************)
EXTENDS VoteSigning, TLAPS

IInv ==
  /\ TypeOK /\ PermitInv /\ VotesOnRecord /\ AuthorizedAlone /\ NoEquivocation
  /\ RecordsInSpan

(* The working watermarks are the stored ones: a cache miss reads them,    *)
(* and a hit equals them (signed_meta).                                    *)
LEMMA SignedMetaIsStored ==
  ASSUME PermitInv
  PROVE  SignedMeta = meta
BY DEF PermitInv, SignedMeta

(* Deleting records leaves a function of the same type, keeps every other  *)
(* height, and only touches the heights it is given (boundaries_between).  *)
LEMMA DeleteRecordsKeeps ==
  ASSUME NEW rec \in [Heights -> Hashes \union {None}], NEW gone
  PROVE  /\ DeleteRecords(rec, gone) \in [Heights -> Hashes \union {None}]
         /\ \A h \in Heights : h \notin gone => DeleteRecords(rec, gone)[h] = rec[h]
         /\ \A h \in Heights : h \in gone => DeleteRecords(rec, gone)[h] = None
BY DEF DeleteRecords

(* Dividing and multiplying back loses less than the divisor.              *)
LEMMA DivisionRounds ==
  ASSUME NEW a \in Nat, NEW d \in Nat \ {0}
  PROVE  a \div d \in Int /\ (a \div d) * d + d > a
OBVIOUS

(* The horizon is a whole number of blocks.                                *)
LEMMA HorizonNat == Horizon \in Nat
BY IntervalAssumption, SpanAssumption DEF Horizon

(* The first MAX_SIGNED_HEIGHTS + 1 boundaries above the floor are all the *)
(* boundaries a record can be at (boundaries_between's take).              *)
LEMMA BoundariesComplete ==
  ASSUME NEW after \in Nat, NEW upto \in Nat, NEW h \in Heights,
         after < h, h <= upto, h <= after + Horizon
  PROVE  h \in BoundariesBetween(after, upto)
<1> DEFINE q == after \div Interval
<1>1. q \in Int /\ q * Interval + Interval > after
  BY DivisionRounds, IntervalAssumption
<1>2. h \in Nat
  BY HeightsAssumption
<1>3. Interval \in Nat /\ MaxSignedHeights \in Nat
  BY IntervalAssumption, SpanAssumption
<1> HIDE DEF q
<1>4. Interval * (MaxSignedHeights + 1) = Interval * MaxSignedHeights + Interval
  BY <1>3
<1>5. q * Interval \in Int /\ Interval * MaxSignedHeights \in Int
  BY <1>1, <1>3
<1>6. h <= q * Interval + Interval * (MaxSignedHeights + 1)
  BY <1>1, <1>2, <1>3, <1>4, <1>5 DEF Horizon
<1> QED
  BY <1>6 DEF BoundariesBetween, q

(* The largest of two naturals is one of them and bounds both.             *)
LEMMA Max2Nat ==
  ASSUME NEW a \in Nat, NEW b \in Int
  PROVE  Max2(a, b) \in Nat /\ Max2(a, b) >= a /\ Max2(a, b) >= b
BY DEF Max2

(* The initial state satisfies the inductive invariant.                    *)
LEMMA InitIInv == Init => IInv
<1> SUFFICES ASSUME Init PROVE IInv
  OBVIOUS
<1>1. meta \in MetaType
  BY DEF Init, EmptyMeta, MetaType
<1>2. TypeOK
  BY <1>1 DEF Init, TypeOK
<1>3. PermitInv
  BY DEF Init, PermitInv
<1>4. RecordsInSpan
  BY HorizonNat DEF Init, EmptyMeta, RecordsInSpan
<1> QED
  BY <1>2, <1>3, <1>4 DEF Init, IInv, VotesOnRecord, AuthorizedAlone, NoEquivocation

(* Writing the first record of a height under new watermarks keeps every   *)
(* earlier vote on record or below the floor.                              *)
LEMMA AuthorizeFirstIInv ==
  ASSUME IInv, AuthorizeFirst
  PROVE  IInv'
<1> DEFINE m == meta
           highest == Max2(m.highest, job.height)
           floor == Max2(m.floor, highest - Horizon)
           gone == BoundariesBetween(m.floor, Min2(floor, m.highest))
<1>1. SignedMeta = meta
  BY SignedMetaIsStored DEF IInv
<1>2. /\ pc = "authorize" /\ job.height > m.floor /\ record[job.height] = None
      /\ job.height > floor
      /\ record' = [DeleteRecords(record, gone) EXCEPT ![job.height] = job.hash]
      /\ meta' = [floor |-> floor, highest |-> highest]
      /\ cached' = meta' /\ pc' = "sign"
      /\ UNCHANGED <<latest, votes, engaged, gate, job>>
  BY <1>1 DEF AuthorizeFirst, stop
<1>3. /\ m.floor \in Nat /\ m.highest \in Nat /\ meta \in MetaType
      /\ job.height \in Heights /\ job.hash \in Hashes
      /\ record \in [Heights -> Hashes \union {None}]
      /\ job \in [height : Heights, hash : Hashes]
  BY <1>2 DEF IInv, TypeOK, MetaType
<1>4. job.height \in Nat /\ Horizon \in Nat
  BY <1>3, HeightsAssumption, IntervalAssumption, SpanAssumption DEF Horizon
<1>5. /\ highest \in Nat /\ highest - Horizon \in Int
      /\ highest >= m.highest /\ highest >= job.height
  BY <1>3, <1>4 DEF Max2
<1>6. floor \in Nat /\ floor >= m.floor /\ highest - floor <= Horizon
  <2>1. floor \in Nat /\ floor >= m.floor /\ floor >= highest - Horizon
    BY <1>3, <1>5, Max2Nat
  <2> QED
    BY <2>1, <1>4, <1>5
<1>7. \A h \in gone : h \in Heights /\ h <= floor
  <2> SUFFICES ASSUME NEW h \in gone PROVE h \in Heights /\ h <= floor
    OBVIOUS
  <2>1. h \in Heights /\ h <= Min2(floor, m.highest)
    BY DEF BoundariesBetween
  <2> QED
    BY <2>1, <1>3, <1>6, HeightsAssumption DEF Min2
<1>15. \A h \in Heights : record[h] # None /\ h <= floor => h \in gone
  <2> SUFFICES ASSUME NEW h \in Heights, record[h] # None, h <= floor
               PROVE  h \in gone
    OBVIOUS
  <2>1. /\ m.floor < h /\ h <= m.highest /\ m.highest - m.floor <= Horizon
        /\ h \in Nat
    BY HeightsAssumption DEF IInv, RecordsInSpan
  <2>2. h <= m.floor + Horizon /\ h <= Min2(floor, m.highest) /\ Min2(floor, m.highest) \in Nat
    BY <2>1, <1>3, <1>4, <1>6 DEF Min2
  <2> QED
    BY <2>1, <2>2, <1>3, BoundariesComplete
<1> HIDE DEF highest, floor, gone
<1>8. /\ record' \in [Heights -> Hashes \union {None}]
      /\ record'[job.height] = job.hash
      /\ \A h \in Heights : h # job.height /\ h > floor => record'[h] = record[h]
      /\ \A h \in Heights : record'[h] # None => h = job.height \/ (record[h] # None /\ h > floor)
  <2>1. /\ DeleteRecords(record, gone) \in [Heights -> Hashes \union {None}]
        /\ \A h \in Heights : h \notin gone => DeleteRecords(record, gone)[h] = record[h]
        /\ \A h \in Heights : h \in gone => DeleteRecords(record, gone)[h] = None
    BY <1>3, DeleteRecordsKeeps
  <2>2. \A h \in Heights : h > floor => h \notin gone
    BY <1>7, <1>6, HeightsAssumption
  <2>3. /\ record' \in [Heights -> Hashes \union {None}]
        /\ record'[job.height] = job.hash
        /\ \A h \in Heights : h # job.height => record'[h] = DeleteRecords(record, gone)[h]
    BY <1>2, <1>3, <2>1
  <2>4. ASSUME NEW h \in Heights, record'[h] # None, h # job.height
        PROVE  record[h] # None /\ h > floor
    <3>1. h \notin gone /\ record[h] # None
      BY <2>1, <2>3, <2>4
    <3>2. h \in Nat
      BY HeightsAssumption
    <3> QED
      BY <3>1, <3>2, <1>6, <1>15
  <2> QED
    BY <2>1, <2>2, <2>3, <2>4
<1>9. TypeOK'
  BY <1>2, <1>3, <1>5, <1>6, <1>8 DEF IInv, TypeOK, MetaType
<1>10. PermitInv'
  BY <1>2 DEF IInv, PermitInv
<1>11. \A v \in votes : v \in Heights \X Hashes /\ v[1] \in Heights /\ v[1] \in Nat
  BY HeightsAssumption DEF IInv, TypeOK
<1>12. \A v \in votes : v[1] # job.height
  <2> SUFFICES ASSUME NEW v \in votes, v[1] = job.height PROVE FALSE
    OBVIOUS
  <2>1. record[v[1]] = v[2]
    BY <1>2, <1>3, <1>4 DEF IInv, VotesOnRecord
  <2>2. v[2] \in Hashes
    BY <1>11
  <2> QED
    BY <2>1, <2>2, <1>2, NoneAssumption
<1>13. VotesOnRecord'
  <2> SUFFICES ASSUME NEW v \in votes
               PROVE  v[1] <= floor \/ record'[v[1]] = v[2]
    BY <1>2 DEF VotesOnRecord
  <2>1. v[1] <= m.floor \/ record[v[1]] = v[2]
    BY DEF IInv, VotesOnRecord
  <2> QED
    BY <2>1, <1>3, <1>6, <1>8, <1>11, <1>12
<1>14. AuthorizedAlone'
  BY <1>2, <1>8, <1>12 DEF AuthorizedAlone
<1>16. RecordsInSpan'
  <2>1. meta'.floor = floor /\ meta'.highest = highest
    BY <1>2
  <2>2. ASSUME NEW h \in Heights, record'[h] # None
        PROVE  floor < h /\ h <= highest
    <3>1. h \in Nat
      BY HeightsAssumption
    <3>2. CASE h = job.height
      BY <3>1, <3>2, <1>2, <1>5, <1>6
    <3>3. CASE record[h] # None /\ h > floor
      <4>1. h <= m.highest
        BY <3>3 DEF IInv, RecordsInSpan
      <4> QED
        BY <4>1, <3>1, <3>3, <1>3, <1>5, <1>6
    <3> QED
      BY <2>2, <3>2, <3>3, <1>8
  <2> QED
    BY <2>1, <2>2, <1>6 DEF RecordsInSpan
<1> QED
  BY <1>2, <1>9, <1>10, <1>13, <1>14, <1>16 DEF IInv, NoEquivocation

(* Pruning deletes records only at heights the raised floor covers.        *)
LEMMA PruneIInv ==
  ASSUME IInv, PruneSignedRecords
  PROVE  IInv'
<1> DEFINE gone == BoundariesBetween(meta.floor, Min2(latest, meta.highest))
<1>1. SignedMeta = meta
  BY SignedMetaIsStored DEF IInv
<1>2. /\ latest > meta.floor
      /\ record' = DeleteRecords(record, gone)
      /\ meta' = [meta EXCEPT !.floor = latest]
      /\ cached' = meta'
      /\ UNCHANGED <<latest, votes, engaged, gate, pc, job>>
  BY <1>1 DEF PruneSignedRecords, stop
<1>3. /\ meta \in MetaType /\ meta.floor \in Nat /\ meta.highest \in Nat /\ latest \in Nat
      /\ record \in [Heights -> Hashes \union {None}]
  BY DEF IInv, TypeOK, MetaType
<1>4. \A h \in gone : h \in Heights /\ h <= latest
  <2> SUFFICES ASSUME NEW h \in gone PROVE h \in Heights /\ h <= latest
    OBVIOUS
  <2>1. h \in Heights /\ h <= Min2(latest, meta.highest)
    BY DEF BoundariesBetween
  <2> QED
    BY <2>1, <1>3, HeightsAssumption DEF Min2
<1>11. \A h \in Heights : record[h] # None /\ h <= latest => h \in gone
  <2> SUFFICES ASSUME NEW h \in Heights, record[h] # None, h <= latest
               PROVE  h \in gone
    OBVIOUS
  <2>1. /\ meta.floor < h /\ h <= meta.highest /\ meta.highest - meta.floor <= Horizon
        /\ h \in Nat
    BY HeightsAssumption DEF IInv, RecordsInSpan
  <2>2. /\ h <= meta.floor + Horizon /\ h <= Min2(latest, meta.highest)
        /\ Min2(latest, meta.highest) \in Nat
    BY <2>1, <1>3, HorizonNat DEF Min2
  <2> QED
    BY <2>1, <2>2, <1>3, BoundariesComplete
<1> HIDE DEF gone
<1>5. /\ record' \in [Heights -> Hashes \union {None}]
      /\ \A h \in Heights : h > latest => record'[h] = record[h]
      /\ \A h \in Heights : record'[h] # None => record[h] # None /\ h > latest
  <2>1. /\ DeleteRecords(record, gone) \in [Heights -> Hashes \union {None}]
        /\ \A h \in Heights : h \notin gone => DeleteRecords(record, gone)[h] = record[h]
        /\ \A h \in Heights : h \in gone => DeleteRecords(record, gone)[h] = None
    BY <1>3, DeleteRecordsKeeps
  <2>2. \A h \in Heights : h > latest => h \notin gone
    BY <1>3, <1>4, HeightsAssumption
  <2>3. ASSUME NEW h \in Heights, record'[h] # None
        PROVE  record[h] # None /\ h > latest
    <3>1. h \notin gone /\ record[h] # None
      BY <1>2, <2>1, <2>3
    <3>2. h \in Nat
      BY HeightsAssumption
    <3> QED
      BY <3>1, <3>2, <1>3, <1>11
  <2> QED
    BY <1>2, <2>1, <2>2, <2>3
<1>6. meta' \in MetaType /\ meta'.floor = latest /\ meta'.highest = meta.highest
  BY <1>2, <1>3 DEF MetaType
<1>7. TypeOK'
  BY <1>2, <1>5, <1>6 DEF IInv, TypeOK
<1>8. PermitInv'
  BY <1>2 DEF IInv, PermitInv
<1>9. VotesOnRecord'
  <2> SUFFICES ASSUME NEW v \in votes
               PROVE  v[1] <= latest \/ record'[v[1]] = v[2]
    BY <1>2, <1>6 DEF VotesOnRecord
  <2>1. v[1] \in Heights /\ v[1] \in Nat
    BY HeightsAssumption DEF IInv, TypeOK
  <2>2. v[1] <= meta.floor \/ record[v[1]] = v[2]
    BY DEF IInv, VotesOnRecord
  <2> QED
    BY <2>1, <2>2, <1>2, <1>3, <1>5
<1>10. AuthorizedAlone'
  <2> SUFFICES ASSUME pc \in {"sign", "submit"}
               PROVE  /\ job.height <= latest \/ record'[job.height] = job.hash
                      /\ \A v \in votes : v[1] = job.height => v[2] = job.hash
    BY <1>2, <1>6 DEF AuthorizedAlone
  <2>1. job.height \in Heights /\ job.height \in Nat
    BY HeightsAssumption DEF IInv, TypeOK
  <2> QED
    BY <2>1, <1>2, <1>3, <1>5 DEF IInv, AuthorizedAlone
<1>12. RecordsInSpan'
  <2>1. meta.highest - latest <= Horizon
    BY <1>2, <1>3, HorizonNat DEF IInv, RecordsInSpan
  <2>2. ASSUME NEW h \in Heights, record'[h] # None
        PROVE  latest < h /\ h <= meta.highest
    BY <2>2, <1>3, <1>5, HeightsAssumption DEF IInv, RecordsInSpan
  <2> QED
    BY <2>1, <2>2, <1>6 DEF RecordsInSpan
<1> QED
  BY <1>2, <1>7, <1>8, <1>9, <1>10, <1>12 DEF IInv, NoEquivocation

(* Letting the authorized vote out adds one for the block already voted    *)
(* for at that height, if any.                                             *)
LEMMA SubmitIInv ==
  ASSUME IInv, SubmitOwnVote
  PROVE  IInv'
<1>1. /\ pc = "submit"
      /\ \/ votes' = votes
         \/ votes' = votes \union {<<job.height, job.hash>>}
      /\ gate' = FALSE /\ pc' = "idle" /\ job' = NoJob
      /\ UNCHANGED <<record, meta, latest, cached, engaged>>
  BY DEF SubmitOwnVote, Finish
<1>2. job.height \in Heights /\ job.hash \in Hashes
  BY <1>1 DEF IInv, TypeOK
<1>3. TypeOK'
  <2>1. votes \subseteq Heights \X Hashes
    BY DEF IInv, TypeOK
  <2>2. votes' \subseteq Heights \X Hashes
    BY <1>1, <1>2, <2>1
  <2> QED
    BY <1>1, <2>2 DEF IInv, TypeOK
<1>4. PermitInv'
  BY <1>1 DEF IInv, PermitInv
<1>5. VotesOnRecord'
  BY <1>1, <1>2 DEF IInv, VotesOnRecord, AuthorizedAlone
<1>6. NoEquivocation'
  BY <1>1, <1>2 DEF IInv, NoEquivocation, AuthorizedAlone
<1>7. AuthorizedAlone'
  BY <1>1 DEF AuthorizedAlone
<1>8. RecordsInSpan'
  BY <1>1 DEF IInv, RecordsInSpan
<1> QED
  BY <1>3, <1>4, <1>5, <1>6, <1>7, <1>8 DEF IInv

(* Every step of the node preserves the inductive invariant.               *)
LEMMA NextIInv == IInv /\ [Next]_vars => IInv'
<1> SUFFICES ASSUME IInv, [Next]_vars PROVE IInv'
  OBVIOUS
<1> USE DEF durable, stop, RecordsInSpan
<1>1. ASSUME NEW h \in Heights, NEW x \in Hashes, ReportBuried(h, x) PROVE IInv'
  BY <1>1 DEF ReportBuried, IInv, TypeOK, PermitInv, VotesOnRecord, AuthorizedAlone,
              NoEquivocation
<1>2. CASE SigningPermit
  BY <1>2 DEF SigningPermit, Finish, NoJob, IInv, TypeOK, PermitInv, VotesOnRecord,
              AuthorizedAlone, NoEquivocation
<1>3. CASE Refuse
  <2>1. SignedMeta = meta
    BY SignedMetaIsStored DEF IInv
  <2> QED
    BY <1>3, <2>1 DEF Refuse, Finish, NoJob, IInv, TypeOK, PermitInv, VotesOnRecord,
                      AuthorizedAlone, NoEquivocation
<1>4. CASE AuthorizeAgain
  <2>1. SignedMeta = meta
    BY SignedMetaIsStored DEF IInv
  <2>2. /\ pc = "authorize" /\ job.height > meta.floor /\ record[job.height] = job.hash
        /\ cached' = meta /\ pc' = "sign"
        /\ UNCHANGED <<record, meta, latest, votes, engaged, gate, job>>
    BY <1>4, <2>1 DEF AuthorizeAgain
  <2>3. TypeOK' /\ PermitInv'
    BY <2>2 DEF IInv, TypeOK, PermitInv
  <2>4. job.height \in Nat /\ meta.floor \in Nat
    BY <2>2, HeightsAssumption DEF IInv, TypeOK, MetaType
  <2>5. AuthorizedAlone'
    BY <2>2, <2>4 DEF IInv, VotesOnRecord, AuthorizedAlone
  <2> QED
    BY <2>2, <2>3, <2>5 DEF IInv, VotesOnRecord, NoEquivocation
<1>5. CASE AuthorizeFirst
  BY <1>5, AuthorizeFirstIInv
<1>6. CASE Recheck
  BY <1>6 DEF Recheck, Finish, NoJob, IInv, TypeOK, PermitInv, VotesOnRecord,
              AuthorizedAlone, NoEquivocation
<1>7. CASE SubmitOwnVote
  BY <1>7, SubmitIInv
<1>8. ASSUME NEW h \in Heights, Finalized(h) PROVE IInv'
  BY <1>8, HeightsAssumption
     DEF Finalized, IInv, TypeOK, PermitInv, VotesOnRecord, AuthorizedAlone, NoEquivocation
<1>9. CASE PruneSignedRecords
  BY <1>9, PruneIInv
<1>10. CASE LoadMeta
  BY <1>10 DEF LoadMeta, IInv, TypeOK, PermitInv, VotesOnRecord, AuthorizedAlone, NoEquivocation
<1>11. CASE Engage \/ Clear
  <2>1. /\ ~gate /\ engaged' \in BOOLEAN
        /\ UNCHANGED <<record, meta, latest, votes, cached, gate, pc, job>>
    BY <1>11 DEF Engage, Clear
  <2>2. TypeOK' /\ PermitInv'
    BY <2>1 DEF IInv, TypeOK, PermitInv
  <2> QED
    BY <2>1, <2>2 DEF IInv, VotesOnRecord, AuthorizedAlone, NoEquivocation
<1>12. CASE Crash
  BY <1>12 DEF Crash, Finish, NoJob, IInv, TypeOK, PermitInv, VotesOnRecord,
               AuthorizedAlone, NoEquivocation
<1>13. CASE UNCHANGED vars
  BY <1>13 DEF vars, IInv, TypeOK, PermitInv, VotesOnRecord, AuthorizedAlone, NoEquivocation
<1> QED
  BY <1>1, <1>2, <1>3, <1>4, <1>5, <1>6, <1>7, <1>8, <1>9, <1>10, <1>11, <1>12, <1>13 DEF Next

(* The invariant holds in every behaviour.                                 *)
THEOREM IInvHolds == Spec => []IInv
BY InitIInv, NextIInv, PTL DEF Spec

(* Type correctness of the signing path.                                   *)
THEOREM TypeCorrect == Spec => []TypeOK
<1>1. IInv => TypeOK
  BY DEF IInv
<1> QED
  BY <1>1, IInvHolds, PTL

(* An authorized signature stays the only one possible at its height until *)
(* its vote is queued, although the record may be pruned in between.       *)
THEOREM AuthorizedStaysAlone == Spec => []AuthorizedAlone
<1>1. IInv => AuthorizedAlone
  BY DEF IInv
<1> QED
  BY <1>1, IInvHolds, PTL

(* No validator ever lets out votes for two blocks at one height, whatever *)
(* crashes, prunes, refusals and failed writes lie between them.           *)
THEOREM NeverEquivocates == Spec => []NoEquivocation
<1>1. IInv => NoEquivocation
  BY DEF IInv
<1> QED
  BY <1>1, IInvHolds, PTL

(* Every vote that left the validator is on record or below the floor      *)
(* where nothing is signed again; and the record never holds more than     *)
(* MAX_SIGNED_HEIGHTS boundaries, because each raised floor deletes every  *)
(* record it covers.                                                       *)
THEOREM RecordIsKept == Spec => []RecordInv
<1>1. IInv => RecordInv
  BY DEF IInv, RecordInv
<1> QED
  BY <1>1, IInvHolds, PTL

(* While the safety stop is engaged no vote leaves the validator: the gate *)
(* keeps the flag from changing between the permit and the submission.     *)
THEOREM StopIsRespected == Spec => StopHaltsSigning
<1>1. IInv /\ [Next]_vars => (votes' # votes => ~engaged)
  <2> SUFFICES ASSUME IInv, [Next]_vars, votes' # votes PROVE ~engaged
    OBVIOUS
  <2>1. CASE SubmitOwnVote
    BY <2>1 DEF SubmitOwnVote, IInv, PermitInv
  <2>2. CASE ~SubmitOwnVote
    BY <2>2 DEF Next, vars, durable, ReportBuried, SigningPermit, Refuse, AuthorizeAgain,
       AuthorizeFirst, Recheck, Finalized, PruneSignedRecords, LoadMeta, Engage, Clear, Crash
  <2> QED
    BY <2>1, <2>2
<1> QED
  BY <1>1, IInvHolds, PTL DEF Spec, StopHaltsSigning
=============================================================================
