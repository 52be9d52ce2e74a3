----------------------------- MODULE EarlyBuffer -----------------------------
(***************************************************************************)
(* The early-vote buffers of the finality gadget                           *)
(* (core/consensus/src/checkpoint_gadget.rs): votes for checkpoints this   *)
(* node has not proposed yet.  Votes of validators go to "early"; while    *)
(* the validator snapshot governing their height is missing they wait in   *)
(* "unverified" (voters of the latest snapshot) or "unknown" (the rest).   *)
(*                                                                         *)
(* The network task classifies a vote without the lock and inserts it      *)
(* under the lock; the driver expires, looks snapshots up and promotes in  *)
(* separate lock sections.  Arrival numbers are kept as the order they     *)
(* define.  Only the promotion takes several steps under the lock.         *)
(***************************************************************************)
EXTENDS Integers, FiniteSets

CONSTANTS
  Voters, Heights, Hashes,
  Governs,      \* Governs[h]: the validator snapshot that governs h
  PerVoter,     \* per-voter cap of each buffer
  Total,        \* total cap of each buffer
  Loaded,       \* the heights whose snapshots the node starts with
  Horizon,      \* EARLY_VOTE_HORIZON_BLOCKS
  MaxTip,       \* bound on the observed tip
  None

Buffers == {"early", "unverified", "unknown"}

ASSUME CapsAssumption ==
  \A b \in Buffers : PerVoter[b] \in Nat \ {0} /\ Total[b] \in Nat \ {0}

ASSUME VotesAssumption ==
  /\ IsFiniteSet(Voters) /\ IsFiniteSet(Heights) /\ Heights \subseteq Nat /\ None \notin Hashes
  /\ Loaded \subseteq Heights /\ Horizon \in Nat /\ MaxTip \in Nat

VARIABLES
  buf,       \* the three buffers
  tip,       \* observed_tip
  finalized, \* the manager's latest finalized height
  known,     \* heights whose governing snapshot is materialized
  job,       \* network task: the classified vote it is about to insert
  pcd,       \* driver: "idle", "lookup" or "promote" (it holds the lock)
  todo,      \* driver: heights to look up
  resolved,  \* driver: heights whose snapshot was found
  taken      \* driver: votes taken from the two waiting buffers, to be promoted

driver == <<pcd, todo, resolved, taken>>
vars == <<buf, tip, finalized, known, job, pcd, todo, resolved, taken>>

(* A buffer: the votes, the per-voter index, the arrival of its voters (as *)
(* the pairs <<u, w>> with u no later than w) and the counter, each        *)
(* maintained on its own.                                                  *)
Empty == [votes |-> {}, of |-> [w \in Voters |-> [h \in Heights |-> None]], arrival |-> {}, len |-> 0]

HeightsOf(B, w) == {h \in Heights : B.of[w][h] # None}
Holders(B) == {w \in Voters : HeightsOf(B, w) # {}}
Count(B, w) == Cardinality(HeightsOf(B, w))
Farthest(B, w) == CHOOSE h \in HeightsOf(B, w) : \A g \in HeightsOf(B, w) : g <= h

(* A voter that holds nothing any more loses its place.                    *)
Among(arrival, S) == {p \in arrival : p[1] \in S /\ p[2] \in S}

RemoveEntry(B, w, h) ==
  LET of == [B.of EXCEPT ![w][h] = None]
  IN [votes   |-> B.votes \ {<<h, B.of[w][h], w>>},
      of      |-> of,
      arrival |-> IF \A g \in Heights : of[w][g] = None THEN Among(B.arrival, Voters \ {w}) ELSE B.arrival,
      len     |-> B.len - 1]

Add(B, v) ==
  LET here == {u \in Voters : <<u, u>> \in B.arrival}
      w == v[3]
  IN [votes   |-> B.votes \union {v},
      of      |-> [B.of EXCEPT ![w][v[1]] = v[2]],
      arrival |-> IF w \in here THEN B.arrival ELSE B.arrival \union ((here \union {w}) \X {w}),
      len     |-> B.len + 1]

(* The voter holding the most; among equals the last to arrive.            *)
Heaviest(B) ==
  CHOOSE u \in Holders(B) : \A w \in Holders(B) :
    \/ Count(B, u) > Count(B, w)
    \/ Count(B, u) = Count(B, w) /\ <<w, u>> \in B.arrival

(* A full buffer evicts from a voter that holds no more than the newcomer. *)
HasRoomFromEqual(B, w, total) == B.len < total \/ Count(B, Heaviest(B)) >= Count(B, w)

(* A full buffer refuses everyone.                                         *)
HasRoomNever(B, w, total) == B.len < total

(* At the total cap the heaviest voter gives up its farthest vote, unless  *)
(* the newcomer's voter w holds as many.                                   *)
HasRoom(B, w, total) == B.len < total \/ Count(B, Heaviest(B)) > Count(B, w)
MakeRoom(B, total) ==
  LET u == Heaviest(B) IN IF B.len < total THEN B ELSE RemoveEntry(B, u, Farthest(B, u))

(* insert: one vote per voter and height; at the per-voter cap a nearer    *)
(* height displaces the voter's farthest.  A refused vote leaves the       *)
(* buffer as it is.                                                        *)
Insert(B, v, perVoter, total) ==
  LET h    == v[1]
      w    == v[3]
      full == Count(B, w) >= perVoter
      own  == IF full THEN RemoveEntry(B, w, Farthest(B, w)) ELSE B
  IN IF B.of[w][h] # None \/ (full /\ h > Farthest(B, w)) THEN B
     ELSE IF HasRoom(own, w, total) THEN Add(MakeRoom(own, total), v)
     ELSE own

InsertInto(b, B, v) == Insert(B, v, PerVoter[b], Total[b])

(* The counter is left behind.                                             *)
TakeHeightsKeepsLen(B, H) ==
  LET of == [w \in Voters |-> [h \in Heights |-> IF h \in H THEN None ELSE B.of[w][h]]]
  IN [votes   |-> {v \in B.votes : v[1] \notin H},
      of      |-> of,
      arrival |-> Among(B.arrival, {w \in Voters : \E h \in Heights : of[w][h] # None}),
      len     |-> B.len]

(* take_keys for every key of these heights.                               *)
TakeHeights(B, H) ==
  LET of == [w \in Voters |-> [h \in Heights |-> IF h \in H THEN None ELSE B.of[w][h]]]
  IN [votes   |-> {v \in B.votes : v[1] \notin H},
      of      |-> of,
      arrival |-> Among(B.arrival, {w \in Voters : \E h \in Heights : of[w][h] # None}),
      len     |-> B.len - Cardinality({v \in B.votes : v[1] \in H})]

Waiting == {"unverified", "unknown"}
NoneTaken == [b \in Waiting |-> {}]

Unlocked == pcd # "promote"

DropHeights(H) == [b \in Buffers |-> TakeHeights(buf[b], H)]

Init ==
  /\ buf = [b \in Buffers |-> Empty]
  /\ tip = 0 /\ finalized = 0
  /\ known = Loaded
  /\ job = None
  /\ pcd = "idle" /\ todo = {} /\ resolved = {} /\ taken = NoneTaken

----------------------------------------------------------------------------
(* The network task: buffer_early                                          *)

Latest == IF known = {} THEN {} ELSE Governs[CHOOSE h \in known : \A g \in known : g <= h]

(* Without the lock: not finalized, and the voter's standing under the     *)
(* governing snapshot, or provisionally under the latest one.              *)
Classify(v) ==
  /\ job = None
  /\ v[1] > finalized
  /\ v[1] \in known => v[3] \in Governs[v[1]]
  /\ job' = [vote |-> v, base |-> finalized,
             to |-> IF v[1] \in known THEN "early"
                    ELSE IF v[3] \in Latest THEN "unverified" ELSE "unknown"]
  /\ UNCHANGED <<buf, tip, finalized, known, driver>>

(* Under the lock: the horizon, then the buffer's own caps.                *)
Buffer ==
  LET v    == job.vote
      base == IF tip > job.base THEN tip ELSE job.base
  IN /\ job # None /\ Unlocked
     /\ IF v[1] <= base + Horizon /\ v[1] + Horizon >= tip
        THEN buf' = [buf EXCEPT ![job.to] = InsertInto(job.to, @, v)]
        ELSE UNCHANGED buf
     /\ job' = None
     /\ UNCHANGED <<tip, finalized, known, driver>>

(* Under the lock: the checkpoint was proposed meanwhile, so the vote is   *)
(* submitted instead.                                                      *)
SubmitInstead ==
  /\ job # None /\ Unlocked
  /\ job' = None
  /\ UNCHANGED <<buf, tip, finalized, known, driver>>

----------------------------------------------------------------------------
(* The driver: observe_tip and the drain of on_buried_checkpoint           *)

(* Only the provisionally known voters are looked up again.                *)
ObserveTipUnverifiedOnly(t) ==
  /\ pcd = "idle"
  /\ tip' = IF t > tip THEN t ELSE tip
  /\ buf' = DropHeights({h \in Heights : h < tip' - Horizon})
  /\ todo' = {v[1] : v \in buf'["unverified"].votes}
  /\ pcd' = "lookup"
  /\ UNCHANGED <<finalized, known, job, resolved, taken>>

ObserveTip(t) ==
  /\ pcd = "idle"
  /\ tip' = IF t > tip THEN t ELSE tip
  /\ buf' = DropHeights({h \in Heights : h < tip' - Horizon})
  /\ todo' = {v[1] : v \in buf'["unverified"].votes \union buf'["unknown"].votes}
  /\ pcd' = "lookup"
  /\ UNCHANGED <<finalized, known, job, resolved, taken>>

(* One snapshot lookup, lowest height first, outside the lock, which is    *)
(* then taken if any was found.                                            *)
LookUp ==
  /\ pcd = "lookup"
  /\ \/ \E h \in todo :
          /\ \A g \in todo : h <= g
          /\ todo' = todo \ {h}
          /\ resolved' = IF h \in known THEN resolved \union {h} ELSE resolved
          /\ UNCHANGED pcd
     \/ /\ todo = {}
        /\ pcd' = IF resolved = {} THEN "idle" ELSE "promote"
        /\ UNCHANGED <<todo, resolved>>
  /\ UNCHANGED <<buf, tip, finalized, known, job, taken>>

At(b, h) == {v \in buf[b].votes : v[1] = h}

(* Every vote of the height is promoted.                                   *)
MembersOfAll(vs, h) == vs

MembersOf(vs, h) == {v \in vs : v[3] \in Governs[h]}

(* All votes of the lowest height leave the two waiting buffers, and those *)
(* of members are to be promoted.                                          *)
TakeResolved ==
  /\ pcd = "promote" /\ taken = NoneTaken
  /\ \E h \in resolved :
       /\ \A g \in resolved : h <= g
       /\ resolved' = resolved \ {h}
       /\ taken' = [b \in Waiting |-> MembersOf(At(b, h), h)]
       /\ buf' = [b \in Buffers |-> IF b \in Waiting THEN TakeHeights(buf[b], {h}) ELSE buf[b]]
  /\ UNCHANGED <<tip, finalized, known, job, pcd, todo>>

(* They enter early, the provisionally known first; within one waiting     *)
(* buffer the order is that of a hash map.  A refused vote is dropped.     *)
Promote ==
  /\ pcd = "promote"
  /\ \E b \in Waiting : \E v \in taken[b] :
       /\ b = "unknown" => taken["unverified"] = {}
       /\ taken' = [taken EXCEPT ![b] = @ \ {v}]
       /\ buf' = [buf EXCEPT !["early"] = InsertInto("early", @, v)]
  /\ UNCHANGED <<tip, finalized, known, job, pcd, todo, resolved>>

(* Nothing is left to promote: the lock is released.                       *)
Promoted ==
  /\ pcd = "promote" /\ taken = NoneTaken /\ resolved = {}
  /\ pcd' = "idle"
  /\ UNCHANGED <<buf, tip, finalized, known, job, todo, resolved, taken>>

(* on_buried_checkpoint empties the height.                                *)
Drain(h) ==
  /\ pcd = "idle"
  /\ \E b \in Buffers : At(b, h) # {}
  /\ buf' = DropHeights({h})
  /\ UNCHANGED <<tip, finalized, known, job, driver>>

----------------------------------------------------------------------------
(* A checkpoint finalizes, and some task prunes with the floor it read.    *)
Finalized(h) ==
  /\ h > finalized
  /\ finalized' = h
  /\ UNCHANGED <<buf, tip, known, job, driver>>

Prune(floor) ==
  /\ floor <= finalized /\ Unlocked
  /\ \E b \in Buffers, h \in Heights : h <= floor /\ At(b, h) # {}
  /\ buf' = DropHeights({h \in Heights : h <= floor})
  /\ UNCHANGED <<tip, finalized, known, job, driver>>

(* An epoch boundary is applied: the next snapshot is materialized.  (The  *)
(* history also drops its oldest, far below every height held here.)       *)
Materialize(h) ==
  /\ h \notin known
  /\ \A g \in Heights : g < h => g \in known
  /\ known' = known \union {h}
  /\ UNCHANGED <<buf, tip, finalized, job, driver>>

Next ==
  \/ \E h \in Heights, x \in Hashes, w \in Voters : Classify(<<h, x, w>>)
  \/ Buffer \/ SubmitInstead
  \/ \E t \in 0..MaxTip : ObserveTip(t)
  \/ LookUp \/ TakeResolved \/ Promote \/ Promoted
  \/ \E h \in Heights : Drain(h) \/ Finalized(h) \/ Prune(h) \/ Materialize(h)

Spec == Init /\ [][Next]_vars

(* The driver calls observe_tip on every pass and finishes each call.      *)
LiveSpec ==
  /\ Spec
  /\ WF_vars(\E t \in 0..MaxTip : ObserveTip(t))
  /\ WF_vars(LookUp \/ TakeResolved \/ Promote \/ Promoted)

----------------------------------------------------------------------------
(* The parts of a buffer tell one story: the index and the counter are     *)
(* those of the votes held, the voters holding any are the ones with a     *)
(* place in the order of arrival, and both caps hold (insert,              *)
(* remove_entry, take_keys).                                               *)
Ordered(arrival, S) ==
  /\ arrival \subseteq S \X S
  /\ \A u, w \in S : <<u, w>> \in arrival \/ <<w, u>> \in arrival
  /\ \A u, w \in S : <<u, w>> \in arrival /\ <<w, u>> \in arrival => u = w
  /\ \A u, v, w \in S : <<u, v>> \in arrival /\ <<v, w>> \in arrival => <<u, w>> \in arrival

Consistent(B) ==
  /\ B.votes = {v \in Heights \X Hashes \X Voters : B.of[v[3]][v[1]] = v[2]}
  /\ B.len = Cardinality(B.votes)
  /\ Ordered(B.arrival, Holders(B))

TypeOK ==
  /\ \A b \in Buffers :
       /\ Consistent(buf[b])
       /\ buf[b].len <= Total[b] /\ \A w \in Voters : Count(buf[b], w) <= PerVoter[b]
  /\ pcd \in {"idle", "lookup", "promote"}
  /\ todo \subseteq Heights /\ resolved \subseteq Heights

(* "No validator, and no set of validators, can crowd out another          *)
(* validator's early votes": a voter below its fair share of the total cap *)
(* always gets one more height in, however full the buffer is.             *)
FairShare ==
  \A b \in Buffers, w \in Voters, h \in Heights, x \in Hashes :
    /\ Count(buf[b], w) < PerVoter[b]
    /\ Count(buf[b], w) * Cardinality(Voters) < Total[b]
    /\ buf[b].of[w][h] = None
    => <<h, x, w>> \in InsertInto(b, buf[b], <<h, x, w>>).votes

(* A voter within its fair share never loses a vote to another voter's:    *)
(* an arriving vote evicts only from a voter that holds more than an equal *)
(* split of the cap (insert, "fair share").                                *)
NoCrowding ==
  [][job # None /\ job' = None =>
       \A b \in Buffers, u \in Voters :
         u # job.vote[3] /\ Count(buf'[b], u) < Count(buf[b], u) =>
           Count(buf[b], u) * Cardinality(Voters) > Total[b]]_vars

(* Outsiders take no space among the authenticated votes, although a vote  *)
(* may have been classified before its snapshot appeared (buffer_early,    *)
(* observe_tip).                                                           *)
OnlyMembers == \A v \in buf["early"].votes : v[1] \in known /\ v[3] \in Governs[v[1]]

(* Every held vote is within the horizon of the node's tip or finalized    *)
(* height, and none is expired.                                            *)
InWindow ==
  \A b \in Buffers : \A v \in buf[b].votes :
    /\ v[1] <= (IF tip > finalized THEN tip ELSE finalized) + Horizon
    /\ v[1] + Horizon >= tip

(* Each buffer holds only what belongs in it.                              *)
Placed == OnlyMembers /\ InWindow

(* "They are re-checked against the snapshot once it appears": no vote     *)
(* waits for ever in a buffer it does not belong to any more.              *)
Rechecked ==
  \A b \in Waiting, h \in Heights :
    (h \in known /\ At(b, h) # {}) ~> At(b, h) = {}
=============================================================================
