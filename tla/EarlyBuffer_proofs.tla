------------------------- MODULE EarlyBuffer_proofs -------------------------
(***************************************************************************)
(* What the early-vote buffers promise, for every set of voters, heights   *)
(* and snapshots and for all caps.                                         *)
(*                                                                         *)
(* The lemmas say what the operations of a buffer do to its parts; fair    *)
(* share rests on counting: when every voter holds at most c votes, there  *)
(* are at most c votes per voter.  The inductive invariant adds what the   *)
(* network task's vote and the votes taken for promotion are entitled to.  *)
(***************************************************************************)
EXTENDS EarlyBuffer, FiniteSetTheorems, TLAPS

----------------------------------------------------------------------------
(* Finite sets                                                             *)

(* A set of naturals that is not empty has a least element.                *)
LEMMA LeastNatural ==
  ASSUME NEW N, N \subseteq Nat, N # {}
  PROVE  \E n \in N : \A m \in N : n <= m
<1>1. PICK n \in N : \A m \in N : ~(<<m, n>> \in OpToRel(<, Nat))
  BY WFMin, NatLessThanWellFounded, Zenon
<1>2. \A m \in N : ~(m < n)
  BY <1>1, Zenon DEF OpToRel
<1> QED
  BY <1>2

(* A finite set of integers that is not empty has a greatest element: one  *)
(* with the fewest elements over it.                                       *)
LEMMA FiniteHasMax ==
  ASSUME NEW T, IsFiniteSet(T), T \subseteq Int, T # {}
  PROVE  \E m \in T : \A x \in T : x <= m
<1> DEFINE Over(m) == {x \in T : m < x}
           Sizes == {Cardinality(Over(m)) : m \in T}
<1>1. \A m \in T : IsFiniteSet(Over(m)) /\ Cardinality(Over(m)) \in Nat
  BY FS_Subset, FS_CardinalityType
<1>2. PICK m \in T : \A x \in T : Cardinality(Over(m)) <= Cardinality(Over(x))
  <2>1. Sizes \subseteq Nat /\ Sizes # {}
    BY <1>1, Zenon
  <2>2. PICK n \in Sizes : \A k \in Sizes : n <= k
    BY <2>1, LeastNatural, Zenon
  <2> QED
    BY <2>2, Zenon
<1>3. ASSUME NEW y \in T, m < y PROVE FALSE
  <2>1. Over(y) \subseteq Over(m) /\ y \in Over(m) /\ y \notin Over(y)
    <3>1. m \in Int /\ y \in Int /\ \A x \in T : x \in Int
      OBVIOUS
    <3>2. ~(y < y) /\ \A x \in T : y < x => m < x
      BY <1>3, <3>1
    <3> QED
      BY <1>3, <3>2, Zenon
  <2>2. Cardinality(Over(y)) < Cardinality(Over(m))
    <3> HIDE DEF Over
    <3> QED
      BY <1>1, <2>1, FS_Subset
  <2> QED
    BY <1>1, <1>2, <2>2
<1> QED
  BY <1>3

----------------------------------------------------------------------------
(* The parts of a buffer                                                   *)

(* Leaves that name no prover go to SMT, with time to encode the buffers.  *)
USE SMTT(20)

Vote == Heights \X Hashes \X Voters

BufferType(B) ==
  B \in [votes : SUBSET Vote, of : [Voters -> [Heights -> Hashes \union {None}]],
         arrival : SUBSET (Voters \X Voters), len : Int]

Whole(B) == BufferType(B) /\ Consistent(B)

Sound(b, B) ==
  /\ Whole(B)
  /\ B.len <= Total[b]
  /\ \A w \in Voters : Count(B, w) <= PerVoter[b]

----------------------------------------------------------------------------
(* Counting                                                                *)

(* A voter's heights are finitely many numbers.                            *)
LEMMA HeightsOfFinite ==
  ASSUME NEW B, NEW w
  PROVE  /\ HeightsOf(B, w) \subseteq Heights /\ HeightsOf(B, w) \subseteq Nat
         /\ IsFiniteSet(HeightsOf(B, w)) /\ Count(B, w) \in Nat
         /\ Count(B, w) = 0 <=> HeightsOf(B, w) = {}
<1>1. HeightsOf(B, w) \subseteq Heights
  BY DEF HeightsOf
<1>2. IsFiniteSet(HeightsOf(B, w))
  BY <1>1, VotesAssumption, FS_Subset
<1>3. Count(B, w) \in Nat /\ (Count(B, w) = 0 <=> HeightsOf(B, w) = {})
  BY <1>2, FS_CardinalityType, FS_EmptySet DEF Count
<1> QED BY <1>1, <1>2, <1>3, VotesAssumption, Zenon

(* farthest is a height the voter has a vote at.                           *)
LEMMA FarthestHeld ==
  ASSUME NEW B, NEW w, HeightsOf(B, w) # {}
  PROVE  /\ Farthest(B, w) \in HeightsOf(B, w)
         /\ \A g \in HeightsOf(B, w) : g <= Farthest(B, w)
<1>1. HeightsOf(B, w) \subseteq Int /\ IsFiniteSet(HeightsOf(B, w))
  BY HeightsOfFinite
<1>2. \E h \in HeightsOf(B, w) : \A g \in HeightsOf(B, w) : g <= h
  BY <1>1, FiniteHasMax
<1> QED BY <1>2 DEF Farthest

(* The place of a height among a voter's.                                  *)
Place(B, w, h) == Cardinality({g \in HeightsOf(B, w) : g <= h})

(* Different heights of a voter have different places, at most as many as  *)
(* it holds votes.                                                         *)
LEMMA PlacesDiffer ==
  ASSUME NEW B, NEW w, NEW h \in HeightsOf(B, w), NEW k \in HeightsOf(B, w)
  PROVE  /\ Place(B, w, h) \in 1..Count(B, w)
         /\ Place(B, w, h) = Place(B, w, k) => h = k
<1> DEFINE H == HeightsOf(B, w)
           Upto(n) == {g \in H : g <= n}
<1>1. H \subseteq Nat /\ IsFiniteSet(H)
  BY HeightsOfFinite
<1> HIDE DEF H
<1>2. ASSUME NEW n \in H
      PROVE  IsFiniteSet(Upto(n)) /\ Cardinality(Upto(n)) \in 1..Cardinality(H)
  <2>1. IsFiniteSet(Upto(n)) /\ Cardinality(Upto(n)) <= Cardinality(H)
    BY <1>1, FS_Subset
  <2>2. n \in Upto(n)
    BY <1>1
  <2>3. Cardinality(Upto(n)) \in Nat /\ Cardinality(H) \in Nat
    BY <1>1, <2>1, FS_CardinalityType
  <2>4. Cardinality(Upto(n)) # 0
    BY <2>1, <2>2, FS_EmptySet
  <2> QED BY <2>1, <2>3, <2>4
<1>3. ASSUME NEW m \in H, NEW n \in H, m < n
      PROVE  Cardinality(Upto(m)) # Cardinality(Upto(n))
  <2>1. Upto(m) \subseteq Upto(n) /\ n \in Upto(n) /\ n \notin Upto(m)
    <3>1. m \in Nat /\ n \in Nat /\ \A g \in H : g \in Nat
      BY <1>1
    <3>2. n <= n /\ ~(n <= m) /\ \A g \in H : g <= m => g <= n
      BY <3>1, <1>3
    <3> QED BY <3>2
  <2>2. IsFiniteSet(Upto(n))
    BY <1>2
  <2> HIDE DEF Upto
  <2> QED BY <2>1, <2>2, FS_Subset
<1>4. h \in H /\ k \in H /\ h \in Nat /\ k \in Nat
  BY <1>1 DEF H
<1>5. h = k \/ h < k \/ k < h
  BY <1>4
<1>6. Place(B, w, h) = Cardinality(Upto(h)) /\ Place(B, w, k) = Cardinality(Upto(k)) /\ Count(B, w) = Cardinality(H)
  BY DEF Place, Count, H
<1> QED BY <1>2, <1>3, <1>4, <1>5, <1>6

(* Every vote held is one of the index.                                    *)
LEMMA HeldIsIndexed ==
  ASSUME NEW B, Whole(B), NEW v \in B.votes
  PROVE  /\ v \in Vote /\ v = <<v[1], v[2], v[3]>>
         /\ v[3] \in Voters /\ v[1] \in HeightsOf(B, v[3]) /\ v[2] = B.of[v[3]][v[1]]
<1>1. v \in Vote /\ B.of[v[3]][v[1]] = v[2]
  BY DEF Whole, BufferType, Consistent
<1> QED BY <1>1, VotesAssumption DEF Vote, HeightsOf

(* There are finitely many votes.                                          *)
LEMMA VotesFinite ==
  ASSUME NEW B, Whole(B)
  PROVE  IsFiniteSet(B.votes)
<1> DEFINE f == [v \in B.votes |-> <<v[3], v[1]>>]
<1>1. \A v \in B.votes : f[v] \in Voters \X Heights
  BY HeldIsIndexed DEF HeightsOf
<1>2. \A u, v \in B.votes : f[u] = f[v] => u = v
  <2> SUFFICES ASSUME NEW u \in B.votes, NEW v \in B.votes, u[3] = v[3], u[1] = v[1] PROVE u = v
    OBVIOUS
  <2>1. u[2] = v[2]
    BY HeldIsIndexed
  <2> QED BY <2>1, HeldIsIndexed
<1>3. f \in Injection(B.votes, Voters \X Heights)
  BY <1>1, <1>2, Zenon DEF Injection, IsInjective
<1>4. IsFiniteSet(Voters \X Heights)
  BY VotesAssumption, FS_Product
<1> QED BY <1>3, <1>4, FS_Injection

(* If none of the voters of S holds more than c votes, together they hold  *)
(* at most c times their number.                                           *)
LEMMA AtMostEach ==
  ASSUME NEW B, Whole(B), NEW S \in SUBSET Voters, NEW c \in Nat,
         \A w \in S : Count(B, w) <= c
  PROVE  Cardinality({v \in B.votes : v[3] \in S}) <= Cardinality(S) * c
<1> DEFINE V == {v \in B.votes : v[3] \in S}
           f == [v \in V |-> <<v[3], Place(B, v[3], v[1])>>]
<1>1. \A v \in V : f[v] \in S \X (1..c)
  <2> SUFFICES ASSUME NEW v \in V PROVE Place(B, v[3], v[1]) \in 1..c
    OBVIOUS
  <2>1. v[1] \in HeightsOf(B, v[3])
    BY HeldIsIndexed
  <2>2. Place(B, v[3], v[1]) \in 1..Count(B, v[3])
    BY <2>1, PlacesDiffer
  <2> QED BY <2>2, HeightsOfFinite
<1>2. \A u, v \in V : f[u] = f[v] => u = v
  <2> SUFFICES ASSUME NEW u \in V, NEW v \in V, u[3] = v[3],
                      Place(B, u[3], u[1]) = Place(B, v[3], v[1])
               PROVE u = v
    OBVIOUS
  <2>1. u[1] \in HeightsOf(B, u[3]) /\ v[1] \in HeightsOf(B, u[3])
    BY HeldIsIndexed
  <2>2. u[1] = v[1]
    BY <2>1, PlacesDiffer
  <2>3. u[2] = v[2]
    BY <2>2, HeldIsIndexed
  <2> QED BY <2>2, <2>3, HeldIsIndexed
<1>3. f \in Injection(V, S \X (1..c))
  BY <1>1, <1>2, Zenon DEF Injection, IsInjective
<1>4. IsFiniteSet(S) /\ IsFiniteSet(1..c) /\ Cardinality(1..c) = c
  BY VotesAssumption, FS_Subset, FS_Interval
<1>5. IsFiniteSet(S \X (1..c)) /\ Cardinality(S \X (1..c)) = Cardinality(S) * c
  BY <1>4, FS_Product
<1> HIDE DEF f, V
<1>6. Cardinality(V) <= Cardinality(S \X (1..c))
  BY <1>3, <1>5, FS_Injection
<1> QED BY <1>5, <1>6 DEF V

----------------------------------------------------------------------------
(* The operations of a buffer                                              *)

(* The voters that stay keep their order.                                  *)
LEMMA AmongOrdered ==
  ASSUME NEW a, NEW S, Ordered(a, S), NEW X
  PROVE  Ordered(Among(a, X), S \intersect X)
<1>1. \A u, w \in S \intersect X : <<u, w>> \in Among(a, X) <=> <<u, w>> \in a
  BY DEF Among
<1>2. Among(a, X) \subseteq (S \intersect X) \X (S \intersect X)
  BY DEF Among, Ordered
<1> QED BY <1>1, <1>2 DEF Ordered

(* Those with a place in the order are those with a vote.                  *)
LEMMA HoldersArrived ==
  ASSUME NEW B, Whole(B)
  PROVE  {u \in Voters : <<u, u>> \in B.arrival} = Holders(B)
BY DEF Whole, Consistent, Ordered, Holders

(* remove_entry takes one vote of one voter out of all parts.              *)
LEMMA RemoveEntryKeeps ==
  ASSUME NEW B, Whole(B), NEW w \in Voters, NEW h \in HeightsOf(B, w)
  PROVE  LET R == RemoveEntry(B, w, h)
         IN /\ Whole(R) /\ R.len = B.len - 1 /\ R.votes \subseteq B.votes
            /\ Count(R, w) = Count(B, w) - 1
            /\ \A u \in Voters \ {w} : Count(R, u) = Count(B, u)
            /\ R.of[w][h] = None /\ \A u \in Voters, g \in Heights : R.of[u][g] \in {None, B.of[u][g]}
<1> DEFINE R == RemoveEntry(B, w, h)
           of == [B.of EXCEPT ![w][h] = None]
           v == <<h, B.of[w][h], w>>
<1>1. B.of \in [Voters -> [Heights -> Hashes \union {None}]] /\ h \in Heights /\ B.of[w][h] # None
  BY DEF Whole, BufferType, HeightsOf
<1>2. v \in Vote /\ v \in B.votes
  BY <1>1 DEF Vote, Whole, Consistent
<1>3. of \in [Voters -> [Heights -> Hashes \union {None}]]
  BY <1>1
<1>4. of[w][h] = None /\ \A u \in Voters, g \in Heights : u # w \/ g # h => of[u][g] = B.of[u][g]
  BY <1>1
<1>5. R.votes = B.votes \ {v} /\ R.of = of /\ R.len = B.len - 1
      /\ R.arrival = IF \A g \in Heights : of[w][g] = None THEN Among(B.arrival, Voters \ {w}) ELSE B.arrival
  BY DEF RemoveEntry
<1>6. R \in [votes : SUBSET Vote, of : [Voters -> [Heights -> Hashes \union {None}]],
             arrival : SUBSET (Voters \X Voters), len : Int]
  <2>1. R = [votes |-> R.votes, of |-> R.of, arrival |-> R.arrival, len |-> R.len]
    BY DEF RemoveEntry
  <2>2. R.votes \subseteq Vote /\ R.len \in Int
    BY <1>5 DEF Whole, BufferType
  <2>3. R.arrival \subseteq Voters \X Voters
    BY <1>5 DEF Whole, BufferType, Among
  <2> HIDE DEF R, of
  <2> QED BY <1>3, <1>5, <2>1, <2>2, <2>3, Zenon
<1> HIDE DEF R, of
<1>7. HeightsOf(R, w) = HeightsOf(B, w) \ {h} /\ \A u \in Voters \ {w} : HeightsOf(R, u) = HeightsOf(B, u)
  BY <1>4, <1>5 DEF HeightsOf
<1>8. Count(R, w) = Count(B, w) - 1 /\ \A u \in Voters \ {w} : Count(R, u) = Count(B, u)
  <2>1. Cardinality(HeightsOf(B, w) \ {h}) = Cardinality(HeightsOf(B, w)) - 1
    BY HeightsOfFinite, FS_RemoveElement, Zenon
  <2> QED BY <1>7, <2>1 DEF Count
<1>9. R.votes = {u \in Vote : of[u[3]][u[1]] = u[2]}
  <2>1. \A u \in Vote : u \in B.votes <=> B.of[u[3]][u[1]] = u[2]
    BY DEF Whole, Consistent, Vote
  <2>2. \A u \in Vote : u[3] \in Voters /\ u[1] \in Heights /\ u[2] # None /\ u = <<u[1], u[2], u[3]>>
    BY VotesAssumption DEF Vote
  <2>3. \A u \in Vote : u # v /\ B.of[u[3]][u[1]] = u[2] <=> of[u[3]][u[1]] = u[2]
    BY <1>4, <2>2
  <2>4. B.votes \subseteq Vote /\ R.votes = B.votes \ {v}
    BY <1>5 DEF Whole, BufferType
  <2> HIDE DEF v
  <2> QED BY <2>1, <2>3, <2>4
<1>10. R.len = Cardinality(R.votes)
  <2>1. IsFiniteSet(B.votes) /\ B.len = Cardinality(B.votes)
    BY VotesFinite, Zenon DEF Whole, Consistent
  <2> HIDE DEF v
  <2>2. Cardinality(B.votes \ {v}) = Cardinality(B.votes) - 1
    BY <1>2, <2>1, FS_RemoveElement, Zenon
  <2> QED BY <1>5, <2>1, <2>2
<1>11. Ordered(R.arrival, Holders(R))
  <2>1. Ordered(B.arrival, Holders(B))
    BY DEF Whole, Consistent
  <2>2. CASE \A g \in Heights : of[w][g] = None
    <3>1. Holders(R) = Holders(B) \intersect (Voters \ {w})
      <4>1. HeightsOf(R, w) = {}
        BY <1>5, <2>2 DEF HeightsOf
      <4> QED BY <4>1, <1>7 DEF Holders
    <3>2. R.arrival = Among(B.arrival, Voters \ {w})
      BY <1>5, <2>2
    <3> QED BY <2>1, <3>1, <3>2, AmongOrdered
  <2>3. CASE ~(\A g \in Heights : of[w][g] = None)
    <3>1. HeightsOf(R, w) # {}
      BY <1>5, <2>3 DEF HeightsOf
    <3>2. Holders(R) = Holders(B)
      BY <1>7, <3>1 DEF Holders
    <3>3. R.arrival = B.arrival
      BY <1>5, <2>3
    <3> QED BY <2>1, <3>2, <3>3
  <2> QED BY <2>2, <2>3
<1>12. Whole(R)
  BY <1>5, <1>6, <1>9, <1>10, <1>11 DEF Whole, BufferType, Consistent, Vote
<1>13. R.of[w][h] = None /\ \A u \in Voters, g \in Heights : R.of[u][g] \in {None, B.of[u][g]}
  BY <1>4, <1>5
<1> QED BY <1>5, <1>8, <1>12, <1>13 DEF R

(* The last part of insert puts one vote into all parts.                   *)
LEMMA AddKeeps ==
  ASSUME NEW B, Whole(B), NEW v \in Vote, B.of[v[3]][v[1]] = None
  PROVE  LET A == Add(B, v)
         IN /\ Whole(A) /\ A.len = B.len + 1 /\ A.votes = B.votes \union {v}
            /\ Count(A, v[3]) = Count(B, v[3]) + 1
            /\ \A u \in Voters \ {v[3]} : Count(A, u) = Count(B, u)
<1> DEFINE A == Add(B, v)
           w == v[3]
           h == v[1]
           here == {u \in Voters : <<u, u>> \in B.arrival}
           of == [B.of EXCEPT ![w][h] = v[2]]
<1>1. B.of \in [Voters -> [Heights -> Hashes \union {None}]]
  BY DEF Whole, BufferType
<1>2. w \in Voters /\ h \in Heights /\ v[2] \in Hashes /\ v[2] # None
  BY VotesAssumption DEF Vote
<1>3. of \in [Voters -> [Heights -> Hashes \union {None}]]
  BY <1>1, <1>2
<1>4. of[w][h] = v[2] /\ \A u \in Voters, g \in Heights : u # w \/ g # h => of[u][g] = B.of[u][g]
  BY <1>1, <1>2
<1>5. A.votes = B.votes \union {v} /\ A.of = of /\ A.len = B.len + 1
      /\ A.arrival = IF w \in here THEN B.arrival ELSE B.arrival \union ((here \union {w}) \X {w})
  BY DEF Add
<1>6. A \in [votes : SUBSET Vote, of : [Voters -> [Heights -> Hashes \union {None}]],
             arrival : SUBSET (Voters \X Voters), len : Int]
  <2>1. A = [votes |-> A.votes, of |-> A.of, arrival |-> A.arrival, len |-> A.len]
    BY DEF Add
  <2>2. A.votes \subseteq Vote /\ A.len \in Int
    BY <1>5 DEF Whole, BufferType
  <2>3. A.arrival \subseteq Voters \X Voters
    BY <1>2, <1>5 DEF Whole, BufferType
  <2> HIDE DEF A, of
  <2> QED BY <1>3, <1>5, <2>1, <2>2, <2>3, Zenon
<1>7. here = Holders(B)
  BY HoldersArrived
<1>8. v \notin B.votes
  <2>1. v \in B.votes => B.of[w][h] = v[2]
    BY DEF Whole, Consistent
  <2> QED BY <1>2, <2>1
<1> HIDE DEF A, of, here
<1>9. HeightsOf(A, w) = HeightsOf(B, w) \union {h} /\ h \notin HeightsOf(B, w)
      /\ \A u \in Voters \ {w} : HeightsOf(A, u) = HeightsOf(B, u)
  BY <1>2, <1>4, <1>5 DEF HeightsOf
<1>10. Count(A, w) = Count(B, w) + 1 /\ \A u \in Voters \ {w} : Count(A, u) = Count(B, u)
  <2>1. Cardinality(HeightsOf(B, w) \union {h}) = Cardinality(HeightsOf(B, w)) + 1
    BY <1>9, HeightsOfFinite, FS_AddElement, Zenon
  <2> QED BY <1>9, <2>1 DEF Count
<1>11. A.votes = {u \in Vote : of[u[3]][u[1]] = u[2]}
  <2>1. \A u \in Vote : u \in B.votes <=> B.of[u[3]][u[1]] = u[2]
    BY DEF Whole, Consistent, Vote
  <2>2. \A u \in Vote : u[3] \in Voters /\ u[1] \in Heights /\ u[2] # None /\ u = <<u[1], u[2], u[3]>>
    BY VotesAssumption DEF Vote
  <2>3. \A u \in Vote : u = v \/ B.of[u[3]][u[1]] = u[2] <=> of[u[3]][u[1]] = u[2]
    BY <1>4, <2>2
  <2> QED BY <1>5, <2>1, <2>3 DEF Whole, BufferType
<1>12. A.len = Cardinality(A.votes)
  <2>1. IsFiniteSet(B.votes) /\ B.len = Cardinality(B.votes)
    BY VotesFinite, Zenon DEF Whole, Consistent
  <2> QED BY <1>5, <1>8, <2>1, FS_AddElement, Zenon
<1>13. Ordered(A.arrival, Holders(A))
  <2>1. Ordered(B.arrival, Holders(B))
    BY DEF Whole, Consistent
  <2>2. Holders(A) = Holders(B) \union {w}
    BY <1>2, <1>9 DEF Holders
  <2>3. CASE w \in here
    BY <1>5, <1>7, <2>1, <2>2, <2>3, Zenon
  <2>4. CASE w \notin here
    <3>1. A.arrival = B.arrival \union ((Holders(B) \union {w}) \X {w})
      BY <1>5, <1>7, <2>4
    <3>2. w \notin Holders(B)
      BY <1>7, <2>4
    <3> QED BY <2>1, <2>2, <3>1, <3>2 DEF Ordered
  <2> QED BY <2>3, <2>4
<1>14. Whole(A)
  BY <1>5, <1>6, <1>11, <1>12, <1>13 DEF Whole, BufferType, Consistent, Vote
<1> QED BY <1>5, <1>10, <1>14 DEF A

(* take_keys takes all votes of some heights out of all parts.             *)
LEMMA TakeHeightsKeeps ==
  ASSUME NEW B, Whole(B), NEW H
  PROVE  LET T == TakeHeights(B, H)
         IN /\ Whole(T) /\ T.len <= B.len /\ T.votes = {v \in B.votes : v[1] \notin H}
            /\ \A u \in Voters : Count(T, u) <= Count(B, u)
<1> DEFINE T == TakeHeights(B, H)
           of == [w \in Voters |-> [h \in Heights |-> IF h \in H THEN None ELSE B.of[w][h]]]
           X == {w \in Voters : \E h \in Heights : of[w][h] # None}
           gone == {v \in B.votes : v[1] \in H}
<1>1. B.of \in [Voters -> [Heights -> Hashes \union {None}]] /\ B.votes \subseteq Vote
  BY DEF Whole, BufferType
<1>2. of \in [Voters -> [Heights -> Hashes \union {None}]]
  BY <1>1
<1>3. \A w \in Voters, h \in Heights : of[w][h] = IF h \in H THEN None ELSE B.of[w][h]
  OBVIOUS
<1>4. T.votes = {v \in B.votes : v[1] \notin H} /\ T.of = of /\ T.arrival = Among(B.arrival, X)
      /\ T.len = B.len - Cardinality(gone)
  BY DEF TakeHeights
<1>5. IsFiniteSet(B.votes) /\ B.len = Cardinality(B.votes)
  BY VotesFinite, Zenon DEF Whole, Consistent
<1>6. Cardinality(gone) \in Nat /\ Cardinality(B.votes) \in Nat
  BY <1>5, FS_Subset, FS_CardinalityType
<1>7. T \in [votes : SUBSET Vote, of : [Voters -> [Heights -> Hashes \union {None}]],
             arrival : SUBSET (Voters \X Voters), len : Int]
  <2>1. T = [votes |-> T.votes, of |-> T.of, arrival |-> T.arrival, len |-> T.len]
    BY DEF TakeHeights
  <2>2. T.votes \subseteq Vote /\ T.len \in Int
    BY <1>1, <1>4, <1>5, <1>6
  <2>3. T.arrival \subseteq Voters \X Voters
    BY <1>4 DEF Whole, BufferType, Among
  <2> HIDE DEF T, of
  <2> QED BY <1>2, <1>4, <2>1, <2>2, <2>3
<1> HIDE DEF T, of
<1>8. \A u \in Voters : HeightsOf(T, u) \subseteq HeightsOf(B, u)
  BY <1>3, <1>4 DEF HeightsOf
<1>9. \A u \in Voters : Count(T, u) <= Count(B, u)
  BY <1>8, HeightsOfFinite, FS_Subset DEF Count
<1>10. T.votes = {v \in Vote : of[v[3]][v[1]] = v[2]}
  <2>1. \A v \in Vote : v \in B.votes <=> B.of[v[3]][v[1]] = v[2]
    BY DEF Whole, Consistent, Vote
  <2>2. \A v \in Vote : v[3] \in Voters /\ v[1] \in Heights /\ v[2] # None
    BY VotesAssumption DEF Vote
  <2>3. \A v \in Vote : v[1] \notin H /\ B.of[v[3]][v[1]] = v[2] <=> of[v[3]][v[1]] = v[2]
    BY <1>3, <2>2
  <2> QED BY <1>1, <1>4, <2>1, <2>3
<1>11. T.len = Cardinality(T.votes)
  <2>1. T.votes = B.votes \ gone /\ B.votes \intersect gone = gone
    BY <1>4
  <2> HIDE DEF gone
  <2>2. Cardinality(B.votes \ gone) = Cardinality(B.votes) - Cardinality(B.votes \intersect gone)
    BY <1>5, FS_Difference, Zenon
  <2> QED BY <1>4, <1>5, <2>1, <2>2, Zenon
<1>12. Ordered(T.arrival, Holders(T))
  <2>1. Ordered(B.arrival, Holders(B))
    BY DEF Whole, Consistent
  <2>2. Holders(T) = X
    BY <1>4 DEF Holders, HeightsOf
  <2>3. X \subseteq Holders(B)
    BY <1>8, <2>2 DEF Holders
  <2> HIDE DEF X
  <2>4. Holders(B) \intersect X = X
    BY <2>3
  <2>5. Ordered(Among(B.arrival, X), Holders(B) \intersect X)
    BY <2>1, AmongOrdered
  <2> QED BY <1>4, <2>2, <2>4, <2>5, Zenon
<1>13. Whole(T)
  BY <1>4, <1>7, <1>10, <1>11, <1>12 DEF Whole, BufferType, Consistent, Vote
<1>14. T.len <= B.len
  BY <1>4, <1>5, <1>6
<1> QED BY <1>4, <1>9, <1>13, <1>14 DEF T

(* Among finitely many voters in an order there is a last one.             *)
LEMMA LastOfOrder ==
  ASSUME NEW a, NEW S, Ordered(a, S), IsFiniteSet(S), NEW M \in SUBSET S, M # {}
  PROVE  \E u \in M : \A w \in M : <<w, u>> \in a
<1> DEFINE Upto(u) == {w \in M : <<w, u>> \in a}
           Ranks == {n \in Nat : \E u \in M : n = Cardinality(Upto(u))}
<1>1. IsFiniteSet(M)
  BY FS_Subset
<1>2. \A u \in M : IsFiniteSet(Upto(u)) /\ Cardinality(Upto(u)) \in Nat /\ Cardinality(Upto(u)) <= Cardinality(M)
  BY <1>1, FS_Subset, FS_CardinalityType, Zenon
<1>3. Ranks # {} /\ Ranks \subseteq Nat
  BY <1>2, Zenon
<1>4. IsFiniteSet(Ranks)
  <2>1. Ranks \in SUBSET Nat /\ \A n \in Ranks : n <= Cardinality(M)
    BY <1>2, Zenon
  <2>2. Cardinality(M) \in Nat
    BY <1>1, FS_CardinalityType
  <2> HIDE DEF Ranks
  <2> QED BY <2>1, <2>2, FS_BoundedSetOfNaturals, Zenon
<1>5. PICK n \in Ranks : \A m \in Ranks : m <= n
  <2>1. Ranks \subseteq Int
    OBVIOUS
  <2> HIDE DEF Ranks
  <2> QED BY <1>3, <1>4, <2>1, FiniteHasMax, Zenon
<1>6. PICK u \in M : n = Cardinality(Upto(u))
  OBVIOUS
<1>7. ASSUME NEW w \in M, <<w, u>> \notin a PROVE FALSE
  <2>1. <<u, w>> \in a /\ <<w, w>> \in a
    BY <1>7 DEF Ordered
  <2>2. Upto(u) \subseteq Upto(w)
    BY <2>1 DEF Ordered
  <2>3. w \in Upto(w) /\ w \notin Upto(u)
    BY <1>7, <2>1
  <2>4. Cardinality(Upto(w)) <= Cardinality(Upto(u)) /\ Cardinality(Upto(w)) \in Nat
    BY <1>2, <1>5, <1>6, Zenon
  <2>5. IsFiniteSet(Upto(w)) /\ Cardinality(Upto(u)) \in Nat
    BY <1>2, Zenon
  <2> HIDE DEF Upto
  <2>6. Cardinality(Upto(u)) <= Cardinality(Upto(w)) /\ Cardinality(Upto(w)) # Cardinality(Upto(u))
    BY <2>2, <2>3, <2>5, FS_Subset
  <2> QED BY <2>4, <2>5, <2>6
<1> QED BY <1>7

(* insert's victim holds as many votes as anybody.                         *)
LEMMA HeaviestHolds ==
  ASSUME NEW B, Whole(B), Holders(B) # {}
  PROVE  /\ Heaviest(B) \in Holders(B)
         /\ \A w \in Voters : Count(B, w) <= Count(B, Heaviest(B))
<1> DEFINE Counts == {n \in 0..Cardinality(Heights) : \E w \in Holders(B) : n = Count(B, w)}
           Best(u) == \A w \in Holders(B) :
                        \/ Count(B, u) > Count(B, w)
                        \/ Count(B, u) = Count(B, w) /\ <<w, u>> \in B.arrival
<1>1. \A w : Count(B, w) \in 0..Cardinality(Heights)
  <2>1. \A w : HeightsOf(B, w) \subseteq Heights
    BY HeightsOfFinite
  <2> QED BY <2>1, VotesAssumption, FS_Subset, FS_CardinalityType DEF Count
<1>2. PICK n \in Counts : \A m \in Counts : m <= n
  <2> DEFINE I == 0..Cardinality(Heights)
  <2>1. Counts \subseteq I /\ Counts \subseteq Int /\ Counts # {}
    BY <1>1
  <2>2. IsFiniteSet(I)
    <3>1. Cardinality(Heights) \in Int /\ 0 \in Int
      BY VotesAssumption, FS_CardinalityType
    <3> QED BY <3>1, FS_Interval
  <2> HIDE DEF Counts, I
  <2>3. IsFiniteSet(Counts)
    BY <2>1, <2>2, FS_Subset, Zenon
  <2> QED BY <2>1, <2>3, FiniteHasMax, Zenon
<1> DEFINE M == {w \in Holders(B) : Count(B, w) = n}
<1>3. \A w \in Holders(B) : Count(B, w) <= n
  BY <1>1, <1>2
<1>4. PICK u \in M : \A w \in M : <<w, u>> \in B.arrival
  <2>1. M # {} /\ M \in SUBSET Holders(B)
    OBVIOUS
  <2>2. IsFiniteSet(Holders(B))
    BY VotesAssumption, FS_Subset DEF Holders
  <2>3. Ordered(B.arrival, Holders(B))
    BY DEF Whole, Consistent
  <2> HIDE DEF M
  <2> QED BY <2>1, <2>2, <2>3, LastOfOrder
<1>5. u \in Holders(B) /\ Best(u)
  BY <1>1, <1>3, <1>4
<1>6. Heaviest(B) \in Holders(B) /\ Best(Heaviest(B))
  <2>1. Heaviest(B) = CHOOSE k \in Holders(B) : Best(k)
    BY DEF Heaviest
  <2> HIDE DEF Best
  <2> QED BY <1>5, <2>1
<1>7. ASSUME NEW w \in Voters PROVE Count(B, w) <= Count(B, Heaviest(B))
  <2>1. Count(B, Heaviest(B)) \in Nat /\ Count(B, w) \in Nat
    BY HeightsOfFinite
  <2>2. CASE w \in Holders(B)
    <3>1. Count(B, Heaviest(B)) > Count(B, w) \/ Count(B, Heaviest(B)) = Count(B, w)
      BY <1>6, <2>2, Zenon
    <3> QED BY <2>1, <3>1
  <2>3. CASE w \notin Holders(B)
    <3>1. Count(B, w) = 0
      BY <2>3, HeightsOfFinite DEF Holders
    <3> QED BY <2>1, <3>1
  <2> QED BY <2>2, <2>3
<1> QED BY <1>6, <1>7

(* A buffer that holds anything has holders.                               *)
LEMMA SomeHolder ==
  ASSUME NEW B, Whole(B), B.len > 0
  PROVE  Holders(B) # {}
<1>1. B.votes # {}
  <2>1. B.len = Cardinality(B.votes)
    BY DEF Whole, Consistent
  <2>2. Cardinality({}) = 0
    BY FS_EmptySet
  <2> QED BY <2>1, <2>2
<1>2. PICK v \in B.votes : TRUE
  BY <1>1
<1> QED BY <1>2, HeldIsIndexed DEF Holders

----------------------------------------------------------------------------
(* insert                                                                  *)

(* When somebody holds the most and more than w, the buffer holds fewer    *)
(* votes than that many for every voter.                                   *)
LEMMA HeavyShare ==
  ASSUME NEW B, Whole(B), NEW u \in Voters, NEW w \in Voters,
         Count(B, w) < Count(B, u), \A x \in Voters : Count(B, x) <= Count(B, u)
  PROVE  B.len < Count(B, u) * Cardinality(Voters)
<1> DEFINE mine == {v \in B.votes : v[3] \in {w}}
           rest == {v \in B.votes : v[3] \in Voters \ {w}}
           c == Count(B, u)
           n == Cardinality(Voters)
<1>1. c \in Nat /\ Count(B, w) \in Nat
  BY HeightsOfFinite
<1>2. /\ IsFiniteSet({w}) /\ Cardinality({w}) = 1
      /\ Cardinality(Voters \ {w}) = n - 1 /\ n \in Nat
  BY VotesAssumption, FS_Singleton, FS_RemoveElement, FS_CardinalityType, Zenon
<1>3. Cardinality(mine) <= 1 * Count(B, w)
  <2>1. {w} \in SUBSET Voters /\ \A x \in {w} : Count(B, x) <= Count(B, w)
    BY <1>1
  <2> QED BY <1>1, <1>2, <2>1, AtMostEach, Zenon
<1>4. Cardinality(rest) <= (n - 1) * c
  <2>1. Voters \ {w} \in SUBSET Voters /\ \A x \in Voters \ {w} : Count(B, x) <= c
    OBVIOUS
  <2>2. Cardinality(rest) <= Cardinality(Voters \ {w}) * c
    BY <1>1, <2>1, AtMostEach
  <2> QED BY <1>2, <2>2
<1>5. /\ IsFiniteSet(mine) /\ IsFiniteSet(rest)
      /\ Cardinality(mine) \in Nat /\ Cardinality(rest) \in Nat
  <2>1. IsFiniteSet(B.votes) /\ mine \subseteq B.votes /\ rest \subseteq B.votes
    BY VotesFinite
  <2> HIDE DEF mine, rest
  <2> QED BY <2>1, FS_Subset, FS_CardinalityType
<1>6. mine \union rest = B.votes /\ mine \intersect rest = {}
  BY DEF Whole, BufferType, Vote
<1>7. B.len = Cardinality(mine) + Cardinality(rest)
  <2>1. B.len = Cardinality(mine \union rest)
    BY <1>6, Zenon DEF Whole, Consistent
  <2> HIDE DEF mine, rest
  <2>2. Cardinality(mine \union rest) = Cardinality(mine) + Cardinality(rest) - Cardinality(mine \intersect rest)
    BY <1>5, FS_Union
  <2>3. Cardinality(mine \intersect rest) = 0
    BY <1>6, FS_EmptySet, Zenon
  <2> QED BY <1>5, <2>1, <2>2, <2>3
<1>8. (n - 1) * c = c * n - c
  <2> HIDE DEF n, c
  <2> QED BY <1>1, <1>2
<1>9. c * n \in Nat
  <2> HIDE DEF n, c
  <2> QED BY <1>1, <1>2
<1> HIDE DEF mine, rest
<1> QED BY <1>1, <1>3, <1>4, <1>5, <1>7, <1>8, <1>9

(* At the voter's own cap its farthest vote gives way.                     *)
Own(B, w, perVoter) == IF Count(B, w) >= perVoter THEN RemoveEntry(B, w, Farthest(B, w)) ELSE B

(* The voter is then below its cap, and the buffer below the total cap if  *)
(* a vote was given up.                                                    *)
LEMMA OwnKeeps ==
  ASSUME NEW b \in Buffers, NEW B, Sound(b, B), NEW w \in Voters
  PROVE  LET O == Own(B, w, PerVoter[b])
         IN /\ Whole(O) /\ O.votes \subseteq B.votes
            /\ O.len <= Total[b] /\ (Count(B, w) >= PerVoter[b] => O.len < Total[b])
            /\ Count(O, w) < PerVoter[b]
            /\ \A u \in Voters \ {w} : Count(O, u) = Count(B, u)
            /\ \A h \in Heights : B.of[w][h] = None => O.of[w][h] = None
<1>1. Count(B, w) \in Nat /\ PerVoter[b] \in Nat \ {0} /\ Total[b] \in Nat /\ Count(B, w) <= PerVoter[b]
  BY HeightsOfFinite, CapsAssumption DEF Sound
<1>2. Whole(B) /\ B.len <= Total[b] /\ B.len \in Int
  BY DEF Sound, Whole, BufferType
<1>3. CASE Count(B, w) >= PerVoter[b]
  <2> DEFINE O == RemoveEntry(B, w, Farthest(B, w))
  <2>1. Farthest(B, w) \in HeightsOf(B, w)
    <3>1. HeightsOf(B, w) # {}
      BY <1>1, <1>3, HeightsOfFinite
    <3> QED BY <3>1, FarthestHeld
  <2>2. /\ Whole(O) /\ O.len = B.len - 1 /\ O.votes \subseteq B.votes
        /\ Count(O, w) = Count(B, w) - 1
        /\ \A u \in Voters \ {w} : Count(O, u) = Count(B, u)
        /\ \A u \in Voters, g \in Heights : O.of[u][g] \in {None, B.of[u][g]}
    BY <1>2, <2>1, RemoveEntryKeeps
  <2>3. Own(B, w, PerVoter[b]) = O
    BY <1>3, Zenon DEF Own
  <2> HIDE DEF O
  <2> QED BY <1>1, <1>2, <2>2, <2>3
<1>4. CASE ~(Count(B, w) >= PerVoter[b])
  BY <1>1, <1>2, <1>4 DEF Own
<1> QED BY <1>3, <1>4, Zenon

(* Where there is room, or the heaviest voter makes some, one more vote    *)
(* fits; only the heaviest loses one, and not the newcomer's voter.        *)
Roomier(M, B, w, total) ==
  /\ Whole(M) /\ M.votes \subseteq B.votes /\ M.len < total
  /\ Count(M, w) = Count(B, w)
  /\ \A u \in Voters : \/ Count(M, u) = Count(B, u)
                       \/ /\ Count(M, u) < Count(B, u) /\ B.len = total
                          /\ Count(B, u) > Count(B, w)
                          /\ \A x \in Voters : Count(B, x) <= Count(B, u)
  /\ \A h \in Heights : B.of[w][h] = None => M.of[w][h] = None

(* MakeRoom does that where HasRoom says it can.                           *)
LEMMA RoomMade ==
  ASSUME NEW B, Whole(B), NEW w \in Voters, NEW total \in Nat \ {0}, B.len <= total,
         HasRoom(B, w, total)
  PROVE  Roomier(MakeRoom(B, total), B, w, total)
<1> DEFINE u == Heaviest(B)
           R == RemoveEntry(B, u, Farthest(B, u))
<1>1. B.len \in Int /\ \A x : Count(B, x) \in Nat
  BY HeightsOfFinite DEF Whole, BufferType
<1>2. CASE B.len < total
  BY <1>2, Zenon DEF MakeRoom, Roomier
<1>3. CASE ~(B.len < total)
  <2>1. B.len = total /\ Count(B, u) > Count(B, w)
    BY <1>1, <1>3 DEF HasRoom
  <2>2. Holders(B) # {}
    BY <1>1, <2>1, SomeHolder
  <2>3. u \in Holders(B) /\ \A x \in Voters : Count(B, x) <= Count(B, u)
    BY <2>2, HeaviestHolds
  <2>4. u \in Voters /\ HeightsOf(B, u) # {} /\ u # w
    BY <1>1, <2>1, <2>3 DEF Holders
  <2>5. Farthest(B, u) \in HeightsOf(B, u)
    BY <2>4, FarthestHeld, Zenon
  <2>6. /\ Whole(R) /\ R.len = B.len - 1 /\ R.votes \subseteq B.votes
        /\ Count(R, u) = Count(B, u) - 1
        /\ \A x \in Voters \ {u} : Count(R, x) = Count(B, x)
        /\ \A x \in Voters, g \in Heights : R.of[x][g] \in {None, B.of[x][g]}
    BY <2>4, <2>5, RemoveEntryKeeps
  <2>7. MakeRoom(B, total) = R
    BY <1>3 DEF MakeRoom
  <2> HIDE DEF R, u
  <2>8. Count(R, u) < Count(B, u) /\ R.len < total
    BY <1>1, <2>1, <2>6
  <2> QED BY <2>1, <2>3, <2>4, <2>6, <2>7, <2>8, Zenon DEF Roomier
<1> QED BY <1>2, <1>3

(* What insert does: nothing, or the voter's own farthest vote goes and    *)
(* there is no room, or the vote enters where room was made.               *)
LEMMA InsertIs ==
  ASSUME NEW b \in Buffers, NEW B, NEW v \in Vote
  PROVE  LET I == InsertInto(b, B, v)
             O == Own(B, v[3], PerVoter[b])
         IN \/ I = B
            \/ B.of[v[3]][v[1]] = None /\ I = O /\ ~HasRoom(O, v[3], Total[b])
            \/ /\ B.of[v[3]][v[1]] = None /\ HasRoom(O, v[3], Total[b])
               /\ I = Add(MakeRoom(O, Total[b]), v)
BY Zenon DEF InsertInto, Insert, Own

(* A buffer stays consistent and within its caps; at most the new vote is  *)
(* added, and another voter loses a vote only if it holds more than an     *)
(* equal split of the cap.                                                 *)
LEMMA InsertKeeps ==
  ASSUME NEW b \in Buffers, NEW B, Sound(b, B), NEW v \in Vote
  PROVE  LET I == InsertInto(b, B, v)
         IN /\ Sound(b, I) /\ I.votes \subseteq B.votes \union {v}
            /\ \A u \in Voters \ {v[3]} : Count(I, u) < Count(B, u) =>
                  Count(B, u) * Cardinality(Voters) > Total[b]
<1> DEFINE I == InsertInto(b, B, v)
           w == v[3]
           h == v[1]
           O == Own(B, w, PerVoter[b])
           M == MakeRoom(O, Total[b])
<1> SUFFICES /\ Sound(b, I) /\ I.votes \subseteq B.votes \union {v}
             /\ \A u \in Voters \ {w} : Count(I, u) < Count(B, u) =>
                   Count(B, u) * Cardinality(Voters) > Total[b]
  OBVIOUS
<1>1. /\ w \in Voters /\ h \in Heights
      /\ Total[b] \in Nat \ {0} /\ PerVoter[b] \in Nat \ {0}
  BY CapsAssumption DEF Vote
<1>2. \A X, u : Count(X, u) \in Nat
  BY HeightsOfFinite, Zenon
<1>3. /\ Whole(O) /\ O.votes \subseteq B.votes
      /\ O.len <= Total[b] /\ (Count(B, w) >= PerVoter[b] => O.len < Total[b])
      /\ Count(O, w) < PerVoter[b]
      /\ \A u \in Voters \ {w} : Count(O, u) = Count(B, u)
      /\ \A g \in Heights : B.of[w][g] = None => O.of[w][g] = None
  BY <1>1, OwnKeeps
<1>4. Whole(B) /\ B.len <= Total[b] /\ \A u \in Voters : Count(B, u) <= PerVoter[b]
  BY DEF Sound
<1>5. CASE I = B
  BY <1>2, <1>5
<1>6. CASE I = O
  <2>1. \A u \in Voters : Count(O, u) <= PerVoter[b]
    <3>1. Count(O, w) <= PerVoter[b]
      BY <1>1, <1>2, <1>3
    <3> QED BY <1>3, <1>4, <3>1, Zenon
  <2>2. \A u \in Voters \ {w} : ~(Count(O, u) < Count(B, u))
    BY <1>2, <1>3
  <2> HIDE DEF O, I
  <2> QED BY <1>3, <1>6, <2>1, <2>2, Zenon DEF Sound
<1>7. CASE B.of[w][h] = None /\ HasRoom(O, w, Total[b]) /\ I = Add(M, v)
  <2> HIDE DEF O, I
  <2>1. /\ Whole(M) /\ M.votes \subseteq O.votes /\ M.len < Total[b]
        /\ Count(M, w) = Count(O, w)
        /\ \A u \in Voters : \/ Count(M, u) = Count(O, u)
                             \/ /\ Count(M, u) < Count(O, u) /\ O.len = Total[b]
                                /\ Count(O, u) > Count(O, w)
                                /\ \A x \in Voters : Count(O, x) <= Count(O, u)
        /\ \A g \in Heights : O.of[w][g] = None => M.of[w][g] = None
    <3>1. Roomier(M, O, w, Total[b])
      BY ONLY <1>1, <1>3, <1>7, RoomMade, Zenon
    <3> HIDE DEF M
    <3> QED BY <3>1, Zenon DEF Roomier
  <2> HIDE DEF M
  <2>2. M.of[w][h] = None
    BY <1>1, <1>3, <1>7, <2>1, Zenon
  <2>3. /\ Whole(I) /\ I.len = M.len + 1 /\ I.votes = M.votes \union {v}
        /\ Count(I, w) = Count(M, w) + 1
        /\ \A u \in Voters \ {w} : Count(I, u) = Count(M, u)
    <3>1. LET A == Add(M, v)
          IN /\ Whole(A) /\ A.len = M.len + 1 /\ A.votes = M.votes \union {v}
             /\ Count(A, w) = Count(M, w) + 1
             /\ \A u \in Voters \ {w} : Count(A, u) = Count(M, u)
      BY <2>1, <2>2, AddKeeps, ZenonT(30)
    <3> QED BY <1>7, <3>1, Zenon
  <2>4. M.len \in Int
    BY <2>1, Zenon DEF Whole, BufferType
  <2>5. \A u \in Voters : Count(I, u) <= PerVoter[b]
    <3>1. Count(I, w) <= PerVoter[b]
      <4>1. Count(I, w) = Count(O, w) + 1 /\ Count(O, w) < PerVoter[b]
        BY <1>3, <2>1, <2>3, Zenon
      <4> QED BY <1>1, <1>2, <4>1
    <3>2. ASSUME NEW u \in Voters \ {w} PROVE Count(I, u) <= PerVoter[b]
      <4>1. Count(M, u) = Count(O, u) \/ Count(M, u) < Count(O, u)
        BY <2>1, Zenon
      <4>2. Count(I, u) = Count(M, u) /\ Count(O, u) <= PerVoter[b]
        BY <1>3, <1>4, <2>3, Zenon
      <4> QED BY <1>1, <1>2, <4>1, <4>2
    <3> QED BY <3>1, <3>2, Zenon
  <2>6. I.len <= Total[b]
    BY <1>1, <2>1, <2>3, <2>4
  <2>7. ASSUME NEW u \in Voters \ {w}, Count(I, u) < Count(B, u)
        PROVE  Count(B, u) * Cardinality(Voters) > Total[b]
    <3>1. Count(M, u) # Count(O, u)
      BY <1>2, <1>3, <2>3, <2>7
    <3>2. /\ O.len = Total[b] /\ Count(O, u) > Count(O, w)
          /\ \A x \in Voters : Count(O, x) <= Count(O, u)
      BY <2>1, <3>1
    <3>3. O.len < Count(O, u) * Cardinality(Voters)
      <4>1. Count(O, w) < Count(O, u)
        BY <1>2, <3>2
      <4> QED BY <1>1, <1>3, <3>2, <4>1, HeavyShare, Zenon
    <3>4. Count(O, u) = Count(B, u)
      BY <1>3
    <3>5. Cardinality(Voters) \in Nat
      BY VotesAssumption, FS_CardinalityType
    <3> DEFINE k == Count(B, u) * Cardinality(Voters)
    <3>6. k \in Nat
      BY <1>2, <3>5
    <3>7. Total[b] < k
      BY <3>2, <3>3, <3>4
    <3> HIDE DEF k
    <3>8. k > Total[b]
      BY <1>1, <3>6, <3>7, Zenon
    <3> QED BY <3>8 DEF k
  <2> QED BY <1>3, <2>1, <2>3, <2>5, <2>6, <2>7 DEF Sound
<1> QED BY <1>5, <1>6, <1>7, InsertIs, Zenon

(* A voter below its cap and its fair share of the total gets its vote in. *)
LEMMA InsertIsFair ==
  ASSUME NEW b \in Buffers, NEW B, Sound(b, B), NEW v \in Vote,
         Count(B, v[3]) < PerVoter[b], Count(B, v[3]) * Cardinality(Voters) < Total[b],
         B.of[v[3]][v[1]] = None
  PROVE  v \in InsertInto(b, B, v).votes
<1> DEFINE w == v[3]
           c == Count(B, w)
           n == Cardinality(Voters)
<1>1. w \in Voters /\ c \in Nat /\ n \in Nat /\ Total[b] \in Nat \ {0} /\ PerVoter[b] \in Nat
  BY VotesAssumption, CapsAssumption, HeightsOfFinite, FS_CardinalityType, Zenon DEF Vote
<1>2. Whole(B) /\ B.len \in Int /\ B.len <= Total[b]
  BY DEF Sound, Whole, BufferType
<1>3. HasRoom(B, w, Total[b])
  <2> SUFFICES ASSUME ~HasRoom(B, w, Total[b]) PROVE FALSE
    OBVIOUS
  <2>1. B.len = Total[b] /\ ~(Count(B, Heaviest(B)) > c)
    BY <1>1, <1>2 DEF HasRoom
  <2>2. \A x \in Voters : Count(B, x) <= Count(B, Heaviest(B))
    BY <1>1, <1>2, <2>1, SomeHolder, HeaviestHolds
  <2>3. \A x \in Voters : Count(B, x) <= c
    BY <1>1, <2>1, <2>2, HeightsOfFinite
  <2>4. Cardinality({x \in B.votes : x[3] \in Voters}) <= n * c
    BY <1>1, <1>2, <2>3, AtMostEach, Zenon
  <2>5. {x \in B.votes : x[3] \in Voters} = B.votes
    BY <1>2 DEF Whole, BufferType, Vote
  <2>6. B.len <= n * c
    BY <1>2, <2>4, <2>5, Zenon DEF Whole, Consistent
  <2>7. n * c = c * n /\ c * n \in Nat
    <3> HIDE DEF n, c
    <3> QED BY <1>1
  <2>8. c * n < Total[b]
    OBVIOUS
  <2> HIDE DEF n, c
  <2> QED BY <1>1, <2>1, <2>6, <2>7, <2>8
<1>4. InsertInto(b, B, v) = Add(MakeRoom(B, Total[b]), v)
  <2>1. ~(Count(B, w) >= PerVoter[b])
    BY <1>1
  <2> QED BY <1>3, <2>1 DEF InsertInto, Insert
<1> QED BY <1>4 DEF Add

----------------------------------------------------------------------------
(* The inductive invariant                                                 *)

Belongs(v) == v[1] \in known /\ v[3] \in Governs[v[1]]

Inside(v) ==
  /\ v[1] <= (IF tip > finalized THEN tip ELSE finalized) + Horizon
  /\ v[1] + Horizon >= tip

(* Every buffer is sound, and holds only what belongs in it.               *)
BuffersInv ==
  /\ buf = [b \in Buffers |-> buf[b]]
  /\ \A b \in Buffers : Sound(b, buf[b]) /\ \A v \in buf[b].votes : Inside(v)
  /\ \A v \in buf["early"].votes : Belongs(v)

(* The network task read the finalized height before it took the lock, and *)
(* sends to "early" only what a snapshot it saw admits.                    *)
JobInv ==
  job = None \/ /\ job \in [vote : Vote, base : Nat, to : Buffers]
                /\ job.base <= finalized
                /\ job.to = "early" => Belongs(job.vote)

(* The driver promotes members of materialized snapshots only, and holds   *)
(* votes of its own only under the lock.                                   *)
DriverInv ==
  /\ pcd \in {"idle", "lookup", "promote"}
  /\ todo \subseteq Heights /\ resolved \subseteq known
  /\ taken \in [Waiting -> SUBSET Vote]
  /\ pcd # "promote" => taken = NoneTaken
  /\ \A b \in Waiting : \A v \in taken[b] : Belongs(v) /\ Inside(v)

Inv ==
  /\ tip \in Nat /\ finalized \in Nat /\ known \subseteq Heights
  /\ BuffersInv /\ JobInv /\ DriverInv

(* A vote's height is a number.                                            *)
LEMMA VoteType ==
  ASSUME NEW v \in Vote
  PROVE  v[1] \in Nat /\ v[1] \in Heights /\ v[2] \in Hashes /\ v[3] \in Voters
BY VotesAssumption, Zenon DEF Vote

(* What a vote is entitled to it keeps while snapshots appear and          *)
(* checkpoints finalize.                                                   *)
LEMMA RightsStay ==
  ASSUME Inv, known \subseteq known', finalized' \in Nat, finalized <= finalized', tip' = tip
  PROVE  \A v \in Vote : (Belongs(v) => Belongs(v)') /\ (Inside(v) => Inside(v)')
<1>1. tip \in Nat /\ finalized \in Nat /\ Horizon \in Nat
  BY VotesAssumption DEF Inv
<1> QED BY <1>1, VoteType DEF Belongs, Inside

(* The network task's vote keeps its standing through the others' steps.   *)
LEMMA JobStays ==
  ASSUME Inv, job' = job, known \subseteq known', finalized' \in Nat, finalized <= finalized'
  PROVE  JobInv'
<1>1. finalized \in Nat /\ JobInv
  BY DEF Inv
<1> QED BY <1>1 DEF JobInv, Belongs

(* A buffer without some heights is still sound.                           *)
LEMMA TakeKeeps ==
  ASSUME NEW b \in Buffers, NEW B, Sound(b, B), NEW H
  PROVE  Sound(b, TakeHeights(B, H)) /\ TakeHeights(B, H).votes = {v \in B.votes : v[1] \notin H}
<1> DEFINE T == TakeHeights(B, H)
<1>1. Whole(B) /\ B.len <= Total[b] /\ \A w \in Voters : Count(B, w) <= PerVoter[b]
  BY DEF Sound
<1>2. /\ Whole(T) /\ T.len <= B.len /\ T.votes = {v \in B.votes : v[1] \notin H}
      /\ \A u \in Voters : Count(T, u) <= Count(B, u)
  BY <1>1, TakeHeightsKeeps
<1>3. B.len \in Int /\ T.len \in Int /\ Total[b] \in Nat /\ PerVoter[b] \in Nat
  BY <1>1, <1>2, CapsAssumption DEF Whole, BufferType
<1>4. \A w \in Voters : Count(T, w) \in Nat /\ Count(B, w) \in Nat
  BY HeightsOfFinite
<1> HIDE DEF T
<1>5. T.len <= Total[b] /\ \A w \in Voters : Count(T, w) <= PerVoter[b]
  BY <1>1, <1>2, <1>3, <1>4
<1>6. Sound(b, T)
  BY <1>2, <1>5 DEF Sound
<1> QED BY <1>2, <1>6 DEF T

(* Heights leave all buffers, as the tip moves on or stands.               *)
LEMMA DropKeeps ==
  ASSUME Inv, NEW H, buf' = DropHeights(H), tip' \in Nat, tip <= tip',
         \A h \in Heights \ H : h + Horizon >= tip', UNCHANGED <<finalized, known>>
  PROVE  BuffersInv'
<1>1. ASSUME NEW b \in Buffers
      PROVE  Sound(b, buf[b])' /\ buf'[b].votes = {v \in buf[b].votes : v[1] \notin H}
  <2>1. Sound(b, buf[b]) /\ buf'[b] = TakeHeights(buf[b], H)
    BY DEF Inv, BuffersInv, DropHeights
  <2>2. /\ Sound(b, TakeHeights(buf[b], H))
        /\ TakeHeights(buf[b], H).votes = {v \in buf[b].votes : v[1] \notin H}
    BY <2>1, TakeKeeps
  <2> QED BY <2>1, <2>2
<1>2. \A b \in Buffers : buf[b].votes \subseteq Vote
  BY DEF Inv, BuffersInv, Sound, Whole, BufferType
<1>3. ASSUME NEW b \in Buffers, NEW v \in buf'[b].votes
      PROVE  Inside(v)'
  <2>1. v \in Vote /\ v[1] \notin H /\ Inside(v)
    BY <1>1, <1>2, <1>3 DEF Inv, BuffersInv
  <2>2. v[1] \in Nat /\ v[1] + Horizon >= tip'
    BY <2>1, VoteType
  <2> QED BY <2>1, <2>2, VotesAssumption DEF Inside, Inv
<1>4. \A v \in buf'["early"].votes : Belongs(v)'
  BY <1>1 DEF Inv, BuffersInv, Belongs, Buffers
<1>5. buf' = [b \in Buffers |-> buf'[b]]
  BY DEF DropHeights
<1> QED BY <1>1, <1>3, <1>4, <1>5 DEF BuffersInv

(* A vote with the standing its buffer asks for is inserted.               *)
LEMMA InsertedKeeps ==
  ASSUME Inv, NEW d \in Buffers, NEW v \in Vote, Inside(v), d = "early" => Belongs(v),
         buf' = [buf EXCEPT ![d] = InsertInto(d, @, v)], UNCHANGED <<tip, finalized, known>>
  PROVE  BuffersInv'
<1>1. ASSUME NEW b \in Buffers
      PROVE  /\ Sound(b, buf[b])'
             /\ buf'[b].votes \subseteq buf[b].votes \union (IF b = d THEN {v} ELSE {})
  <2>1. Sound(b, buf[b]) /\ buf'[b] = IF b = d THEN InsertInto(d, buf[d], v) ELSE buf[b]
    BY DEF Inv, BuffersInv
  <2>2. CASE b = d
    <3>1. Sound(b, InsertInto(b, buf[b], v)) /\ InsertInto(b, buf[b], v).votes \subseteq buf[b].votes \union {v}
      BY <2>1, InsertKeeps
    <3> QED BY <2>1, <2>2, <3>1
  <2>3. CASE b # d
    BY <2>1, <2>3
  <2> QED BY <2>2, <2>3
<1>2. \A b \in Buffers : \A u \in buf'[b].votes : Inside(u)'
  BY <1>1 DEF Inv, BuffersInv, Inside
<1>3. \A u \in buf'["early"].votes : Belongs(u)'
  BY <1>1 DEF Inv, BuffersInv, Belongs, Buffers
<1>4. buf' = [b \in Buffers |-> buf'[b]]
  BY DEF Inv, BuffersInv
<1> QED BY <1>1, <1>2, <1>3, <1>4 DEF BuffersInv

----------------------------------------------------------------------------
(* The steps of the two tasks                                              *)

(* The buffers start empty, each of them sound.                            *)
LEMMA InitInv == Init => Inv
<1> SUFFICES ASSUME Init PROVE Inv
  OBVIOUS
<1>1. ASSUME NEW w \in Voters PROVE HeightsOf(Empty, w) = {} /\ Count(Empty, w) = 0
  <2>1. HeightsOf(Empty, w) = {}
    BY DEF HeightsOf, Empty
  <2> QED BY <2>1, FS_EmptySet DEF Count
<1>2. BufferType(Empty)
  BY DEF BufferType, Empty
<1>3. Consistent(Empty)
  <2>1. Holders(Empty) = {}
    BY <1>1 DEF Holders
  <2>2. Ordered(Empty.arrival, Holders(Empty))
    BY <2>1, Zenon DEF Ordered, Empty
  <2>3. Empty.votes = {v \in Heights \X Hashes \X Voters : Empty.of[v[3]][v[1]] = v[2]}
    BY VotesAssumption DEF Empty
  <2>4. Empty.len = Cardinality(Empty.votes)
    BY FS_EmptySet DEF Empty
  <2> QED BY <2>2, <2>3, <2>4 DEF Consistent
<1>4. ASSUME NEW b \in Buffers PROVE Sound(b, Empty)
  <2>1. Empty.len = 0 /\ Total[b] \in Nat /\ PerVoter[b] \in Nat
    BY CapsAssumption DEF Empty
  <2>2. Empty.len <= Total[b] /\ \A w \in Voters : Count(Empty, w) <= PerVoter[b]
    BY <1>1, <2>1
  <2> QED BY <1>2, <1>3, <2>2 DEF Sound, Whole
<1>5. BuffersInv
  BY <1>4 DEF Init, BuffersInv, Empty, Buffers
<1>6. DriverInv
  BY DEF Init, DriverInv, NoneTaken
<1>7. JobInv
  BY DEF Init, JobInv
<1> QED BY <1>5, <1>6, <1>7, VotesAssumption DEF Init, Inv

(* buffer_early, without the lock.                                         *)
LEMMA ClassifyKeeps ==
  ASSUME Inv, NEW v \in Vote, Classify(v)
  PROVE  Inv'
<1>1. UNCHANGED <<buf, tip, finalized, known, pcd, todo, resolved, taken>>
  BY DEF Classify, driver
<1>2. JobInv'
  <2>1. v[1] \in known => Belongs(v)'
    BY <1>1 DEF Classify, Belongs
  <2> DEFINE to == IF v[1] \in known THEN "early" ELSE IF v[3] \in Latest THEN "unverified" ELSE "unknown"
  <2>2. to \in Buffers /\ (to = "early" => v[1] \in known)
    BY DEF Buffers
  <2>3. job' = [vote |-> v, base |-> finalized, to |-> to]
    BY DEF Classify
  <2> HIDE DEF to
  <2>4. finalized \in Nat
    BY DEF Inv
  <2> QED BY <1>1, <2>1, <2>2, <2>3, <2>4 DEF JobInv
<1>3. BuffersInv' /\ DriverInv'
  BY <1>1 DEF Inv, BuffersInv, DriverInv, Belongs, Inside
<1> QED BY <1>1, <1>2, <1>3 DEF Inv

(* buffer_early, under the lock.                                           *)
LEMMA BufferKeeps ==
  ASSUME Inv, Buffer
  PROVE  Inv'
<1>1. UNCHANGED <<tip, finalized, known, pcd, todo, resolved, taken>> /\ job' = None /\ job # None
  BY DEF Buffer, driver
<1>2. JobInv' /\ DriverInv'
  BY <1>1 DEF JobInv, Inv, DriverInv, Belongs, Inside
<1>3. BuffersInv'
  <2> DEFINE v == job.vote
             base == IF tip > job.base THEN tip ELSE job.base
  <2>1. /\ v \in Vote /\ job.base \in Nat /\ job.to \in Buffers /\ job.base <= finalized
        /\ job.to = "early" => Belongs(v)
    BY <1>1 DEF Inv, JobInv
  <2>2. CASE UNCHANGED buf
    BY <1>1, <2>2 DEF Inv, BuffersInv, Belongs, Inside
  <2>3. CASE /\ v[1] <= base + Horizon /\ v[1] + Horizon >= tip
             /\ buf' = [buf EXCEPT ![job.to] = InsertInto(job.to, @, v)]
    <3>1. Inside(v)
      BY <2>1, <2>3, VoteType, VotesAssumption DEF Inside, Inv
    <3> HIDE DEF v
    <3> QED BY <1>1, <2>1, <2>3, <3>1, InsertedKeeps, Zenon
  <2> QED BY <2>2, <2>3 DEF Buffer
<1> QED BY <1>1, <1>2, <1>3 DEF Inv

(* observe_tip: what fell out of the horizon expires.                      *)
LEMMA ObserveTipKeeps ==
  ASSUME Inv, NEW t \in 0..MaxTip, ObserveTip(t)
  PROVE  Inv'
<1> DEFINE H == {h \in Heights : h < tip' - Horizon}
<1>1. /\ UNCHANGED <<finalized, known, job, resolved, taken>>
      /\ pcd = "idle" /\ pcd' = "lookup" /\ buf' = DropHeights(H)
  BY DEF ObserveTip
<1>2. tip \in Nat /\ tip' \in Nat /\ tip <= tip' /\ finalized \in Nat /\ Horizon \in Nat
  BY VotesAssumption DEF ObserveTip, Inv
<1>3. ASSUME NEW h \in Heights \ H PROVE h + Horizon >= tip'
  <2>1. h \in Nat /\ ~(h < tip' - Horizon)
    BY VotesAssumption
  <2> DEFINE t2 == tip'
  <2>2. t2 \in Nat /\ Horizon \in Nat /\ ~(h < t2 - Horizon)
    BY <1>2, <2>1, Zenon
  <2> HIDE DEF t2, H
  <2>3. h + Horizon >= t2
    BY <2>1, <2>2
  <2> QED BY <2>3 DEF t2
<1>4. BuffersInv'
  <2> HIDE DEF H
  <2> QED BY <1>1, <1>2, <1>3, DropKeeps
<1>5. todo' \subseteq Heights
  <2>1. \A b \in Buffers : buf'[b].votes \subseteq Vote
    BY <1>4 DEF BuffersInv, Sound, Whole, BufferType
  <2> QED BY <2>1, VoteType DEF ObserveTip, Buffers
<1>6. DriverInv'
  <2>1. DriverInv /\ taken = NoneTaken
    BY <1>1 DEF Inv, DriverInv
  <2>2. \A b \in Waiting : taken'[b] = {}
    BY <1>1, <2>1 DEF NoneTaken
  <2> QED BY <1>1, <1>5, <2>1, <2>2 DEF DriverInv
<1>7. JobInv'
  BY <1>1, <1>2, JobStays
<1> QED BY <1>1, <1>2, <1>4, <1>6, <1>7, Zenon DEF Inv

(* One height leaves the waiting buffers for promotion.                    *)
LEMMA TakeResolvedKeeps ==
  ASSUME Inv, TakeResolved
  PROVE  Inv'
<1>1. UNCHANGED <<tip, finalized, known, job, pcd, todo>> /\ pcd = "promote"
  BY DEF TakeResolved
<1>2. PICK h \in resolved :
        /\ resolved' = resolved \ {h}
        /\ taken' = [b \in Waiting |-> MembersOf(At(b, h), h)]
        /\ buf' = [b \in Buffers |-> IF b \in Waiting THEN TakeHeights(buf[b], {h}) ELSE buf[b]]
  BY Zenon DEF TakeResolved
<1>3. h \in known /\ \A b \in Buffers : buf[b].votes \subseteq Vote
  BY DEF Inv, DriverInv, BuffersInv, Sound, Whole, BufferType
<1>4. ASSUME NEW b \in Buffers
      PROVE  Sound(b, buf[b])' /\ buf'[b].votes \subseteq buf[b].votes
  <2>1. Sound(b, buf[b]) /\ buf'[b] \in {buf[b], TakeHeights(buf[b], {h})}
    BY <1>2 DEF Inv, BuffersInv
  <2> QED BY <2>1, TakeKeeps
<1>5. BuffersInv'
  <2>1. buf' = [b \in Buffers |-> buf'[b]]
    BY <1>2
  <2> QED BY <1>1, <1>4, <2>1 DEF Inv, BuffersInv, Belongs, Inside, Buffers
<1>6. DriverInv'
  <2>1. ASSUME NEW b \in Waiting
        PROVE  taken'[b] \subseteq Vote /\ \A v \in taken'[b] : Belongs(v)' /\ Inside(v)'
    <3>1. b \in Buffers /\ taken'[b] = {v \in buf[b].votes : v[1] = h /\ v[3] \in Governs[h]}
      BY <1>2 DEF Waiting, Buffers, MembersOf, At
    <3>2. \A v \in buf[b].votes : Inside(v)
      BY <3>1 DEF Inv, BuffersInv
    <3> QED BY <1>1, <1>3, <3>1, <3>2 DEF Belongs, Inside
  <2>2. taken' \in [Waiting -> SUBSET Vote]
    <3>1. taken' = [b \in Waiting |-> taken'[b]]
      BY <1>2
    <3> QED BY <2>1, <3>1
  <2> QED BY <1>1, <1>2, <2>1, <2>2, Zenon DEF Inv, DriverInv
<1>7. JobInv'
  BY <1>1 DEF Inv, JobInv, Belongs
<1> QED BY <1>1, <1>5, <1>6, <1>7, Zenon DEF Inv

(* A member's vote enters early.                                           *)
LEMMA PromoteKeeps ==
  ASSUME Inv, Promote
  PROVE  Inv'
<1>1. UNCHANGED <<tip, finalized, known, job, pcd, todo, resolved>> /\ pcd = "promote"
  BY DEF Promote
<1>2. PICK b \in Waiting : \E v \in taken[b] :
        /\ taken' = [taken EXCEPT ![b] = @ \ {v}]
        /\ buf' = [buf EXCEPT !["early"] = InsertInto("early", @, v)]
  BY Zenon DEF Promote
<1>3. PICK v \in taken[b] :
        /\ taken' = [taken EXCEPT ![b] = @ \ {v}]
        /\ buf' = [buf EXCEPT !["early"] = InsertInto("early", @, v)]
  BY <1>2, Zenon
<1>4. v \in Vote /\ Belongs(v) /\ Inside(v) /\ "early" \in Buffers
  BY DEF Inv, DriverInv, Buffers
<1>5. BuffersInv'
  BY <1>1, <1>3, <1>4, InsertedKeeps, Zenon
<1>6. DriverInv'
  <2>1. taken \in [Waiting -> SUBSET Vote]
    BY DEF Inv, DriverInv
  <2>2. taken' \in [Waiting -> SUBSET Vote] /\ \A d \in Waiting : taken'[d] \subseteq taken[d]
    BY <1>3, <2>1
  <2> QED BY <1>1, <2>2 DEF Inv, DriverInv, Belongs, Inside
<1>7. JobInv'
  BY <1>1 DEF Inv, JobInv, Belongs
<1> QED BY <1>1, <1>5, <1>6, <1>7 DEF Inv

(* drain and prune empty heights; the tip stands still.                    *)
LEMMA DropStepKeeps ==
  ASSUME Inv, NEW H, buf' = DropHeights(H), UNCHANGED <<tip, finalized, known, job, driver>>
  PROVE  Inv'
<1>1. /\ tip \in Nat /\ finalized \in Nat /\ UNCHANGED <<pcd, todo, resolved, taken>>
  BY DEF Inv, driver
<1>2. ASSUME NEW b \in Buffers
      PROVE  Sound(b, buf[b])' /\ buf'[b].votes \subseteq buf[b].votes
  <2>1. Sound(b, buf[b]) /\ buf'[b] = TakeHeights(buf[b], H)
    BY DEF Inv, BuffersInv, DropHeights
  <2> QED BY <2>1, TakeKeeps
<1>3. BuffersInv'
  <2>1. buf' = [b \in Buffers |-> buf'[b]]
    BY DEF DropHeights
  <2> QED BY <1>2, <2>1 DEF Inv, BuffersInv, Belongs, Inside, Buffers
<1>4. DriverInv'
  BY <1>1 DEF Inv, DriverInv, Belongs, Inside
<1>5. JobInv'
  BY <1>1, JobStays
<1> QED BY <1>1, <1>3, <1>4, <1>5 DEF Inv

(* A checkpoint finalizes, or a snapshot appears.                          *)
LEMMA WorldKeeps ==
  ASSUME Inv, known \subseteq known', known' \subseteq Heights,
         finalized' \in Nat, finalized <= finalized', UNCHANGED <<buf, tip, job, driver>>
  PROVE  Inv'
<1>1. \A v \in Vote : (Belongs(v) => Belongs(v)') /\ (Inside(v) => Inside(v)')
  BY RightsStay
<1>2. UNCHANGED <<pcd, todo, resolved, taken>>
  BY DEF driver
<1>3. BuffersInv'
  <2>1. \A b \in Buffers : buf[b].votes \subseteq Vote
    BY DEF Inv, BuffersInv, Sound, Whole, BufferType
  <2> QED BY <1>1, <2>1 DEF Inv, BuffersInv, Buffers
<1>4. DriverInv'
  BY <1>1, <1>2 DEF Inv, DriverInv
<1>5. JobInv'
  BY JobStays
<1> QED BY <1>3, <1>4, <1>5 DEF Inv

(* Every step keeps the invariant.                                         *)
LEMMA NextKeeps == Inv /\ [Next]_vars => Inv'
<1> SUFFICES ASSUME Inv, [Next]_vars PROVE Inv'
  OBVIOUS
<1>1. CASE UNCHANGED vars
  <2>1. UNCHANGED <<buf, tip, job, driver>> /\ known' = known /\ finalized' = finalized
    BY <1>1 DEF vars, driver
  <2>2. finalized \in Nat /\ known \subseteq Heights
    BY DEF Inv
  <2> QED BY <2>1, <2>2, WorldKeeps
<1>2. CASE \E h \in Heights, x \in Hashes, w \in Voters : Classify(<<h, x, w>>)
  BY <1>2, ClassifyKeeps DEF Vote
<1>3. CASE Buffer
  BY <1>3, BufferKeeps
<1>4. CASE SubmitInstead
  <2>1. UNCHANGED <<buf, tip, finalized, known, pcd, todo, resolved, taken>> /\ job' = None
    BY <1>4 DEF SubmitInstead, driver
  <2> QED BY <2>1 DEF Inv, BuffersInv, JobInv, DriverInv, Belongs, Inside
<1>5. CASE \E t \in 0..MaxTip : ObserveTip(t)
  BY <1>5, ObserveTipKeeps
<1>6. CASE LookUp
  <2>1. /\ UNCHANGED <<buf, tip, finalized, known, job, taken>> /\ pcd = "lookup"
        /\ pcd' \in {"lookup", "idle", "promote"}
    BY <1>6 DEF LookUp
  <2>2. todo' \subseteq todo /\ resolved' \subseteq resolved \union known
    BY <1>6 DEF LookUp
  <2>3. taken = NoneTaken /\ todo' \subseteq Heights /\ resolved' \subseteq known'
    BY <2>1, <2>2, Zenon DEF Inv, DriverInv
  <2> QED BY <2>1, <2>3 DEF Inv, BuffersInv, JobInv, DriverInv, Belongs, Inside
<1>7. CASE TakeResolved
  BY <1>7, TakeResolvedKeeps
<1>8. CASE Promote
  BY <1>8, PromoteKeeps
<1>9. CASE Promoted
  <2>1. /\ UNCHANGED <<buf, tip, finalized, known, job, todo, resolved, taken>> /\ taken = NoneTaken
        /\ pcd' = "idle"
    BY <1>9 DEF Promoted
  <2> QED BY <2>1 DEF Inv, BuffersInv, JobInv, DriverInv, Belongs, Inside
<1>10. ASSUME NEW h \in Heights, Drain(h) \/ Prune(h) PROVE Inv'
  <2>1. /\ UNCHANGED <<tip, finalized, known, job, driver>>
        /\ \E H \in SUBSET Heights : buf' = DropHeights(H)
    BY <1>10 DEF Drain, Prune
  <2> QED BY <2>1, DropStepKeeps
<1>11. ASSUME NEW h \in Heights, Finalized(h) PROVE Inv'
  <2>1. /\ UNCHANGED <<buf, tip, known, job, driver>> /\ finalized' \in Nat /\ finalized <= finalized'
        /\ known \subseteq Heights
    BY <1>11, VotesAssumption DEF Finalized, Inv
  <2> QED BY <2>1, WorldKeeps
<1>12. ASSUME NEW h \in Heights, Materialize(h) PROVE Inv'
  <2>1. /\ UNCHANGED <<buf, tip, finalized, job, driver>> /\ known' = known \union {h}
        /\ finalized \in Nat /\ known \subseteq Heights
    BY <1>12 DEF Materialize, Inv
  <2> QED BY <2>1, WorldKeeps
<1> QED
  BY <1>1, <1>2, <1>3, <1>4, <1>5, <1>6, <1>7, <1>8, <1>9, <1>10, <1>11, <1>12, Zenon DEF Next

(* The invariant holds in every reachable state.                           *)
THEOREM Invariance == Spec => []Inv
BY InitInv, NextKeeps, PTL DEF Spec

----------------------------------------------------------------------------
(* What the buffers promise                                                *)

(* However votes arrive, expire, are promoted, drained and pruned, the     *)
(* votes, the per-voter index, the order of arrival and the counter of     *)
(* each buffer agree, and both caps hold (EarlyVoteBuffer).                *)
THEOREM PartsAgree == Spec => []TypeOK
<1>1. Inv => TypeOK
  BY DEF Inv, BuffersInv, DriverInv, Sound, Whole, TypeOK
<1> QED BY <1>1, Invariance, PTL

(* A voter below its cap and its equal split of the total cap always gets  *)
(* one more height in, whatever the other voters sent (insert).            *)
THEOREM SharesAreFair == Spec => []FairShare
<1>1. Inv => FairShare
  <2> SUFFICES ASSUME Inv, NEW b \in Buffers, NEW w \in Voters, NEW h \in Heights, NEW x \in Hashes,
                      Count(buf[b], w) < PerVoter[b],
                      Count(buf[b], w) * Cardinality(Voters) < Total[b],
                      buf[b].of[w][h] = None
               PROVE  <<h, x, w>> \in InsertInto(b, buf[b], <<h, x, w>>).votes
    BY DEF FairShare
  <2> DEFINE v == <<h, x, w>>
  <2>1. v \in Vote /\ v[1] = h /\ v[3] = w
    BY DEF Vote
  <2>2. Sound(b, buf[b])
    BY DEF Inv, BuffersInv
  <2> HIDE DEF v
  <2>3. v \in InsertInto(b, buf[b], v).votes
    BY <2>1, <2>2, InsertIsFair
  <2> QED BY <2>3 DEF v
<1> QED BY <1>1, Invariance, PTL

(* A vote among the authenticated ones is a member's under a snapshot the  *)
(* node has, although it may have been classified long before, and every   *)
(* held vote is within the horizon (buffer_early, observe_tip).            *)
THEOREM VotesArePlaced == Spec => []Placed
<1>1. Inv => Placed
  BY DEF Inv, BuffersInv, Belongs, Inside, Placed, OnlyMembers, InWindow
<1> QED BY <1>1, Invariance, PTL

(* A vote that arrives evicts another voter's only if that voter holds     *)
(* more than an equal split of the cap (insert).                           *)
THEOREM NobodyIsCrowdedOut == Spec => NoCrowding
<1> DEFINE Fair(b, u) == Count(buf'[b], u) < Count(buf[b], u) => Count(buf[b], u) * Cardinality(Voters) > Total[b]
           Crowds == job # None /\ job' = None =>
                       \A b \in Buffers, u \in Voters : u # job.vote[3] => Fair(b, u)
<1>1. ASSUME Inv, [Next]_vars PROVE Crowds
  <2> SUFFICES ASSUME job # None, job' = None, NEW b \in Buffers, NEW u \in Voters, u # job.vote[3]
               PROVE  Fair(b, u)
    OBVIOUS
  <2>1. Count(buf[b], u) \in Nat /\ Count(buf'[b], u) \in Nat
    BY HeightsOfFinite
  <2>2. job.vote \in Vote /\ job.to \in Buffers /\ Sound(b, buf[b]) /\ buf = [d \in Buffers |-> buf[d]]
    BY <1>1 DEF Inv, JobInv, BuffersInv
  <2>3. CASE UNCHANGED buf
    BY <2>1, <2>3
  <2>4. CASE buf' = [buf EXCEPT ![job.to] = InsertInto(job.to, @, job.vote)]
    <3>1. CASE b = job.to
      <4>1. buf'[b] = InsertInto(b, buf[b], job.vote)
        BY <2>2, <2>4, <3>1
      <4> QED BY <2>2, <4>1, InsertKeeps
    <3>2. CASE b # job.to
      <4>1. buf'[b] = buf[b]
        BY <2>2, <2>4, <3>2
      <4> QED BY <2>1, <4>1
    <3> QED BY <3>1, <3>2
  <2>5. UNCHANGED buf \/ buf' = [buf EXCEPT ![job.to] = InsertInto(job.to, @, job.vote)]
    <3>1. CASE Buffer
      BY <3>1 DEF Buffer
    <3>2. CASE SubmitInstead
      BY <3>2 DEF SubmitInstead
    <3>3. ~UNCHANGED job
      OBVIOUS
    <3>4. CASE Buffer \/ SubmitInstead
      BY <3>1, <3>2, <3>4
    <3>5. Buffer \/ SubmitInstead
      BY <1>1, <3>3, Zenon DEF Next, vars, Classify, ObserveTip, LookUp, TakeResolved, Promote, Promoted,
         Drain, Finalized, Prune, Materialize
    <3> QED BY <3>4, <3>5
  <2> QED BY <2>3, <2>4, <2>5
<1>2. Crowds => (job # None /\ job' = None =>
                   \A b \in Buffers, u \in Voters :
                     u # job.vote[3] /\ Count(buf'[b], u) < Count(buf[b], u) =>
                       Count(buf[b], u) * Cardinality(Voters) > Total[b])
  OBVIOUS
<1> QED BY <1>1, <1>2, Invariance, PTL DEF Spec, NoCrowding
=============================================================================
