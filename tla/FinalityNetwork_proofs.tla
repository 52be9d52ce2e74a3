----------------------- MODULE FinalityNetwork_proofs -----------------------
(***************************************************************************)
(* Agreement for every set of validators, blocks and boundaries, and the   *)
(* refinement of Finality.                                                 *)
(*                                                                         *)
(* Both rest on two facts about the committees, kept as hypotheses because *)
(* the code does not ensure the first: all candidates of a boundary have   *)
(* one committee (true while the validator set fits into committee_size),  *)
(* and fewer than a third of it is Byzantine.  The argument: a certificate *)
(* is backed by a quorum of votes and votes are never withdrawn; two       *)
(* quorums of one committee share an honest member; an honest member signs *)
(* one block per height.                                                   *)
(***************************************************************************)
EXTENDS FinalityNetwork, FiniteSetTheorems, TLAPS

SharedCommittee ==
  \A x, y \in Blocks : HeightOf[x] = HeightOf[y] => Committee[x] = Committee[y]

FewByzantine ==
  \A x \in Blocks : 3 * Cardinality(Committee[x] \intersect Byzantine) < Cardinality(Committee[x])

Assumptions == SharedCommittee /\ FewByzantine

(* An honest validator signs one block per height.                         *)
VoteOnce ==
  \A v \in Honest, x, y \in Blocks :
    <<x, v>> \in votes /\ <<y, v>> \in votes /\ HeightOf[x] = HeightOf[y] => x = y

(* A certificate is backed by votes that were really sent.                 *)
CertQuorum ==
  \A n \in Honest, h \in Heights : certs[n][h] # None => HasDerivedQuorum(certs[n][h])

IInv == Assumptions /\ TypeOK /\ VoteOnce /\ CertQuorum

----------------------------------------------------------------------------
(* Two sets of more than two thirds of C share a member outside B when B   *)
(* has fewer than a third of C: an honest member is in both quorums.       *)
LEMMA QuorumsMeet ==
  ASSUME NEW C, NEW B, NEW S, NEW T,
         IsFiniteSet(C), S \subseteq C, T \subseteq C,
         3 * Cardinality(C \intersect B) < Cardinality(C),
         3 * Cardinality(S) > 2 * Cardinality(C), 3 * Cardinality(T) > 2 * Cardinality(C)
  PROVE  \E v \in S \intersect T : v \notin B
<1> SUFFICES ASSUME S \intersect T \subseteq C \intersect B PROVE FALSE
  OBVIOUS
<1>1. IsFiniteSet(S) /\ IsFiniteSet(T) /\ IsFiniteSet(C \intersect B)
  BY FS_Subset
<1>2. IsFiniteSet(S \union T) /\ IsFiniteSet(S \intersect T)
  BY <1>1, FS_Union, FS_Intersection
<1>3. /\ Cardinality(S) \in Nat /\ Cardinality(T) \in Nat /\ Cardinality(C) \in Nat
      /\ Cardinality(C \intersect B) \in Nat
      /\ Cardinality(S \union T) \in Nat /\ Cardinality(S \intersect T) \in Nat
  BY <1>1, <1>2, FS_CardinalityType
<1>4. Cardinality(S \union T) = Cardinality(S) + Cardinality(T) - Cardinality(S \intersect T)
  BY <1>1, FS_Union
<1>5. Cardinality(S \union T) <= Cardinality(C)
  BY FS_Subset, S \union T \subseteq C
<1>6. Cardinality(S \intersect T) <= Cardinality(C \intersect B)
  BY <1>1, FS_Subset
<1> QED
  BY <1>3, <1>4, <1>5, <1>6

(* Committees are finite, and so are their supporters.                     *)
LEMMA SupportersFinite ==
  ASSUME NEW x \in Blocks
  PROVE  /\ IsFiniteSet(Committee[x])
         /\ Supporters(x) \subseteq Committee[x] /\ IsFiniteSet(Supporters(x))
         /\ Committee[x] \subseteq Validators
<1>1. Committee[x] \subseteq Validators
  BY CommitteeAssumption
<1>2. IsFiniteSet(Committee[x])
  BY <1>1, ValidatorsAssumption, FS_Subset
<1>3. Supporters(x) \subseteq Committee[x]
  BY DEF Supporters
<1> QED
  BY <1>1, <1>2, <1>3, FS_Subset

(* Blocks of one boundary that both have a quorum are the same block.      *)
LEMMA OneQuorum ==
  ASSUME Assumptions, VoteOnce,
         NEW x \in Blocks, NEW y \in Blocks, HeightOf[x] = HeightOf[y],
         HasDerivedQuorum(x), HasDerivedQuorum(y)
  PROVE  x = y
<1>1. Committee[x] = Committee[y]
  BY DEF Assumptions, SharedCommittee
<1>2. PICK v \in Supporters(x) \intersect Supporters(y) : v \notin Byzantine
  <2>1. 3 * Cardinality(Committee[x] \intersect Byzantine) < Cardinality(Committee[x])
    BY DEF Assumptions, FewByzantine
  <2> DEFINE C == Committee[x]
             S == Supporters(x)
             T == Supporters(y)
  <2>2. IsFiniteSet(C) /\ S \subseteq C /\ T \subseteq C
    BY <1>1, SupportersFinite
  <2>3. Cardinality(S) >= DerivedQuorum(Cardinality(C)) /\ Cardinality(T) >= DerivedQuorum(Cardinality(C))
    BY <1>1 DEF HasDerivedQuorum
  <2> HIDE DEF C, S, T
  <2>4. Cardinality(C) \in Nat /\ Cardinality(S) \in Nat /\ Cardinality(T) \in Nat
    BY <2>2, FS_Subset, FS_CardinalityType
  <2>5. 3 * Cardinality(S) > 2 * Cardinality(C) /\ 3 * Cardinality(T) > 2 * Cardinality(C)
    BY <2>3, <2>4 DEF DerivedQuorum
  <2>6. \E v \in S \intersect T : v \notin Byzantine
    BY <2>1, <2>2, <2>5, QuorumsMeet DEF C
  <2> QED
    BY <2>6 DEF S, T
<1>3. v \in Honest /\ <<x, v>> \in votes /\ <<y, v>> \in votes
  BY <1>2, SupportersFinite DEF Supporters, Honest
<1> QED
  BY <1>3 DEF VoteOnce

(* Votes are only added, so a quorum stays a quorum.                       *)
LEMMA QuorumKept ==
  ASSUME NEW x \in Blocks, votes \subseteq votes', HasDerivedQuorum(x)
  PROVE  HasDerivedQuorum(x)'
<1>1. Supporters(x) \subseteq Supporters(x)' /\ Supporters(x)' \subseteq Committee[x]
  BY DEF Supporters
<1>2. IsFiniteSet(Committee[x])
  BY SupportersFinite
<1>3. IsFiniteSet(Supporters(x)')
  BY <1>1, <1>2, FS_Subset
<1>4. Cardinality(Supporters(x)) <= Cardinality(Supporters(x)')
  BY <1>1, <1>3, FS_Subset
<1>5. /\ Cardinality(Supporters(x)) \in Nat /\ Cardinality(Supporters(x)') \in Nat
      /\ Cardinality(Committee[x]) \in Nat
  BY <1>2, <1>3, SupportersFinite, FS_CardinalityType
<1> QED
  BY <1>4, <1>5 DEF HasDerivedQuorum, DerivedQuorum

(* The certificates of an invariant state agree.                           *)
LEMMA IInvAgreement == IInv => Agreement
<1> SUFFICES ASSUME IInv, NEW m \in Honest, NEW n \in Honest, NEW h \in Heights,
                    certs[m][h] # None, certs[n][h] # None
             PROVE  certs[m][h] = certs[n][h]
  BY DEF Agreement
<1>1. /\ certs[m][h] \in Blocks /\ certs[n][h] \in Blocks
      /\ HeightOf[certs[m][h]] = h /\ HeightOf[certs[n][h]] = h
  BY DEF IInv, TypeOK
<1>2. HasDerivedQuorum(certs[m][h]) /\ HasDerivedQuorum(certs[n][h])
  BY DEF IInv, CertQuorum
<1> QED
  BY <1>1, <1>2, OneQuorum DEF IInv

----------------------------------------------------------------------------
(* The initial state.                                                      *)
LEMMA InitIInv == Assumptions /\ Init => IInv
BY DEF Init, IInv, TypeOK, VoteOnce, CertQuorum, Nothing

(* Signing keeps what honest validators have signed unique and every       *)
(* quorum in place.                                                        *)
LEMMA SigningIInv ==
  ASSUME IInv, NEW v \in Validators, NEW x \in Blocks,
         votes' = votes \union {<<x, v>>}, UNCHANGED <<pending, certs>>,
         v \in Honest => \A y \in Blocks : <<y, v>> \in votes /\ HeightOf[y] = HeightOf[x] => y = x
  PROVE  IInv'
<1>1. TypeOK'
  <2>1. votes' \subseteq Blocks \X Validators
    BY DEF IInv, TypeOK
  <2> QED
    BY <2>1 DEF IInv, TypeOK
<1>2. VoteOnce'
  BY DEF IInv, VoteOnce
<1>3. CertQuorum'
  <2> SUFFICES ASSUME NEW n \in Honest, NEW h \in Heights, certs[n][h] # None
               PROVE  HasDerivedQuorum(certs[n][h])'
    BY DEF CertQuorum
  <2>1. certs[n][h] \in Blocks /\ HasDerivedQuorum(certs[n][h])
    BY DEF IInv, TypeOK, CertQuorum
  <2>2. votes \subseteq votes'
    OBVIOUS
  <2> DEFINE c == certs[n][h]
  <2>3. \A k \in Blocks : HasDerivedQuorum(k) => HasDerivedQuorum(k)'
    BY <2>2, QuorumKept
  <2>4. certs' = certs
    OBVIOUS
  <2> QED
    BY <2>1, <2>3, <2>4
<1> QED
  BY <1>1, <1>2, <1>3 DEF IInv, Assumptions, SharedCommittee, FewByzantine

(* Without new votes, only certificates with a quorum are added.           *)
LEMMA UnsignedIInv ==
  ASSUME IInv, votes' = votes, TypeOK',
         \A n \in Honest, h \in Heights :
           certs'[n][h] = certs[n][h] \/ HasDerivedQuorum(certs'[n][h])
  PROVE  IInv'
<1>1. \A k : HasDerivedQuorum(k)' <=> HasDerivedQuorum(k)
  BY DEF HasDerivedQuorum, Supporters
<1>2. CertQuorum'
  <2> SUFFICES ASSUME NEW n \in Honest, NEW h \in Heights, certs'[n][h] # None
               PROVE  HasDerivedQuorum(certs[n][h])'
    BY DEF CertQuorum
  <2>1. HasDerivedQuorum(certs'[n][h])
    BY DEF IInv, CertQuorum
  <2> QED
    BY <2>1 DEF HasDerivedQuorum, Supporters
<1>3. VoteOnce'
  BY DEF IInv, VoteOnce
<1> QED
  BY <1>2, <1>3 DEF IInv, Assumptions, SharedCommittee, FewByzantine

(* Finalizing keeps the types.                                             *)
LEMMA FinalizeType ==
  ASSUME TypeOK, NEW n \in Honest, NEW x \in Blocks, Finalize(n, x)
  PROVE  /\ TypeOK'
         /\ certs'[n][HeightOf[x]] = x
         /\ \A m \in Honest, h \in Heights :
              m # n \/ h # HeightOf[x] => certs'[m][h] = certs[m][h]
<1>1. HeightOf[x] \in Heights
  BY BlocksAssumption
<1>2. certs' = [certs EXCEPT ![n][HeightOf[x]] = x]
  BY DEF Finalize
<1>3. /\ certs' \in [Honest -> [Heights -> Blocks \union {None}]]
      /\ certs'[n][HeightOf[x]] = x
      /\ \A m \in Honest, h \in Heights :
           m # n \/ h # HeightOf[x] => certs'[m][h] = certs[m][h]
  BY <1>1, <1>2 DEF TypeOK
<1>4. /\ pending' \in [Honest -> [Heights -> Blocks \union {None}]]
      /\ \A m \in Honest, h \in Heights : pending'[m][h] \in {None, pending[m][h]}
  BY DEF Finalize, TypeOK
<1>5. \A m \in Honest, h \in Heights :
        /\ pending'[m][h] # None => HeightOf[pending'[m][h]] = h
        /\ certs'[m][h] # None => HeightOf[certs'[m][h]] = h
  BY <1>1, <1>3, <1>4 DEF TypeOK
<1> QED
  BY <1>3, <1>4, <1>5 DEF TypeOK, Finalize

(* Every step preserves the invariant.                                     *)
LEMMA NextIInv == IInv /\ [Next]_vars => IInv'
<1> SUFFICES ASSUME IInv, [Next]_vars PROVE IInv'
  OBVIOUS
<1>1. ASSUME NEW n \in Honest, NEW x \in Blocks, Propose(n, x) PROVE IInv'
  <2>1. HeightOf[x] \in Heights
    BY BlocksAssumption
  <2>2. TypeOK'
    BY <1>1, <2>1 DEF Propose, IInv, TypeOK
  <2> QED
    BY <1>1, <2>2, UnsignedIInv DEF Propose
<1>2. ASSUME NEW n \in Honest, NEW x \in Blocks, Sign(n, x) PROVE IInv'
  BY <1>2, SigningIInv DEF Sign, Honest
<1>3. ASSUME NEW n \in Honest, NEW x \in Blocks, Finalize(n, x) PROVE IInv'
  <2>1. TypeOK
    BY DEF IInv
  <2>2. /\ TypeOK' /\ certs'[n][HeightOf[x]] = x
        /\ \A m \in Honest, h \in Heights :
             m # n \/ h # HeightOf[x] => certs'[m][h] = certs[m][h]
    BY <1>3, <2>1, FinalizeType
  <2>3. votes' = votes /\ HasDerivedQuorum(x)
    BY <1>3 DEF Finalize
  <2> QED
    BY <2>2, <2>3, UnsignedIInv
<1>4. ASSUME NEW n \in Honest, NEW H \in SUBSET Heights, Forget(n, H) PROVE IInv'
  <2>1. /\ pending' \in [Honest -> [Heights -> Blocks \union {None}]]
        /\ \A m \in Honest, h \in Heights : pending'[m][h] \in {None, pending[m][h]}
        /\ votes' = votes /\ certs' = certs
    BY <1>4 DEF Forget, IInv, TypeOK
  <2>2. TypeOK'
    BY <2>1 DEF IInv, TypeOK
  <2> QED
    BY <2>1, <2>2, UnsignedIInv
<1>5. ASSUME NEW b \in Byzantine, NEW x \in Blocks, SignByzantine(b, x) PROVE IInv'
  BY <1>5, SigningIInv, ValidatorsAssumption DEF SignByzantine, Honest
<1>6. CASE UNCHANGED vars
  <2>1. votes' = votes /\ certs' = certs /\ pending' = pending
    BY <1>6 DEF vars
  <2>2. TypeOK'
    BY <2>1 DEF IInv, TypeOK
  <2> QED
    BY <2>1, <2>2, UnsignedIInv
<1> QED
  BY <1>1, <1>2, <1>3, <1>4, <1>5, <1>6 DEF Next

(* The invariant holds in every behaviour.                                 *)
LEMMA IInvHolds == Assumptions /\ Spec => []IInv
BY InitIInv, NextIInv, PTL DEF Spec

(* S1: with one committee per boundary and fewer than a third of it        *)
(* Byzantine, no two honest nodes finalize different blocks at one         *)
(* boundary, whatever is lost, repeated, reordered, evicted or restarted.  *)
THEOREM NoConflictingFinality == Assumptions /\ Spec => []Agreement
BY IInvHolds, IInvAgreement, PTL

----------------------------------------------------------------------------
(* What the network decided, in an invariant state.                        *)
LEMMA DecisionIs ==
  ASSUME Agreement, NEW n \in Honest, NEW h \in Heights, certs[n][h] # None
  PROVE  Decision(h) = certs[n][h]
<1> DEFINE final == {certs[m][h] : m \in Honest} \ {None}
<1>1. certs[n][h] \in final
  OBVIOUS
<1>2. \A x \in final : x = certs[n][h]
  BY DEF Agreement
<1>3. (CHOOSE x \in final : TRUE) = certs[n][h]
  BY <1>1, <1>2
<1> QED
  BY <1>1, <1>3 DEF Decision

(* Nothing is decided where no node holds a certificate.                   *)
LEMMA DecisionNone ==
  ASSUME NEW h \in Heights, \A n \in Honest : certs[n][h] = None
  PROVE  Decision(h) = None
<1>1. {certs[m][h] : m \in Honest} \ {None} = {}
  OBVIOUS
<1> QED
  BY <1>1 DEF Decision

(* A finalization decides its boundary or repeats the decision there.      *)
LEMMA FinalizeDecides ==
  ASSUME IInv, IInv', NEW n \in Honest, NEW x \in Blocks, Finalize(n, x)
  PROVE  Abstract!Decide(HeightOf[x], x) \/ Decisions' = Decisions
<1> DEFINE h0 == HeightOf[x]
<1>1. h0 \in Heights
  BY BlocksAssumption
<1>2. /\ certs'[n][h0] = x
      /\ \A m \in Honest, h \in Heights : m # n \/ h # h0 => certs'[m][h] = certs[m][h]
  BY FinalizeType DEF IInv
<1>3. \A h \in Heights : h # h0 => Decision(h)' = Decision(h)
  <2> SUFFICES ASSUME NEW h \in Heights, h # h0 PROVE Decision(h)' = Decision(h)
    OBVIOUS
  <2>1. {certs'[m][h] : m \in Honest} = {certs[m][h] : m \in Honest}
    BY <1>2
  <2> QED
    BY <2>1 DEF Decision
<1>4. x # None
  BY BlocksAssumption
<1>5. Decision(h0)' = x
  <2>1. Agreement'
    BY IInvAgreement, PTL
  <2> DEFINE final == {certs'[m][h0] : m \in Honest} \ {None}
  <2>2. x \in final
    BY <1>2, <1>4
  <2>3. \A k \in final : k = x
    BY <2>1, <1>1, <1>2, <1>4 DEF Agreement
  <2>4. (CHOOSE k \in final : TRUE) = x
    BY <2>2, <2>3
  <2> QED
    BY <2>2, <2>4 DEF Decision
<1>6. Decision(h0) \in {None, x}
  <2>1. CASE \A m \in Honest : certs[m][h0] = None
    BY <2>1, <1>1, DecisionNone
  <2>2. CASE \E m \in Honest : certs[m][h0] # None
    <3>1. PICK m \in Honest : certs[m][h0] # None
      BY <2>2
    <3>2. Agreement
      BY IInvAgreement
    <3>3. Decision(h0) = certs[m][h0]
      BY <3>1, <3>2, <1>1, DecisionIs
    <3>4. certs[m][h0] \in Blocks /\ HeightOf[certs[m][h0]] = h0 /\ HasDerivedQuorum(certs[m][h0])
      BY <3>1, <1>1 DEF IInv, TypeOK, CertQuorum
    <3>5. HasDerivedQuorum(x)
      BY DEF Finalize
    <3>6. certs[m][h0] = x
      BY <3>4, <3>5, OneQuorum DEF IInv
    <3> QED
      BY <3>3, <3>6
  <2> QED
    BY <2>1, <2>2
<1>7. Decisions = [h \in Heights |-> Decision(h)] /\ Decisions' = [h \in Heights |-> Decision(h)']
  BY DEF Decisions
<1>8. CASE Decision(h0) = x
  <2>1. \A h \in Heights : Decision(h)' = Decision(h)
    BY <1>3, <1>5, <1>8
  <2> QED
    BY <2>1, <1>7
<1>9. CASE Decision(h0) = None
  <2>1. Decisions[h0] = None
    BY <1>1, <1>7, <1>9
  <2>2. Decisions' = [Decisions EXCEPT ![h0] = x]
    BY <1>1, <1>3, <1>5, <1>7
  <2> QED
    BY <2>1, <2>2 DEF Abstract!Decide
<1> QED
  BY <1>6, <1>8, <1>9

(* The nodes together implement Finality.                                  *)
THEOREM Refinement == Assumptions /\ Spec => ImplementsFinality
<1>1. Assumptions /\ Init => Abstract!Init
  <2> SUFFICES ASSUME Init PROVE Decisions = [h \in Heights |-> None]
    BY DEF Abstract!Init
  <2>1. \A h \in Heights, n \in Honest : certs[n][h] = None
    BY DEF Init, Nothing
  <2>2. \A h \in Heights : Decision(h) = None
    BY <2>1, DecisionNone
  <2> QED
    BY <2>2 DEF Decisions
<1>2. IInv /\ IInv' /\ [Next]_vars => [Abstract!Next]_Decisions
  <2> SUFFICES ASSUME IInv, IInv', [Next]_vars PROVE [Abstract!Next]_Decisions
    OBVIOUS
  <2>1. ASSUME NEW n \in Honest, NEW x \in Blocks, Finalize(n, x)
        PROVE  [Abstract!Next]_Decisions
    <3>1. HeightOf[x] \in Heights
      BY BlocksAssumption
    <3>2. Abstract!Decide(HeightOf[x], x) \/ Decisions' = Decisions
      BY <2>1, FinalizeDecides
    <3> QED
      BY <3>1, <3>2 DEF Abstract!Next
  <2>2. CASE certs' = certs
    BY <2>2 DEF Decisions, Decision
  <2> QED
    BY <2>1, <2>2 DEF Next, vars, Propose, Sign, Forget, SignByzantine
<1> QED
  BY <1>1, <1>2, IInvHolds, PTL DEF Spec, ImplementsFinality, Abstract!Spec
=============================================================================
