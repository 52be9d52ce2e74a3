--------------------------- MODULE FinalityNetwork ---------------------------
(***************************************************************************)
(* Checkpoint finality across validators: each honest node proposes the    *)
(* block it finds buried at a boundary, signs at most one block per height *)
(* (VoteSigning), gossips votes and finalizes what a quorum of the block's *)
(* committee signed (FinalityGadget has the steps inside one node).        *)
(*                                                                         *)
(* A vote, once sent, may reach a node at any later time, repeatedly or    *)
(* never: a node finalizes with any quorum among the votes ever sent.      *)
(***************************************************************************)
EXTENDS Integers, FiniteSets

CONSTANTS
  Validators, Byzantine,
  Heights, Blocks,
  HeightOf,      \* the boundary each block stands at
  Committee,     \* Committee[x]: committee_for(height, beacon seed of x)
  MinCommittee,  \* MIN_FINALITY_COMMITTEE
  None

ASSUME ValidatorsAssumption == Byzantine \subseteq Validators /\ IsFiniteSet(Validators)
ASSUME BlocksAssumption ==
  /\ Heights \subseteq Nat \ {0}
  /\ HeightOf \in [Blocks -> Heights]
  /\ None \notin Blocks
ASSUME CommitteeAssumption ==
  Committee \in [Blocks -> SUBSET Validators] /\ MinCommittee \in Nat \ {0}

Honest == Validators \ Byzantine

VARIABLES
  pending,  \* pending[n][h]: the block node n collects votes for, or None
  certs,    \* disk: certs[n][h]: the block node n finalized at h, or None
  votes     \* every <<block, voter>> ever signed and sent

vars == <<pending, certs, votes>>

Latest(n) ==
  LET hs == {h \in Heights : certs[n][h] # None}
  IN IF hs = {} THEN 0 ELSE CHOOSE h \in hs : \A g \in hs : g <= h

Nothing == [h \in Heights |-> None]

Init ==
  /\ pending = [n \in Honest |-> Nothing]
  /\ certs = [n \in Honest |-> Nothing]
  /\ votes = {}

(* Rounded down: two quorums may share only Byzantine members.             *)
DerivedQuorumDown(n) == (2 * n) \div 3

(* floor(2n/3) + 1.                                                        *)
DerivedQuorum(n) == (2 * n) \div 3 + 1

(* The committee members who sent a vote for x.                            *)
Supporters(x) == {v \in Committee[x] : <<x, v>> \in votes}

(* The votes sent for x hold a quorum of its committee: some delivery of   *)
(* them reaches quorum.                                                    *)
HasDerivedQuorum(x) ==
  /\ Cardinality(Committee[x]) >= MinCommittee
  /\ Cardinality(Supporters(x)) >= DerivedQuorum(Cardinality(Committee[x]))

(* on_buried_checkpoint up to the proposal: x is buried and canonical on n *)
(* now; nothing is pending or final at its height.                         *)
Propose(n, x) ==
  /\ HeightOf[x] > Latest(n)
  /\ pending[n][HeightOf[x]] = None
  /\ pending' = [pending EXCEPT ![n][HeightOf[x]] = x]
  /\ UNCHANGED <<certs, votes>>

(* No signed-vote record: a restart forgets what was signed.               *)
SignUnrecorded(n, x) ==
  /\ pending[n][HeightOf[x]] = x
  /\ n \in Committee[x]
  /\ votes' = votes \union {<<x, n>>}
  /\ UNCHANGED <<pending, certs>>

(* sign_own_vote: only what the durable record allows.                     *)
Sign(n, x) ==
  /\ pending[n][HeightOf[x]] = x
  /\ n \in Committee[x]
  /\ \A y \in Blocks : <<y, n>> \in votes /\ HeightOf[y] = HeightOf[x] => y = x
  /\ votes' = votes \union {<<x, n>>}
  /\ UNCHANGED <<pending, certs>>

(* A Byzantine validator signs anything.                                   *)
SignByzantine(b, x) ==
  /\ votes' = votes \union {<<x, b>>}
  /\ UNCHANGED <<pending, certs>>

(* finalize_checkpoint on a quorum of received votes, and the prune of     *)
(* everything at or below the finalized height.                            *)
Finalize(n, x) ==
  /\ pending[n][HeightOf[x]] = x
  /\ HasDerivedQuorum(x)
  /\ certs' = [certs EXCEPT ![n][HeightOf[x]] = x]
  /\ pending' = [pending EXCEPT ![n] =
                   [h \in Heights |-> IF h <= HeightOf[x] \/ h <= Latest(n) THEN None ELSE @[h]]]
  /\ UNCHANGED votes

(* A restart, or the eviction of one pending checkpoint at the cap.        *)
Forget(n, H) ==
  /\ pending' = [pending EXCEPT ![n] = [h \in Heights |-> IF h \in H THEN None ELSE @[h]]]
  /\ UNCHANGED <<certs, votes>>

Next ==
  \/ \E n \in Honest, x \in Blocks : Propose(n, x) \/ Sign(n, x) \/ Finalize(n, x)
  \/ \E n \in Honest, H \in SUBSET Heights : Forget(n, H)
  \/ \E b \in Byzantine, x \in Blocks : SignByzantine(b, x)

Spec == Init /\ [][Next]_vars

----------------------------------------------------------------------------
(* Each variable has its type; a node collects votes only for a block of   *)
(* that height and holds certificates of that height.                      *)
TypeOK ==
  /\ pending \in [Honest -> [Heights -> Blocks \union {None}]]
  /\ certs \in [Honest -> [Heights -> Blocks \union {None}]]
  /\ votes \subseteq Blocks \X Validators
  /\ \A n \in Honest, h \in Heights :
       /\ pending[n][h] # None => HeightOf[pending[n][h]] = h
       /\ certs[n][h] # None => HeightOf[certs[n][h]] = h

(* S1 (no conflicting finality): no two honest nodes ever finalize         *)
(* different blocks at one boundary.                                       *)
Agreement ==
  \A m, n \in Honest, h \in Heights :
    certs[m][h] # None /\ certs[n][h] # None => certs[m][h] = certs[n][h]

(* What the network has decided at h.                                      *)
Decision(h) ==
  LET final == {certs[n][h] : n \in Honest} \ {None}
  IN IF final = {} THEN None ELSE CHOOSE x \in final : TRUE

Decisions == [h \in Heights |-> Decision(h)]

Abstract == INSTANCE Finality WITH decided <- Decisions

(* The nodes together implement Finality: a boundary is decided once and   *)
(* never decided again, whichever node finalizes first.                    *)
ImplementsFinality == Abstract!Spec
=============================================================================
