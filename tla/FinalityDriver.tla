--------------------------- MODULE FinalityDriver ---------------------------
(***************************************************************************)
(* The finality driver of one validator (node/src/finality_driver.rs):     *)
(* once a second it walks the applied chain, reports newly buried          *)
(* boundaries to the gadget, reports again those whose own vote failed or  *)
(* that were passed during the safety stop, and broadcasts the votes.      *)
(*                                                                         *)
(* The gadget is reduced to what the driver sees of it: the pending block  *)
(* of a height, whether it has this node's vote, and the durable           *)
(* signed-vote record (VoteSigning).  The stop may engage and clear, the   *)
(* chain move and the gadget drop a checkpoint between any two calls.      *)
(***************************************************************************)
EXTENDS Integers, FiniteSets

CONSTANTS
  Hashes, Chains,
  Start,          \* the chain the node is on at first
  BlockAt,        \* BlockAt[c][h]: the block of chain c at boundary h, None if stepped over
  Interval, VoteDepth,
  MaxBoundaries,  \* MAX_BOUNDARIES_PER_PASS
  MaxAttempts,    \* MAX_OWN_VOTE_ATTEMPTS
  MaxRetries,     \* MAX_OWN_VOTE_RETRIES
  MaxRevisits,    \* MAX_HALT_REVISITS
  RetryHorizon,   \* OWN_VOTE_RETRY_HORIZON_BLOCKS
  MaxTip, MaxReorgs, MaxStops, MaxFaults, MaxCrashes,  \* bounds of a run
  None

Heights == {h \in 1..MaxTip : h % Interval = 0}

ASSUME DriverAssumption ==
  /\ Interval \in Nat \ {0} /\ VoteDepth \in Nat \ {0} /\ MaxTip \in Nat
  /\ MaxAttempts \in Nat \ {0} /\ None \notin Hashes
  /\ {MaxBoundaries, MaxRetries, MaxRevisits, RetryHorizon} \subseteq Nat
  /\ Start \in Chains /\ BlockAt \in [Chains -> [Heights -> Hashes \union {None}]]

VARIABLES
  tip, chain,        \* the applied tip's height and the chain it is on
  engaged,           \* SafetyStop.engaged
  record,            \* disk: the hash signed at each height, or None
  pending, own,      \* gadget: pending block per height; heights with this node's vote
  cursor, retries,   \* driver: highest boundary handed over; OwnVoteRetries
  pass, job,         \* driver: the pass and the report it is in
  outbound, sent,    \* votes of the pass; every vote ever broadcast
  used               \* how much of each bound the run has used

world == <<tip, chain, engaged, used>>
gadget == <<record, pending, own>>
vars == <<tip, chain, engaged, record, pending, own, cursor, retries, pass, job, outbound, sent, used>>

----------------------------------------------------------------------------
(* OwnVoteRetries                                                          *)

NoRetries == [attempts |-> [h \in Heights |-> 0], halted |-> {}, held |-> [h \in Heights |-> None]]

Highest(S, n) == {h \in S : Cardinality({g \in S : g > h}) < n}

(* mark_halted for the heights hs and hold for the votes among them: past  *)
(* the cap the lowest go, with their votes; the first vote held is kept.   *)
HoldAll(r, votes, hs) ==
  LET all  == r.halted \union hs
      kept == Highest(all, MaxRevisits)
  IN [attempts |-> [h \in Heights |-> IF h \in hs THEN 0 ELSE r.attempts[h]],
      halted |-> kept,
      held |-> [h \in Heights |->
                  IF h \in all \ kept THEN None
                  ELSE IF r.held[h] = None /\ \E v \in votes : v[1] = h
                    THEN (CHOOSE v \in votes : v[1] = h)[2]
                    ELSE r.held[h]]]

Forget(r, hs) ==
  [attempts |-> [h \in Heights |-> IF h \in hs THEN 0 ELSE r.attempts[h]],
   halted |-> r.halted \ hs,
   held |-> [h \in Heights |-> IF h \in hs THEN None ELSE r.held[h]]]

(* One more attempt at h; the last one allowed gives up.                   *)
Retry(r, h) ==
  LET clear == Forget(r, {h})
      made == r.attempts[h] + 1
      tried == [clear.attempts EXCEPT ![h] = made]
      kept == Highest({g \in Heights : tried[g] > 0}, MaxRetries)
  IN IF made >= MaxAttempts THEN clear
     ELSE [clear EXCEPT !.attempts = [g \in Heights |-> IF g \in kept THEN tried[g] ELSE 0]]

Record(r, h, followup) ==
  CASE followup = "done"   -> Forget(r, {h})
    [] followup = "halted" -> HoldAll(r, {}, {h})
    [] followup = "retry"  -> Retry(r, h)

(* due: what lies below the horizon is dropped; nothing is due during the  *)
(* stop.                                                                   *)
WithinHorizon(r, highest) == Forget(r, {h \in Heights : h < highest - RetryHorizon})

(* Boundaries passed during the stop are never due.                        *)
DueRetriesOnly(r) == IF engaged THEN {} ELSE {h \in Heights : r.attempts[h] > 0}

Due(r) == IF engaged THEN {} ELSE {h \in Heights : r.attempts[h] > 0} \union r.halted

----------------------------------------------------------------------------
(* The walk                                                                *)

(* The depth is forgotten: the tip's own boundary counts as buried.        *)
HighestBuriedAtTip(t) == t - (t % Interval)

(* The highest boundary buried VoteDepth below t, 0 if there is none.      *)
HighestBuried(t) ==
  IF t < VoteDepth THEN 0 ELSE (t - VoteDepth) - ((t - VoteDepth) % Interval)

BoundariesToProcess(after, highest) ==
  Highest({h \in Heights : after < h /\ h <= highest}, MaxBoundaries)

(* canonical_at_heights: those of hs at which the chain below the tip t    *)
(* has a block.                                                            *)
CanonicalAt(hs, t, c) == {h \in hs : h <= t /\ BlockAt[c][h] # None}

----------------------------------------------------------------------------
Idle == [phase |-> "idle", highest |-> 0, tip |-> 0, chain |-> None, todo |-> {}]
NoJob == [stage |-> "none", height |-> 0, hash |-> None, taken |-> None, result |-> "quiet"]
Unused == [reorgs |-> 0, stops |-> 0, faults |-> 0, crashes |-> 0]

Init ==
  /\ tip = 0 /\ chain = Start
  /\ engaged = FALSE
  /\ record = [h \in Heights |-> None]
  /\ pending = [h \in Heights |-> None] /\ own = {}
  /\ cursor = 0 /\ retries = NoRetries
  /\ pass = Idle /\ job = NoJob
  /\ outbound = {} /\ sent = {}
  /\ used = Unused

Free == job.stage = "none"
Use(kind, max) == used[kind] < max /\ used' = [used EXCEPT ![kind] = @ + 1]
Outcome(ok) == IF ok THEN UNCHANGED used ELSE Use("faults", MaxFaults)

(* run_pass up to the reports of new boundaries; a failed walk skips them  *)
(* and ends the pass.                                                      *)
RunPass(ok) ==
  LET highest == HighestBuried(tip)
      heights == BoundariesToProcess(cursor, highest)
      phase == IF heights = {} THEN "due" ELSE "new"
  IN /\ pass.phase = "idle"
     /\ highest > 0
     /\ Outcome(ok)
     /\ IF ok
        THEN /\ pass' = [phase |-> phase, highest |-> highest, tip |-> tip, chain |-> chain,
                         todo |-> CanonicalAt(heights, tip, chain)]
             /\ UNCHANGED cursor
        ELSE /\ heights # {} /\ cursor' = highest
             /\ UNCHANGED pass
     /\ UNCHANGED <<tip, chain, engaged, gadget, retries, job, outbound, sent>>

(* The cursor is past them all.                                            *)
NewDone ==
  /\ pass.phase = "new" /\ pass.todo = {} /\ Free
  /\ cursor' = pass.highest
  /\ pass' = [pass EXCEPT !.phase = "due"]
  /\ UNCHANGED <<world, gadget, retries, job, outbound, sent>>

(* revisit up to its reports.                                              *)
Revisit(ok) ==
  LET r == WithinHorizon(retries, pass.highest)
      due == Due(r)
      found == CanonicalAt(due, pass.tip, pass.chain)
      failing == {h \in due : r.held[h] = None}
  IN /\ pass.phase = "due"
     /\ Outcome(ok)
     /\ IF ok
        THEN /\ retries' = Forget(r, due \ found)
             /\ pass' = [pass EXCEPT !.phase = "revisit", !.todo = found]
        ELSE /\ due # {}
             /\ retries' = r
             /\ pass' = [pass EXCEPT !.phase = "failed", !.todo = failing]
     /\ UNCHANGED <<tip, chain, engaged, gadget, cursor, job, outbound, sent>>

(* The failed walk counts as an attempt, the lowest boundary first, except *)
(* where a vote is held; nothing else sees the retries before the end.     *)
RevisitFailed ==
  /\ pass.phase = "failed"
  /\ \/ \E h \in pass.todo :
          /\ \A g \in pass.todo : h <= g
          /\ retries' = Retry(retries, h)
          /\ pass' = [pass EXCEPT !.todo = @ \ {h}]
     \/ /\ pass.todo = {}
        /\ pass' = [pass EXCEPT !.phase = "gate"]
        /\ UNCHANGED retries
  /\ UNCHANGED <<world, gadget, cursor, job, outbound, sent>>

(* The next report, lowest boundary first; a revisit takes the vote held   *)
(* there.  The gadget skips everything during the stop.  Otherwise it has  *)
(* no committee yet, has finalized the height or refuses the proposal      *)
(* (quiet), or has the block pending and goes on for a missing own vote.   *)
Report(skip) ==
  LET h == CHOOSE h \in pass.todo : \A g \in pass.todo : h <= g
      x == BlockAt[pass.chain][h]
      proposed == [pending EXCEPT ![h] = IF @ = None THEN x ELSE @]
      signs == ~engaged /\ ~skip /\ proposed[h] = x /\ (pending[h] = None \/ h \notin own)
  IN /\ pass.phase \in {"new", "revisit"} /\ pass.todo # {} /\ Free
     /\ pass' = [pass EXCEPT !.todo = @ \ {h}]
     /\ pending' = IF signs THEN proposed ELSE pending
     /\ job' = [stage |-> IF signs THEN "sign" ELSE "back", height |-> h, hash |-> x,
                taken |-> IF pass.phase = "revisit" THEN retries.held[h] ELSE None,
                result |-> IF engaged THEN "halted" ELSE "quiet"]
     /\ retries' = IF pass.phase = "revisit" THEN [retries EXCEPT !.held[h] = None] ELSE retries
     /\ UNCHANGED <<world, record, own, cursor, outbound, sent>>

(* The record is not looked at: a new block at an old height is signed.    *)
AuthorizedAnyHash(h, x) == TRUE

(* authorize_sign without its floor, which VoteSigning has.                *)
Authorized(h, x) == record[h] \in {None, x}

(* sign_own_vote under the gate: refused during the stop, for another hash *)
(* on record (for good) and when the store fails (worth a retry); the      *)
(* manager refuses the vote if the checkpoint has gone meanwhile.          *)
SignOwnVote(ok) ==
  LET h == job.height
      x == job.hash
      authorized == ~engaged /\ ok /\ Authorized(h, x)
      accepted == authorized /\ pending[h] = x
  IN /\ job.stage = "sign"
     /\ Outcome(ok)
     /\ record' = IF authorized THEN [record EXCEPT ![h] = x] ELSE record
     /\ own' = IF accepted THEN own \union {h} ELSE own
     /\ job' = [job EXCEPT !.stage = "back",
                 !.result = CASE engaged -> "halted" [] ~engaged /\ ~ok -> "retry"
                              [] accepted -> "voted" [] OTHER -> "quiet"]
     /\ UNCHANGED <<tip, chain, engaged, pending, cursor, retries, pass, outbound, sent>>

(* The gadget has returned; the stop is looked at once more.  During it an *)
(* own vote is held, not sent.  A vote taken for this revisit goes back to *)
(* be held, is dropped if its block is no longer canonical, or goes out.   *)
Returned ==
  LET h == job.height
      vote == IF job.result = "voted" THEN {<<h, job.hash>>} ELSE {}
      followup == CASE engaged \/ job.result = "halted" -> "halted"
                    [] ~engaged /\ job.result = "retry" -> "retry"
                    [] OTHER -> "done"
      withheld == IF engaged THEN HoldAll(retries, vote, {v[1] : v \in vote}) ELSE retries
      recorded == Record(withheld, h, followup)
      new == IF engaged THEN outbound ELSE outbound \union vote
      again == /\ job.taken = job.hash
               /\ followup # "halted"
               /\ \A v \in new : v[1] # h
  IN /\ job.stage = "back"
     /\ retries' = IF job.taken # None /\ followup = "halted"
                   THEN HoldAll(recorded, {<<h, job.taken>>}, {h}) ELSE recorded
     /\ outbound' = IF again THEN new \union {<<h, job.taken>>} ELSE new
     /\ job' = NoJob
     /\ UNCHANGED <<world, gadget, cursor, pass, sent>>

RevisitDone ==
  /\ pass.phase = "revisit" /\ pass.todo = {} /\ Free
  /\ pass' = [pass EXCEPT !.phase = "gate"]
  /\ UNCHANGED <<world, gadget, cursor, retries, job, outbound, sent>>

(* The votes are dropped during the stop, not held.                        *)
GateOutboundDrops ==
  /\ pass.phase = "gate"
  /\ outbound' = IF engaged THEN {} ELSE outbound
  /\ pass' = [pass EXCEPT !.phase = "send"]
  /\ UNCHANGED <<world, gadget, cursor, retries, job, sent>>

(* gate_outbound: during the stop the pass's votes are held.               *)
GateOutbound ==
  /\ pass.phase = "gate"
  /\ IF engaged
     THEN /\ retries' = HoldAll(retries, outbound, {v[1] : v \in outbound})
          /\ outbound' = {}
     ELSE UNCHANGED <<retries, outbound>>
  /\ pass' = [pass EXCEPT !.phase = "send"]
  /\ UNCHANGED <<world, gadget, cursor, job, sent>>

(* broadcast_votes, one at a time; then the pass is over.                  *)
Broadcast ==
  /\ pass.phase = "send"
  /\ \/ \E v \in outbound : sent' = sent \union {v} /\ outbound' = outbound \ {v} /\ UNCHANGED pass
     \/ outbound = {} /\ pass' = Idle /\ UNCHANGED <<outbound, sent>>
  /\ UNCHANGED <<world, gadget, cursor, retries, job>>

Driver ==
  \/ \E ok \in BOOLEAN : RunPass(ok) \/ Revisit(ok) \/ SignOwnVote(ok)
  \/ \E skip \in BOOLEAN : Report(skip)
  \/ NewDone \/ Returned \/ RevisitFailed \/ RevisitDone \/ GateOutbound \/ Broadcast

----------------------------------------------------------------------------
(* Around the driver                                                       *)

driver == <<cursor, retries, pass, job, outbound>>

(* The applied tip advances, or moves to another chain.                    *)
MoveTip(t, c) ==
  /\ IF c = chain THEN t > tip /\ UNCHANGED used ELSE Use("reorgs", MaxReorgs)
  /\ tip' = t /\ chain' = c
  /\ UNCHANGED <<engaged, gadget, driver, sent>>

(* The floor verifier engages and clears the stop, under the gate.         *)
Engage ==
  /\ ~engaged /\ Use("stops", MaxStops)
  /\ engaged' = TRUE
  /\ UNCHANGED <<tip, chain, gadget, driver, sent>>

Clear ==
  /\ engaged
  /\ engaged' = FALSE
  /\ UNCHANGED <<tip, chain, used, gadget, driver, sent>>

(* A pending checkpoint is finalized, pruned or evicted.                   *)
Evict(h) ==
  /\ pending[h] # None
  /\ pending' = [pending EXCEPT ![h] = None]
  /\ own' = own \ {h}
  /\ UNCHANGED <<world, record, driver, sent>>

(* A restart keeps the record.                                             *)
Crash ==
  /\ Use("crashes", MaxCrashes)
  /\ engaged' = FALSE
  /\ pending' = [h \in Heights |-> None] /\ own' = {}
  /\ cursor' = 0 /\ retries' = NoRetries
  /\ pass' = Idle /\ job' = NoJob /\ outbound' = {}
  /\ UNCHANGED <<tip, chain, record, sent>>

Next ==
  \/ Driver
  \/ \E t \in 1..MaxTip, c \in Chains : MoveTip(t, c)
  \/ Engage \/ Clear \/ Crash
  \/ \E h \in Heights : Evict(h)

Spec == Init /\ [][Next]_vars

(* The loop ticks every second and no call of it hangs.                    *)
LiveSpec == Spec /\ WF_vars(Driver)

----------------------------------------------------------------------------
(* OwnVoteRetries is well formed: both caps hold, no height is out of      *)
(* attempts and still tracked, and a held vote is always one of a height   *)
(* to revisit ("always a subset of halted").                               *)
TypeOK ==
  /\ tip \in 0..MaxTip /\ chain \in Chains /\ engaged \in BOOLEAN
  /\ record \in [Heights -> Hashes \union {None}]
  /\ own \subseteq {h \in Heights : pending[h] # None}
  /\ cursor \in Heights \union {0}
  /\ Cardinality({h \in Heights : retries.attempts[h] > 0}) <= MaxRetries
  /\ \A h \in Heights : retries.attempts[h] < MaxAttempts
  /\ Cardinality(retries.halted) <= MaxRevisits
  /\ \A h \in Heights : retries.held[h] # None => h \in retries.halted

(* Whatever is held, retried, re-signed after a restart or sent again, no  *)
(* two votes for one height with different blocks are ever broadcast.      *)
OneVotePerHeight == \A u, v \in sent : u[1] = v[1] => u = v

(* The same, with the types and the caps of the revisit list.              *)
DriverInv == TypeOK /\ OneVotePerHeight

(* "Never vote at the tip": a boundary's first report makes a signature    *)
(* only for a block at least vote_depth below the tip the pass started     *)
(* from, and every report only for the block of the walked chain.          *)
Buried(h) == h + VoteDepth <= pass.tip
FirstReportBuried ==
  [][\A h \in Heights : record'[h] # record[h] =>
       /\ pass.phase = "new" => Buried(h)
       /\ record'[h] = BlockAt[pass.chain][h]]_vars

(* The boundaries the caps and the horizon always keep.                    *)
Recent ==
  {h \in Heights : /\ h + RetryHorizon >= MaxTip
                   /\ Cardinality({g \in Heights : g > h}) < MaxRevisits}

(* The driver is held up again and again: the stop is engaged, or no       *)
(* boundary is buried on the chain.                                        *)
HeldUp == []<>(engaged \/ HighestBuried(tip) = 0)

(* An own vote that the gadget has counted but the stop kept in is not     *)
(* lost: it is broadcast once the stop clears for good, even if its        *)
(* checkpoint has gone meanwhile, unless the node restarts or the block    *)
(* leaves the chain (hold, take_held, gate_outbound).                      *)
Canonical(h, x) == h <= tip /\ BlockAt[chain][h] = x
Restarted == cursor = 0 /\ pass = Idle
VoteGetsOut ==
  \A h \in Recent, x \in Hashes :
    \/ HeldUp
    \/ <>(record[h] = x /\ ~Canonical(h, x))
    \/ (h \in own /\ record[h] = x) ~> (<<h, x>> \in sent \/ Restarted)

(* Every boundary passed during the stop is reported again once it has     *)
(* cleared, so that none is lost behind the cursor (due, revisit).         *)
Revisited ==
  \A h \in Recent : HeldUp \/ (h \in retries.halted ~> h \notin retries.halted)
=============================================================================
