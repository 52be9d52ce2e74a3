----------------------------- MODULE MCMempool -----------------------------
(* Two senders.  a has a legacy transaction and a v2 one of the same       *)
(* nonce, and the two that follow; b has one, which takes twice the room.  *)
(* Two transactions fill the pool, or b's alone, so that the better ones   *)
(* push the others out, and b's pushes out its equals.                     *)
EXTENDS Mempool

CONSTANTS a, b, a0v1, a0, a1, a2, b0, rpc, p2p, producer, timer

MCTxs == {a0v1, a0, a1, a2, b0}
MCFrom == (b0 :> b) @@ [t \in MCTxs \ {b0} |-> a]
MCNonce == (a1 :> 1) @@ (a2 :> 2) @@ [t \in MCTxs \ {a1, a2} |-> 0]
MCCost == [t \in MCTxs |-> 1]
MCSize == (b0 :> 2) @@ [t \in MCTxs \ {b0} |-> 1]
MCScore == (a0v1 :> 1) @@ (a0 :> 2) @@ [t \in MCTxs \ {a0v1, a0} |-> 3]
MCLegacy == {a0v1}
MCBalance == (a :> 3) @@ (b :> 1)

Scenario(pooled, win, byRpc, byP2p, produced, timed) ==
  [pool |-> pooled, window |-> win,
   offers |-> (rpc :> byRpc) @@ (p2p :> byP2p),
   rounds |-> (producer :> produced) @@ (timer :> timed)]

MCScenarios ==
  { (* one slot: the same transaction twice, a rival, and their expiry *)
    Scenario({}, "swept", {a0, b0}, {a0}, 0, 0),
    (* the window closes on a pooled transaction while its sender re-signs *)
    Scenario({a0v1}, "open", {a0}, {}, 0, 1),
    Scenario({}, "open", {a0v1}, {}, 1, 0),
    (* both adders want the room of the one victim *)
    Scenario({a0, a1}, "swept", {b0}, {a2}, 0, 0),
    Scenario({b0}, "swept", {a1}, {a2}, 0, 1),
    (* a block is built while its sender submits the next *)
    Scenario({a0, a1}, "swept", {a2}, {}, 2, 0),
    Scenario({a0}, "swept", {a1}, {}, 1, 1) }
=============================================================================
