------------------------------ MODULE Mempool ------------------------------
(* The transaction pool (core/sequencer/src/mempool.rs) under the tasks    *)
(* that share it: those that submit transactions (RPC, gossip), the block  *)
(* producer, and the expiry timer.  The pool is six collections, each with *)
(* its own lock, and an operation holds no lock from one access to the     *)
(* next: every access of a collection is a step of its own.                *)
EXTENDS Integers, Sequences, FiniteSets, FiniteSetsExt, SequencesExt, Functions

CONSTANTS
  Txs, Senders, NoTx,
  From, Nonce,         \* transaction -> sender, transaction -> nonce
  Cost, Size,          \* tx_max_cost, tx_size
  Score,               \* the order of the priorities
  Legacy,              \* the transactions the block rule will refuse
  Balance,             \* sender -> balance before any of Txs is mined
  Adders, Producers, Timers,    \* the tasks
  MaxPool, MaxBytes, MaxPerSender, MaxNonceGap, LastNonce, EvictedCap,
  MaxCount, MaxBlockBytes,      \* arguments of get_best_transactions
  Scenarios            \* the pools to begin with, and bounds on what follows

VARIABLES
  transactions,   \* the keys of transactions
  queue,          \* the keys of priority_queue
  listed,         \* how often by_sender lists a transaction
  nonces,         \* sender_nonces
  total,          \* total_size
  evicted,        \* the evicted hashes, oldest first
  banned,         \* the senders whose ban is running
  window,         \* "open"; "closed"; "swept" once the one-time sweep began
  mined,          \* the transactions the executor's state contains
  task,           \* what every task is doing
  offers,         \* what each adder may still submit (bound)
  rounds,         \* how often the producer and the timer still run (bound)
  torn            \* slots two operations worked on at the same time (history)

pool == <<transactions, queue, listed, nonces, total, evicted>>
work == <<offers, rounds>>
vars == <<pool, banned, window, mined, task, work, torn>>

Tasks == Adders \union Producers \union Timers

ASSUME MempoolAssumption ==
  /\ NoTx \notin Txs /\ Legacy \subseteq Txs
  /\ From \in [Txs -> Senders] /\ Nonce \in [Txs -> 0..LastNonce]
  /\ Cost \in [Txs -> Nat] /\ Size \in [Txs -> Nat \ {0}]
  /\ Score \in [Txs -> Nat]
  /\ Balance \in [Senders -> Nat]
  /\ {MaxPool, MaxBytes, MaxPerSender, MaxNonceGap, LastNonce, EvictedCap} \subseteq Nat
  /\ {MaxCount, MaxBlockBytes} \subseteq Nat
  /\ \A t \in Txs : Size[t] <= MaxBytes
  /\ Cardinality(Tasks) = Cardinality(Adders) + Cardinality(Producers) + Cardinality(Timers)

(* A scenario: the transactions of a pool nobody is working on, whether    *)
(* the legacy window is still open, and what may begin.                    *)
ASSUME ScenarioAssumption ==
  \A sc \in Scenarios :
    /\ sc.pool \subseteq Txs /\ sc.window \in {"open", "swept"}
    /\ sc.offers \in [Adders -> SUBSET Txs] /\ sc.rounds \in [Producers \union Timers -> Nat]
    /\ \A t, u \in sc.pool : Nonce[t] = Nonce[u] /\ From[t] = From[u] => t = u
    /\ Cardinality(sc.pool) <= MaxPool
    /\ MapThenSumSet(LAMBDA t : Size[t], sc.pool) <= MaxBytes

Slot(t) == <<From[t], Nonce[t]>>
SumOf(f, S) == MapThenSumSet(LAMBDA t : f[t], S)
OfSender(s, S) == {t \in S : From[t] = s}

Idle == [pc |-> "idle", tx |-> NoTx, todo |-> {}, victim |-> NoTx, ret |-> "idle", block |-> <<>>]

Init ==
  /\ \E sc \in Scenarios :
       /\ transactions = sc.pool /\ window = sc.window
       /\ offers = sc.offers /\ rounds = sc.rounds
  /\ queue = transactions /\ total = SumOf(Size, transactions)
  /\ listed = [t \in Txs |-> IF t \in transactions THEN 1 ELSE 0]
  /\ nonces = [s \in Senders |-> {Nonce[t] : t \in OfSender(s, transactions)}]
  /\ evicted = <<>> /\ banned = {} /\ mined = {}
  /\ task = [p \in Tasks |-> Idle] /\ torn = {}

At(p, pc) == task[p].pc = pc
Goto(p, pc) == task' = [task EXCEPT ![p].pc = pc]
Return(p) == task' = [task EXCEPT ![p] = Idle]

(* Remove the transactions of a set one after the other, then go on at ret. *)
RemoveAll(p, S, ret) == task' = [task EXCEPT ![p].pc = "remove", ![p].todo = S, ![p].ret = ret]

----------------------------------------------------------------------------
(* remove_transaction                                                      *)

(* The removal from transactions decides: what is not there is left alone. *)
Take(p) ==
  /\ At(p, "remove") /\ task[p].todo # {}
  /\ \E t \in task[p].todo :
       /\ transactions' = transactions \ {t}
       /\ task' = [task EXCEPT ![p].todo = @ \ {t},
                               ![p].pc = IF t \in transactions THEN "dequeue" ELSE "remove",
                               ![p].victim = IF t \in transactions THEN t ELSE NoTx]
  /\ UNCHANGED <<queue, listed, nonces, total, evicted, banned, window, mined, work>>

Dequeue(p) ==
  /\ At(p, "dequeue") /\ Goto(p, "unlist")
  /\ queue' = queue \ {task[p].victim}
  /\ UNCHANGED <<transactions, listed, nonces, total, evicted, banned, window, mined, work>>

Unlist(p) ==
  /\ At(p, "unlist") /\ Goto(p, "shrink")
  /\ listed' = [listed EXCEPT ![task[p].victim] = 0]
  /\ UNCHANGED <<transactions, queue, nonces, total, evicted, banned, window, mined, work>>

Shrink(p) ==
  /\ At(p, "shrink") /\ Goto(p, "forget")
  /\ total' = Max({0, total - Size[task[p].victim]})
  /\ UNCHANGED <<transactions, queue, listed, nonces, evicted, banned, window, mined, work>>

ForgetTipOnly(p) ==   \* mutant: only the highest nonce is taken back
  /\ At(p, "forget") /\ Goto(p, "remember")
  /\ LET v == task[p].victim
     IN nonces' = [nonces EXCEPT ![From[v]] = IF @ # {} /\ Nonce[v] = Max(@) THEN @ \ {Nonce[v]} ELSE @]
  /\ UNCHANGED <<transactions, queue, listed, total, evicted, banned, window, mined, work>>

Forget(p) ==
  /\ At(p, "forget") /\ Goto(p, "remember")
  /\ LET v == task[p].victim IN nonces' = [nonces EXCEPT ![From[v]] = @ \ {Nonce[v]}]
  /\ UNCHANGED <<transactions, queue, listed, total, evicted, banned, window, mined, work>>

(* BoundedHashSet::insert: past its capacity the oldest hash is dropped.   *)
Remember(p) ==
  /\ At(p, "remember")
  /\ LET v == task[p].victim
         all == IF \E i \in DOMAIN evicted : evicted[i] = v THEN evicted ELSE Append(evicted, v)
     IN evicted' = IF Len(all) > EvictedCap THEN Tail(all) ELSE all
  /\ task' = [task EXCEPT ![p].pc = "remove", ![p].victim = NoTx]
  /\ UNCHANGED <<transactions, queue, listed, nonces, total, banned, window, mined, work>>

Removed(p) ==
  /\ At(p, "remove") /\ task[p].todo = {}
  /\ IF task[p].ret = "idle" THEN Return(p)
     ELSE task' = [task EXCEPT ![p].pc = task[p].ret, ![p].ret = "idle"]
  /\ UNCHANGED <<pool, banned, window, mined, work>>

RemoveTransaction(p) ==
  Take(p) \/ Dequeue(p) \/ Unlist(p) \/ Shrink(p) \/ Forget(p) \/ Remember(p) \/ Removed(p)

(* sweep_if_v1_window_closed: the first caller that finds the window       *)
(* closed evicts what the block rule refuses.                              *)
Sweep(p, ret) ==
  /\ At(p, "sweep")
  /\ IF window = "closed"
     THEN window' = "swept" /\ RemoveAll(p, Legacy \intersect transactions, ret)
     ELSE window' = window /\ Goto(p, ret)
  /\ UNCHANGED <<pool, banned, mined, work>>
----------------------------------------------------------------------------
(* add_transaction                                                         *)

Committed(s) == Cardinality(OfSender(s, mined))       \* the state's nonce of s
Funds(s) == Balance[s] - SumOf(Cost, OfSender(s, mined))

(* The pooled transactions of a sender, as by_sender and transactions know *)
(* them together.                                                          *)
Pending(s) == {t \in OfSender(s, transactions) : listed[t] > 0}

Submit(p) ==
  /\ At(p, "idle")
  /\ \E t \in offers[p] :
       /\ task' = [task EXCEPT ![p] = [Idle EXCEPT !.pc = "sweep", !.tx = t]]
       /\ offers' = [offers EXCEPT ![p] = @ \ {t}]
  /\ UNCHANGED <<pool, banned, window, mined, rounds>>

(* The checks, in their order.                                             *)
NextCheck ==
  [validate |-> "duplicate", duplicate |-> "evicted", evicted |-> "limit",
   limit |-> "nonce", nonce |-> "funds", funds |-> "count"]

(* validate_transaction, as far as it reads anything that changes.         *)
Valid(t) ==
  /\ From[t] \notin banned
  /\ Nonce[t] \in Committed(From[t]) .. Committed(From[t]) + MaxNonceGap
  /\ window = "open" \/ t \notin Legacy

NonceFree(t) ==
  LET set == nonces[From[t]]
  IN /\ Nonce[t] \notin set
     /\ set = {} \/ Nonce[t] - Min(set) <= MaxNonceGap
     /\ Nonce[t] # LastNonce

Passes(t, check) ==
  CASE check = "validate"  -> Valid(t)
    [] check = "duplicate" -> t \notin transactions
    [] check = "evicted"   -> \A i \in DOMAIN evicted : evicted[i] # t
    [] check = "limit"     -> SumOf(listed, OfSender(From[t], Txs)) < MaxPerSender
    [] check = "nonce"     -> NonceFree(t)
    [] check = "funds"     -> Funds(From[t]) >= Cost[t] +
                                MapThenSumSet(LAMBDA u : listed[u] * Cost[u], Pending(From[t]))

Check(p) ==
  /\ task[p].pc \in DOMAIN NextCheck
  /\ IF Passes(task[p].tx, task[p].pc) THEN Goto(p, NextCheck[task[p].pc]) ELSE Return(p)
  /\ UNCHANGED <<pool, banned, window, mined, work>>

CheckCount(p) ==
  /\ At(p, "count")
  /\ task' = [task EXCEPT ![p].pc = IF Cardinality(transactions) >= MaxPool THEN "evict" ELSE "bytes"]
  /\ UNCHANGED <<pool, banned, window, mined, work>>

CheckBytes(p) ==
  /\ At(p, "bytes")
  /\ Goto(p, IF total + Size[task[p].tx] > MaxBytes THEN "evict" ELSE "insert")
  /\ UNCHANGED <<pool, banned, window, mined, work>>

Lowest == {t \in queue : \A u \in queue : Score[t] <= Score[u]}

EvictOrGoOn(p) ==   \* mutant: a queue with nothing to evict is not an error
  /\ At(p, "evict")
  /\ \/ \E t \in Lowest : Score[t] <= Score[task[p].tx] /\ RemoveAll(p, {t}, "bytes")
     \/ (\A t \in Lowest : Score[t] > Score[task[p].tx]) /\ RemoveAll(p, {}, "bytes")
  /\ UNCHANGED <<pool, banned, window, mined, work>>

(* evict_lower_priority_than: a lowest entry of the queue goes unless it   *)
(* is better than the newcomer, which is then refused (Full).  Whether the *)
(* entry was still in transactions makes no difference to the caller.      *)
EvictLowerPriorityThan(p) ==
  /\ At(p, "evict")
  /\ \/ \E t \in Lowest : Score[t] <= Score[task[p].tx] /\ RemoveAll(p, {t}, "bytes")
     \/ (\A t \in Lowest : Score[t] > Score[task[p].tx]) /\ Return(p)
  /\ UNCHANGED <<pool, banned, window, mined, work>>

Insert(p) ==
  /\ At(p, "insert") /\ Goto(p, "push")
  /\ transactions' = transactions \union {task[p].tx}
  /\ UNCHANGED <<queue, listed, nonces, total, evicted, banned, window, mined, work>>

Push(p) ==
  /\ At(p, "push") /\ Goto(p, "list")
  /\ queue' = queue \union {task[p].tx}
  /\ UNCHANGED <<transactions, listed, nonces, total, evicted, banned, window, mined, work>>

List(p) ==
  /\ At(p, "list") /\ Goto(p, "note")
  /\ listed' = [listed EXCEPT ![task[p].tx] = @ + 1]
  /\ UNCHANGED <<transactions, queue, nonces, total, evicted, banned, window, mined, work>>

Note(p) ==
  /\ At(p, "note") /\ Goto(p, "grow")
  /\ LET t == task[p].tx IN nonces' = [nonces EXCEPT ![From[t]] = @ \union {Nonce[t]}]
  /\ UNCHANGED <<transactions, queue, listed, total, evicted, banned, window, mined, work>>

Grow(p) ==
  /\ At(p, "grow") /\ Return(p)
  /\ total' = total + Size[task[p].tx]
  /\ UNCHANGED <<transactions, queue, listed, nonces, evicted, banned, window, mined, work>>

AddTransaction(p) ==
  \/ Sweep(p, "validate") \/ Check(p) \/ CheckCount(p) \/ CheckBytes(p)
  \/ EvictLowerPriorityThan(p) \/ Insert(p) \/ Push(p) \/ List(p) \/ Note(p) \/ Grow(p)

----------------------------------------------------------------------------
(* get_best_transactions: one snapshot of three collections.               *)

(* The queue, best first.  Of two equal scores the older goes first, by a  *)
(* timestamp in seconds, so that either may.                               *)
ByPriority ==
  {s \in SetToSeqs(queue) : \A i, j \in DOMAIN s : i < j => Score[s[i]] >= Score[s[j]]}

(* A sender's next transaction is the successor of the last one picked, or *)
(* the lowest pending nonce.                                               *)
IsNext(sel, t) ==
  LET picked == {Nonce[u] : u \in OfSender(From[t], ToSet(sel))}
  IN IF picked # {} THEN Nonce[t] = Max(picked) + 1
     ELSE \A u \in Pending(From[t]) : Nonce[t] <= Nonce[u]

Pick(sel, t) ==
  IF /\ Len(sel) < MaxCount /\ t \in transactions \ ToSet(sel)
     /\ SumOf(Size, ToSet(sel)) + Size[t] <= MaxBlockBytes
     /\ IsNext(sel, t) /\ Nonce[t] # LastNonce
  THEN Append(sel, t) ELSE sel

BestOnePass(sorted) == FoldLeft(Pick, <<>>, sorted)   \* mutant: the queue is walked once

(* Passes over the queue until one adds nothing.                           *)
BestTransactions(sorted) ==
  LET pass[n \in 0..Len(sorted)] ==
        IF n = 0 THEN <<>> ELSE FoldLeft(Pick, pass[n - 1], sorted)
  IN pass[Len(sorted)]

----------------------------------------------------------------------------
(* The producer's round.                                                   *)

StartRound(p) ==
  /\ At(p, "idle") /\ rounds[p] > 0 /\ rounds' = [rounds EXCEPT ![p] = @ - 1]
  /\ Goto(p, "sweep")
  /\ UNCHANGED <<pool, banned, window, mined, offers>>

Select(p) ==
  /\ At(p, "select")
  /\ \E sorted \in ByPriority :
       task' = [task EXCEPT ![p].pc = "selected", ![p].block = BestTransactions(sorted)]
  /\ UNCHANGED <<pool, banned, window, mined, work>>

(* Candidates no block may carry (their signature or what they cost) go.   *)
Discard(p) ==
  /\ At(p, "selected")
  /\ \E D \in SUBSET ToSet(task[p].block) :
       task' = [task EXCEPT ![p].pc = "remove", ![p].todo = D, ![p].ret = "execute",
                            ![p].block = SelectSeq(@, LAMBDA t : t \notin D)]
  /\ UNCHANGED <<pool, banned, window, mined, work>>

(* A candidate that fails without a receipt goes, its sender is refused    *)
(* for a while, and the sender's later candidates are left for another     *)
(* block.                                                                  *)
Fail(p) ==
  /\ At(p, "execute")
  /\ \E t \in ToSet(task[p].block) :
       task' = [task EXCEPT ![p].pc = "remove", ![p].todo = {t}, ![p].tx = t, ![p].ret = "ban",
                            ![p].block = SelectSeq(@, LAMBDA u : From[u] # From[t] \/ Nonce[u] < Nonce[t])]
  /\ UNCHANGED <<pool, banned, window, mined, work>>

(* ban_sender: the ban, and then the removal of what by_sender lists.      *)
BanSender(p) ==
  /\ At(p, "ban") /\ Goto(p, "purge")
  /\ banned' = banned \union {From[task[p].tx]}
  /\ UNCHANGED <<pool, window, mined, work>>

Purge(p) ==
  /\ At(p, "purge")
  /\ RemoveAll(p, {t \in OfSender(From[task[p].tx], Txs) : listed[t] > 0}, "execute")
  /\ UNCHANGED <<pool, banned, window, mined, work>>

(* The block: those of the candidates that ran, every sender's nonces in   *)
(* their order.  They leave the pool; then reconcile_nonces.  After an     *)
(* empty block, and when they cannot be written, neither is done.          *)
Commit(p) ==
  /\ At(p, "execute")
  /\ \E E \in SUBSET ToSet(task[p].block) :
       /\ mined' = mined \union E
       /\ \A s \in Senders :
            {Nonce[t] : t \in OfSender(s, E)} =
              Committed(s) .. Committed(s) + Cardinality(OfSender(s, E)) - 1
       /\ Return(p) \/ (E # {} /\ RemoveAll(p, E, "reconcile"))
  /\ UNCHANGED <<pool, banned, window, work>>

ReconcileNonces(p) ==
  /\ At(p, "reconcile") /\ Return(p)
  /\ nonces' = [s \in Senders |-> {Nonce[t] : t \in Pending(s)}]
  /\ UNCHANGED <<transactions, queue, listed, total, evicted, banned, window, mined, work>>

Produce(p) ==
  \/ Sweep(p, "select") \/ Select(p) \/ Discard(p) \/ Fail(p) \/ BanSender(p) \/ Purge(p)
  \/ Commit(p) \/ ReconcileNonces(p)

----------------------------------------------------------------------------
(* clear_expired, and the world outside.                                   *)

Expire(p) ==
  /\ At(p, "idle") /\ rounds[p] > 0 /\ rounds' = [rounds EXCEPT ![p] = @ - 1]
  /\ \E S \in SUBSET transactions : RemoveAll(p, S, "legacy")
  /\ UNCHANGED <<pool, banned, window, mined, offers>>

ExpireLegacy(p) ==
  /\ At(p, "legacy")
  /\ IF window = "open" THEN Return(p) ELSE RemoveAll(p, Legacy \intersect transactions, "idle")
  /\ UNCHANGED <<pool, banned, window, mined, work>>

(* The tip reaches the block before the activation height.                 *)
CloseWindow ==
  /\ window = "open" /\ window' = "closed"
  /\ UNCHANGED <<pool, banned, mined, task, work>>

(* A ban runs out, or makes room for another in the bounded map.           *)
Unban ==
  /\ \E s \in banned : banned' = banned \ {s}
  /\ UNCHANGED <<pool, window, mined, task, work>>

(* The slots an operation works on: an addition from the moment it has     *)
(* looked for a duplicate, a removal while it is under way.                *)
Busy(p) ==
  LET adding == p \in Adders /\ task[p].pc \notin {"idle", "sweep", "validate", "duplicate"}
                  /\ task[p].ret # "validate"
  IN {Slot(t) : t \in (IF adding THEN {task[p].tx} ELSE {}) \union ({task[p].victim} \ {NoTx})}

(* Only p's own slots change in a step of p.                               *)
Overlap(p) == UNION {Busy(p) \intersect Busy(q) : q \in Tasks \ {p}}

(* What a task does once it has begun; what begins.                        *)
Step(p) ==
  /\ \/ RemoveTransaction(p)
     \/ p \in Adders /\ AddTransaction(p)
     \/ p \in Producers /\ Produce(p)
     \/ p \in Timers /\ ExpireLegacy(p)
  /\ torn' = torn \union Overlap(p)'

Begin ==
  /\ \/ \E p \in Adders : Submit(p)
     \/ \E p \in Producers : StartRound(p)
     \/ \E p \in Timers : Expire(p)
     \/ CloseWindow
     \/ Unban
  /\ torn' = torn

Next == Begin \/ \E p \in Tasks : Step(p)

(* A task that is scheduled goes on: no step waits for anything but a lock *)
(* that is held for the length of one access.                              *)
Fairness == \A p \in Tasks : WF_vars(Step(p))

Spec == Init /\ [][Next]_vars /\ Fairness

----------------------------------------------------------------------------
(* Properties                                                              *)

(* The collections agree.  Whatever the tasks did elsewhere at the same    *)
(* time, a slot (sender and nonce) that no two operations ever worked on   *)
(* together, and that none works on now, is the same in all of them: a     *)
(* transaction is in transactions iff it is queued, by_sender lists it     *)
(* once iff it is there, its nonce is taken iff a transaction of the slot  *)
(* is there, and no two are.  The byte count never falls below what the    *)
(* pool holds, and is exact as long as nothing was torn.  This is what     *)
(* add_transaction and remove_transaction owe to each other with a lock    *)
(* per collection, and what pending_nonce_for and the byte budget rely on. *)
Indexed ==
  LET busy == UNION {Busy(p) : p \in Tasks}
      held == SumOf(Size, transactions)
  IN /\ \A t \in Txs : Slot(t) \notin torn \union busy =>
          LET there == {u \in transactions : Slot(u) = Slot(t)}
          IN /\ (t \in queue) = (t \in transactions)
             /\ listed[t] = IF t \in transactions THEN 1 ELSE 0
             /\ (Nonce[t] \in nonces[From[t]]) = (there # {})
             /\ Cardinality(there) <= 1
     /\ busy = {} => total >= held
     /\ busy = {} /\ torn = {} => total = held

(* A selection (get_best_transactions) is, for every sender none of whose  *)
(* slots was torn, the run of consecutive nonces from the sender's lowest  *)
(* pooled one, in their order, and it stops short of the whole run only    *)
(* where the count or the next transaction's size allows no more.          *)
SelectionIsRun ==
  [][\A p \in Producers :
       At(p, "select") /\ task'[p].pc = "selected" =>
         LET block == task'[p].block
         IN \A s \in {r \in Senders : \A slot \in torn \union UNION {Busy(q) : q \in Tasks} : slot[1] # r} :
              LET mine == SelectSeq(block, LAMBDA t : From[t] = s)
                  own == OfSender(s, transactions)
                  first == Min({Nonce[t] : t \in own})
              IN /\ own = {} => mine = <<>>
                 /\ \A i \in DOMAIN mine : mine[i] \in own /\ Nonce[mine[i]] = first + i - 1
                 /\ \A t \in own :
                      Nonce[t] = first + Len(mine) =>
                        \/ Len(block) = MaxCount
                        \/ SumOf(Size, ToSet(block)) + Size[t] > MaxBlockBytes]_vars

(* Entries of the queue that nobody will take out: their transaction is    *)
(* gone and no removal of it is under way.                                 *)
Ghosts == {t \in queue \ transactions : \A p \in Tasks : task[p].victim # t}

(* Every submission is answered: the loop of add_transaction that evicts   *)
(* until the newcomer fits the byte budget comes to an end, whatever the   *)
(* other tasks remove and add meanwhile, unless the queue keeps an entry   *)
(* whose transaction is gone, which the loop evicts in vain for ever.      *)
AddReturns ==
  \A p \in Adders : []<>At(p, "idle") \/ <>[](Ghosts # {})
=============================================================================
