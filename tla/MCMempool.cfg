SPECIFICATION Spec
CONSTANTS
  a = a
  b = b
  a0v1 = a0v1
  a0 = a0
  a1 = a1
  a2 = a2
  b0 = b0
  rpc = rpc
  p2p = p2p
  producer = producer
  timer = timer
  NoTx = NoTx
  Txs <- MCTxs
  Senders = {a, b}
  From <- MCFrom
  Nonce <- MCNonce
  Cost <- MCCost
  Size <- MCSize
  Score <- MCScore
  Legacy <- MCLegacy
  Balance <- MCBalance
  Adders = {rpc, p2p}
  Producers = {producer}
  Timers = {timer}
  MaxPool = 2
  MaxBytes = 2
  MaxPerSender = 2
  MaxNonceGap = 2
  LastNonce = 4
  EvictedCap = 1
  MaxCount = 2
  MaxBlockBytes = 3
  Scenarios <- MCScenarios
INVARIANTS Indexed
PROPERTIES SelectionIsRun AddReturns
CHECK_DEADLOCK FALSE
