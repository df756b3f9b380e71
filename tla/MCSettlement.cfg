\* A claimant and a duplicate of one transaction, with every fault.
SPECIFICATION FairSpec
CONSTANTS
  Requests = {r1, r2}
  Txs = {t1}
  MaxAttempts = 2
  MaxPolls = 2
  Faults = {"crash", "redis", "expire", "flush"}
INVARIANTS
  AtMostOneSubmitter
  SuccessIsRepeatable
  SuccessMeansOnChain
PROPERTIES
  NothingTakenBack
  ImplementsService
  EveryRequestAnswered
CHECK_DEADLOCK FALSE
