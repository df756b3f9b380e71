\* Every fault, and a worker for every task.
SPECIFICATION FairSpec
CONSTANTS
  Tasks = {t1, t2, t3}
  NSigners = 1
  Workers = 3
  Faults = {"rpc", "timeout", "cancel", "restart"}
INVARIANTS
  UniqueNonces
  NoNonceSkipped
PROPERTIES
  EveryCallEnds
CHECK_DEADLOCK FALSE
