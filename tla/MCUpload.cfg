\* Uploads that share transactions and contents, with every fault.
SPECIFICATION FairSpec
CONSTANTS
  Requests = {u1, u2}
  Txs = {t1, t2}
  Contents = {c1, c2}
  Downloads = {d1}
  Pieces = 2
  Faults = {"crash", "disk"}
INVARIANTS
  SettleBeforeExecution
  WholeAtRest
PROPERTIES
  StoredStaysFound
  EveryUploadAnswered
CHECK_DEADLOCK FALSE
