\* As many blocked calls as there are workers.
SPECIFICATION FairSpec
CONSTANTS
  Tasks = {t1, t2, t3}
  NSigners = 1
  Workers = 1
  Faults = {"rpc", "timeout"}
PROPERTIES
  EveryCallEnds
CHECK_DEADLOCK FALSE
