\* A facilitator that answers "success": false to a settlement it declines.
SPECIFICATION Spec
CONSTANTS
  Requests = {r1}
  Configs <- DearShops
  TTL = 1
  MaxDelay = 1
  Faults = {"refusal"}
INVARIANT ServedHasPaid
CHECK_DEADLOCK FALSE
