\* A layer with a Solana price tag of protocol version 2.
SPECIFICATION Spec
CONSTANTS
  Requests = {r1, r2}
  Configs <- SolanaShops
  TTL = 1
  MaxDelay = 1
  Faults = {"lost", "crash", "refusal", "stream", "replay"}
INVARIANT OfferedIsAccepted
CHECK_DEADLOCK FALSE
