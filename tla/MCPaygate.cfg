\* Two requests, every mishap; the requests are bounded, so the system stops.
SPECIFICATION Spec
CONSTANTS
  Requests = {r1, r2}
  Configs <- Shops
  TTL = 1
  MaxDelay = 1
  Faults = {"lost", "crash", "refusal", "stream", "replay"}
INVARIANTS
  UnservedChargeIsLost
  ServedOncePerPayment
  PaysTheCurrentPrice
  OfferFresh
PROPERTIES
  EveryRequestEnds
CHECK_DEADLOCK FALSE
