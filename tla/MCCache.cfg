\* Two addresses and one place in the Map; invalidations, restarts and
\* failing Redis commands.
SPECIFICATION Spec
CONSTANTS
  Addresses = {a1, a2}
  Queries = {q1, q2}
  Ttl = 2
  MaxL1Entries = 1
  MaxInvalidations = 1
  Faults = {"redis"}
SYMMETRY Symmetry
INVARIANTS
  L1Bounded
  StaleAtMostTwice
  QuietInvalidationForcesFetch
