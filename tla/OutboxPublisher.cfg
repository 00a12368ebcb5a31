\* Two workers compete for three rows while three things go wrong; no symmetry, because
\* a liveness property is among the properties.
SPECIFICATION FairSpec
CONSTANTS
  w1 = w1  w2 = w2
  None = None
  Event <- MCEvent
  Malformed <- MCMalformed
  Worker = {w1, w2}
  MaxFaults = 3
INVARIANTS DeliveredWasPublished DuplicatesNeedFaults
PROPERTIES LeaseIsExclusive EventsAreDelivered
