\* One worker, nothing fails, and the oldest row is one the contract refuses.
SPECIFICATION FairSpec
CONSTANTS
  w1 = w1  w2 = w2
  None = None
  Event <- MCEvent
  Malformed <- MCFirstMalformed
  Worker = {w1}
  MaxFaults = 0
PROPERTIES DeliveryIsAtLeastOnce
