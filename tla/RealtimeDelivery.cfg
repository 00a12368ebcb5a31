SPECIFICATION FairSpec
CONSTANTS
  LastMessage = 2
  Run <- MCRun
  Socket = {s1}
  Instance = {a, b}
  Worker = {w}
  BatchSize = 2
  None = none
  MaxFaults = 1
  MaxChanges = 1
INVARIANTS AcknowledgedWasSeen SeenWithinSession
PROPERTIES RelayCatchesUp
