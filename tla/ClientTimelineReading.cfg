\* One chat, only others write: one that fits a page of its history with three
\* failures, and one longer than every page and than the timeline with none.
SPECIFICATION FairSpec
CONSTANTS
  a = a  b = b  o1 = o1
  Other = Other  None = None
  Chat = {a}
  Own = {}
  Instances <- ReadingInstances
INVARIANTS NoHoles CompleteWhenQuiet
PROPERTIES CaughtUp
CHECK_DEADLOCK FALSE
