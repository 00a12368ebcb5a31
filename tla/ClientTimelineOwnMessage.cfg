\* One chat, one own message, nothing fails.
SPECIFICATION Spec
CONSTANTS
  a = a  b = b  o1 = o1
  Other = Other  None = None
  Chat = {a}
  Own = {o1}
  Instances <- OwnMessageInstances
INVARIANTS CompleteWhenQuiet
CHECK_DEADLOCK FALSE
