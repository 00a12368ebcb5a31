\* Two chats and one switch, nothing fails.
SPECIFICATION Spec
CONSTANTS
  a = a  b = b  o1 = o1
  Other = Other  None = None
  Chat = {a, b}
  Own = {}
  Instances <- SwitchInstances
INVARIANTS CompleteWhenQuiet
CHECK_DEADLOCK FALSE
