\* Two chats: the panel leaves a chat while its own message, reads and events are under way.
SPECIFICATION Spec
CONSTANTS
  a = a  b = b  o1 = o1
  Other = Other  None = None
  Chat = {a, b}
  Own = {o1}
  Instances <- SwitchingInstances
SYMMETRY ChatSymmetry
INVARIANTS NoDoubles NothingAboveIsMissed
CHECK_DEADLOCK FALSE
