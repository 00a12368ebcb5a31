\* One reader who leaves the chat, misses a message and joins again.
SPECIFICATION Spec
CONSTANTS
  u1 = u1  u2 = u2  d1 = d1
  Up = {u1}
  Down = {d1}
  Limit = 2
  MaxLength = 2
  MaxChanges = 2
INVARIANTS ReadsStayInPeriods
CHECK_DEADLOCK FALSE
