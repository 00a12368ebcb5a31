\* Two walks up and one down, with pages of two items, while messages are written
\* and the reader's rights change twice.
SPECIFICATION Spec
CONSTANTS
  u1 = u1  u2 = u2  d1 = d1
  Up = {u1, u2}
  Down = {d1}
  Limit = 2
  MaxLength = 6
  MaxChanges = 2
INVARIANTS WalksLeaveNothingOut
PROPERTIES WalksEndAtTheEnd
CHECK_DEADLOCK FALSE
