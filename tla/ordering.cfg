SPECIFICATION Spec
CHECK_DEADLOCK FALSE
CONSTANTS
  Host = host
  Guest = {g1}
  NoOne = NoOne
  Worker = {w1}
  Item = {i1}
  Deeds = {"add", "set", "clear", "join", "leave", "start", "unlock", "end", "expire", "resume"}
  Faults = {"lost_answer", "unorderable", "other_tip", "lookup_fails"}
  MaxQuantity = 2
  MaxWrites = 2
  MaxForms = 2
  MaxReplaced = 1
INVARIANTS TypeOK Charged OrderIsAsShown OneUnpaidOrder NoLineIsPaidTwice PaidIsCharged
PROPERTIES LockedCartIsFixed ClosedStaysClosed
