SPECIFICATION Spec
CHECK_DEADLOCK FALSE
CONSTANTS
  v1 = v1
  v2 = v2
  NoOrder = NoOrder
  VendorOrder = {v1}
  Worker = {w1, w2}
  Mode <- MCDeliverect
  Linked = {v1}
  Kinds = {"payment", "webhook", "recovery", "recheck"}
  Faults = {"crash", "lost_answer"}
  MaxCalls = 1
  MaxRequests = 1
  MaxTickets = 1
  MaxReports = 2
SYMMETRY Workers
INVARIANTS NothingInvented
PROPERTIES StartedStaysStarted
