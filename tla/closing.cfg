SPECIFICATION FairSpec
CHECK_DEADLOCK FALSE
CONSTANTS
  v1 = v1
  v2 = v2
  NoOrder = NoOrder
  VendorOrder = {v1, v2}
  Worker = {w1}
  Mode <- MCTwoPos
  Linked = {v1, v2}
  Kinds = {"payment", "webhook"}
  Faults = {"lost_answer"}
  MaxCalls = 1
  MaxRequests = 0
  MaxTickets = 1
  MaxReports = 4
PROPERTIES ClosedOrderIsShown PaidOrderIsRouted
