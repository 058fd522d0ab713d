SPECIFICATION Spec
CHECK_DEADLOCK FALSE
CONSTANTS
  v1 = v1
  v2 = v2
  NoOrder = NoOrder
  VendorOrder = {v1, v2}
  Worker = {w1}
  Mode <- MCPosMix
  Linked = {v1}
  Kinds = {"payment", "webhook", "sync", "retry"}
  Faults = {"fetch_failed"}
  MaxCalls = 2
  MaxRequests = 2
  MaxTickets = 3
  MaxReports = 4
INVARIANTS ResubmitOnlyAfterFailure
PROPERTIES FulfillmentOnlyAdvances
