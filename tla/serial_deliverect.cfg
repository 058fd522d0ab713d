SPECIFICATION Spec
CHECK_DEADLOCK FALSE
CONSTANTS
  v1 = v1
  v2 = v2
  NoOrder = NoOrder
  VendorOrder = {v1, v2}
  Worker = {w1}
  Mode <- MCMixed
  Linked = {v1}
  Kinds = {"payment", "webhook", "dashboard", "admin", "recovery", "recheck"}
  Faults = {"lost_answer", "no_id", "fetch_failed"}
  MaxCalls = 2
  MaxRequests = 2
  MaxTickets = 2
  MaxReports = 3
INVARIANTS TypeOK NoInventedStatus ParentAgreesAtRest KitchenIsReflected
PROPERTIES FulfillmentOnlyAdvances AdminOverrideIsKept
