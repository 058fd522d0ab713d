SPECIFICATION Spec
CHECK_DEADLOCK FALSE
CONSTANTS
  v1 = v1
  v2 = v2
  Whole = Whole
  Worker = {w1, w2}
  Desk = {w1}
  Hook = {w2}
  Mortal = {w2}
  MaxCrashes = 1
  VendorOrder = {v1, v2}
  Total <- Totals
  Scopes = {"vendor_denial", "full_vendor_order", "full_order", "custom_vendor_partial", "dashboard"}
  Faults = {"lost_answer", "refused"}
  Copies = {1}
  Slow = {1}
  MaxRequests = 2
INVARIANTS TypeOK LedgerIsBacked LedgerIsComplete WithinCaps Booking
