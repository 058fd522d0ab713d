SPECIFICATION Spec
CHECK_DEADLOCK FALSE
CONSTANTS
  NoAccount = NoAccount
  Account = {a1}
  Worker = {w1, w2}
  Kinds = {"auto", "refund"}
  Faults = {}
  MaxKey = 0
  MaxErrors = 0
INVARIANTS FullRefundIsNotPaid
