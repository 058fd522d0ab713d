SPECIFICATION Spec
CHECK_DEADLOCK FALSE
CONSTANTS
  NoAccount = NoAccount
  Account = {a1, a2}
  Worker = {w1}
  Kinds = {"auto", "cron", "batch", "retry", "rotate", "reconcile", "recheck", "connect", "refund", "dashboard", "reverse"}
  Faults = {"refused", "unlisted", "no_balance", "no_charge", "expiry"}
  MaxKey = 1
  MaxErrors = 2
INVARIANTS RefundedIsNotPaid PaidIsBacked
