SPECIFICATION FairSpec
CHECK_DEADLOCK FALSE
CONSTANTS
  NoAccount = NoAccount
  Account = {a1, a2}
  Worker = {w1}
  Kinds = {"auto", "cron", "batch", "retry", "rotate", "reconcile", "recheck", "connect", "refund", "dashboard", "reverse"}
  Faults = {"crash", "lost_answer", "write_lost", "refused", "no_balance", "no_charge", "expiry"}
  MaxKey = 2
  MaxErrors = 3
INVARIANTS TypeOK
PROPERTIES KeepsObligation VendorIsPaid
