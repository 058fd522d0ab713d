SPECIFICATION Spec
CHECK_DEADLOCK FALSE
CONSTANTS
  NoAccount = NoAccount
  Account = {a1}
  Worker = {w1, w2}
  Kinds = {"auto", "cron", "retry", "rotate", "reconcile", "recheck", "connect", "refund", "dashboard", "reverse"}
  Faults = {"crash", "lost_answer", "write_lost", "refused", "unlisted", "no_charge"}
  MaxKey = 1
  MaxErrors = 4
SYMMETRY Workers
INVARIANTS Backed PaidAtMostOnce Guarded
