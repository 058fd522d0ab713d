SPECIFICATION FairSpec
CHECK_DEADLOCK FALSE
CONSTANTS
  Item = {coffee, bowl}
  Configured = {bowl}
  Taps = {"add", "increment", "decrement", "remove", "configure", "navigate"}
  Faults = {"refused", "lost", "dialog_fails"}
  MaxTaps = 3
INVARIANTS TypeOK ShownIsServer TapsAreKept LeavesSynced
PROPERTIES SyncsInTheEnd
