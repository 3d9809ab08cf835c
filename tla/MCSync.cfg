SPECIFICATION Spec
CONSTANTS
  Pass = {"daemon", "cli"}
  Daemon = "daemon"
  Kind <- MCKind
  OVERLAP = 1
  MAX_POST = 3
  Chunks = 2
  Mode = {"observe", "enforce"}
  None = None
  Broken = {2}
  Budgets <- MCBudgets
CHECK_DEADLOCK FALSE
INVARIANTS NothingSkipped SentOnce NothingFromBefore WholeBundle
PROPERTIES LedgerArrives
