SPECIFICATION Spec
CONSTANTS
  None = None
  HOURS_IN_A_DAY = 3
  DAYS_PER_WEEK = 2
  Request <- MCRequest
  Rule <- MCRule
  Session <- MCSession
  Allowance <- MCAllowance
  Fact <- MCFact
  MaxRules = 2
  Tabled <- MCTabled
  Protected <- MCProtected
  Loosening <- MCLoosening
  KeyFile <- MCKeyFile
  Inside <- MCInside
  Scratch <- MCScratch
  Quiet <- MCQuiet
CHECK_DEADLOCK FALSE
INVARIANTS NoMatchIsFilteredOut RefusalsStand WorkspaceAskStands WindowIsItsHours
PROPERTIES PublishingOnlyTightens
