SPECIFICATION Spec
CONSTANTS
  Tabs = {t1, t2}
  Cells = {1}
  MaxProjects = 2
  MaxTokens = 3
  MaxKills = 2
  MaxRefusals = 1
  MaxDeletes = 0
  MaxWrites = 3
  NoTab = NoTab
  NoProject = NoProject
  NoDocument = NoDocument
  NoSession = NoSession
SYMMETRY TabSymmetry
INVARIANT EveryListedProjectTitled
CHECK_DEADLOCK FALSE
