SPECIFICATION Spec
CONSTANTS
  news = news
  special = special
  Titles <- MCTitles
  MaxRules = 2
  Measured = 5
  N = 2
  Kinds <- MCKinds
  MaxTime = 2
  DefaultAhead = FALSE
  DefaultServe = FALSE
  DefaultDelete = TRUE
  ProcessBacklog = 1
  Clients = {c1, c2}
  Settings <- MCSettings
  NewSettings <- MCNewSettings
  RuleLists <- MCRuleLists
  Forms <- MCForms
  ETags = TRUE
  MaxIds = 2
  FirstSources <- MCFirstSources
  Budgets <- MCBudgets
INVARIANTS TypeOK  RowsFollowDocument 
PROPERTIES  ReleasedOnce 
SYMMETRY MCSymmetry
CHECK_DEADLOCK FALSE
