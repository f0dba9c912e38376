CONSTANTS
  Ids = {1, 2}
  ResultDepth = 2
  AllocMayFail = TRUE
  N = 1
  Pages = {0}
  Phases = {"TRADING"}
  Dates = {"today"}
  FetchErrors = {"NONE", "CANCELLED"}
SPECIFICATION FairSpec
PROPERTIES OutstandingReleased
