CONSTANTS
  Ids = {1, 2, 3, 4}
  ResultDepth = 4
  AllocMayFail = FALSE
  N = 3
  Pages = {0}
  Phases = {"TRADING"}
  Dates = {"undated"}
  FetchErrors = {"EXPIRED"}
SPECIFICATION FairSpec
PROPERTIES EveryStockRefreshed
