CONSTANTS
  Ids = {1, 2}
  ResultDepth = 1
  AllocMayFail = FALSE
  N = 1
  Pages = {0}
  Phases = {"UNSYNCED", "WEEKEND", "PRE_OPEN", "OPENING", "TRADING"}
  Dates = {"today", "old", "undated"}
  FetchErrors = {"NONE", "NETWORK", "EXPIRED"}
SPECIFICATION Spec
INVARIANTS ConfirmedByLatestQuote
