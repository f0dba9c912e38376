CONSTANTS
  Ids = {1, 2}
  ResultDepth = 1
  AllocMayFail = TRUE
  N = 2
  Pages = {0, 1}
  Phases = {"TRADING"}
  Dates = {"today"}
  FetchErrors = {"NONE", "CANCELLED"}
SPECIFICATION Spec
INVARIANTS OutstandingMirrorsWorker OneRequestPerUrgency NoForeignData
