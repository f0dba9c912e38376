CONSTANTS
  Window = 2
  ProbeInterval = 3
  AgeCap = 4
  MaxQuotes = 2
  MaxProbes = 2
  ClockMayWrap = TRUE
SPECIFICATION FairSpec
PROPERTIES SwitchOnlyAfterThreeFailures ReturnOnlyAfterTwoSuccesses PrimaryReturns
