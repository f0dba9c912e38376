CONSTANTS
  P = P
  Q = Q
  A = A
  NoAccount = NoAccount
  NoSerial = NoSerial
  PrinterCount = 2
  Serials = {P, Q}
  Accounts = {A}
  Configs <- MCTwoConfigs
  BaseInterval = 2
  Phase2Interval = 2
  Phase3Interval = 2
  Phase1Fails = 0
  Phase3Fails = 0
  PushallDelay = 1
  AgeCap = 2
  MaxDial = 1
  MaxLag = 0
  MaxLost = 1
  DialOutcomes = {"OK", "FAILED"}
SPECIFICATION FairSpec
PROPERTIES EveryPrinterTried OnlineIsEarned
