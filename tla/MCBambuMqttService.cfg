CONSTANTS
  P = P
  Q = Q
  A = A
  NoAccount = NoAccount
  NoSerial = NoSerial
  PrinterCount = 2
  Serials = {P, Q}
  Accounts = {A}
  Configs <- MCConfigs
  BaseInterval = 1
  Phase2Interval = 2
  Phase3Interval = 3
  Phase1Fails = 1
  Phase3Fails = 2
  PushallDelay = 1
  AgeCap = 4
  MaxDial = 1
  MaxLag = 1
  MaxLost = 0
  DialOutcomes = {"OK", "REFUSED", "FAILED", "NO_MEMORY"}
SPECIFICATION Spec
INVARIANTS ConnectionsFollowConfig RefusedTokenLatched PushallOnce
PROPERTIES RetryAfterInterval
VIEW Unshown
