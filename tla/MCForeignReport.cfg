CONSTANTS
  P = P
  Q = Q
  A = A
  NoAccount = NoAccount
  NoSerial = NoSerial
  PrinterCount = 1
  Serials = {P, Q}
  Accounts = {A}
  Configs <- MCExchange
  BaseInterval = 1
  Phase2Interval = 2
  Phase3Interval = 2
  Phase1Fails = 1
  Phase3Fails = 1
  PushallDelay = 1
  AgeCap = 2
  MaxDial = 1
  MaxLag = 0
  MaxLost = 0
  DialOutcomes = {"OK", "REFUSED", "FAILED", "NO_MEMORY"}
SPECIFICATION Spec
INVARIANTS NoForeignReport
