CONSTANTS
  Codes = {"000001", "600519", "999999"}
  NoCode = "none"
  InferredExchange <- MCInferred
  TokenIds = {"jwt", "opaque"}
  NoTokenId = "none"
  Jwts = {"jwt"}
  Users = {"u1", "u2"}
  NoUser = "none"
  Owner <- MCOwner
  PrinterSerials = {"p1", "p2"}
  BadSerial = "bad"
  PrinterCount = 2
  HaTokens = {"h1", "h2"}
  NoHaToken = "none"
  EntityLimit = 1
  Forms <- MCForms
  HaForms <- MCHaForms
  BambuInputs <- MCBambuInputs
  StoredApps <- MCStoredApps
  StoredHas <- MCStoredHas
  StoredBambus <- MCStoredBambus
  Workers = {"market"}
  WorkLimit = 2
  Requests = 3
SPECIFICATION Spec
INVARIANTS TypeOK RunsWhatIsStored StoredConfigStarts CredentialsBelongTogether ReconfigureHonoured HaSecretsKept
PROPERTIES Answered SavedTakesEffect
CHECK_DEADLOCK FALSE
