CONSTANTS
  Names <- MCNames
  Fold <- MCFold
  Passwords = {"p", "q"}
  MaxId = 4
  RegTokens = {"", "t"}
  InitialTables <- Established
  InitialSettings <- MCSettings
  LastId = 2
  LastSecret = 4
  OldCookies <- ChangeCookies
  Faults = FALSE
  None = None
  Browsers = {b1, b2}
  Requests = {r1, r2, r3}
  Asks <- ChangeAsks
  MaxStarts = 3
SPECIFICATION Spec
INVARIANT NoSessionOutlivesPassword
PROPERTIES OnlyWhatWasAsked ImplementsStore
SYMMETRY Symmetry
