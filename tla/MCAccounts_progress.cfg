CONSTANTS
  Names <- MCNames
  Fold <- MCFold
  Passwords = {"p", "q"}
  MaxId = 4
  RegTokens = {"", "t"}
  InitialTables <- Empty
  InitialSettings <- MCSettings
  LastId = 2
  LastSecret = 4
  OldCookies <- NoCookies
  Faults = TRUE
  None = None
  Browsers = {b1}
  Requests = {r1, r2, r3}
  Asks <- FoundingAsks
  MaxStarts = 3
SPECIFICATION FairSpec
INVARIANT Governed
PROPERTIES OnlyWhatWasAsked EveryRequestEnds
