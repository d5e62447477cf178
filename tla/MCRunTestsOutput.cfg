CONSTANTS
  Texts <- MCTexts
  EmptyText = "none"
  NotUtf8 = {"binary"}
  NotAscii = {"latin"}
  Base64Size <- Sizes
  ExitCodes = {0, 1, 127}
  Listings <- MCListings
SPECIFICATION Spec
INVARIANTS
  OutputNeverEndsScript
