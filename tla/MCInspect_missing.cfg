SPECIFICATION Spec
CONSTANTS
  StoreConfigured = TRUE
  HasKeys = FALSE
  Names <- MCNames
  Codes = {"SEEN"}
  Markers = {"seen"}
  Methods = {"GET", "POST"}
  Slashed <- MCSlashed
  Covers <- MCCovers
  Messages <- OddMessages
  Trees <- MCTrees
  Fills <- MCFills
  MaxReloads = 1
INVARIANT MissingProfileIsDenied
