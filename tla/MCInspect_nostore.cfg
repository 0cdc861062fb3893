SPECIFICATION Spec
CONSTANTS
  StoreConfigured = FALSE
  HasKeys = FALSE
  Names <- MCNames
  Codes = {"SEEN"}
  Markers = {"seen"}
  Methods = {"GET", "POST"}
  Slashed <- MCSlashed
  Covers <- MCCovers
  Messages <- MCMessages
  Trees <- MCTrees
  Fills <- MCFills
  MaxReloads = 0
INVARIANT PolicyDecidesWithoutStore
