SPECIFICATION Spec
CONSTANTS
  StoreConfigured = TRUE
  HasKeys = FALSE
  Names <- MCNames
  Codes = {"SEEN"}
  Markers = {"seen"}
  Methods = {"GET", "POST"}
  Slashed <- MCSlashed
  Covers <- MCCovers
  Messages <- MCMessages
  Trees <- MCTrees
  Fills <- MCFills
  MaxReloads = 1
INVARIANTS
  TypeOK
  AnsweredOnce
  FaultIsAnError
  CapturedBodyIsJudged
  ObserveIsADryRun
  OneProfileDecides
  ScoresStayScores
  ListWritesSettled
  LoadedProfileRuns
  CheckedBodyConforms
  ProbeIsDenied
