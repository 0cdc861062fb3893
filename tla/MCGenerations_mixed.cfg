CONSTANTS
  Profiles <- MCProfiles
  Default = "default"
  Probe = "_probe"
  Gens <- GoodGens
  Ignored <- Nothing
  Bases <- MCBases
  Base = "base"
  Names <- MCNames
  Limits <- MCLimits
  Bad <- MCBad
  HotReload = TRUE
  MaxPuts = 2
  MaxEdits = 0
  MaxCrashes = 0
  MaxFaults = 0
SPECIFICATION Spec
INVARIANT WholeGeneration
CHECK_DEADLOCK FALSE
