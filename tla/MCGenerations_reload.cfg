CONSTANTS
  Profiles <- MCProfiles
  Default = "default"
  Probe = "_probe"
  Gens <- RacingGens
  Ignored <- Nothing
  Bases <- MCBases
  Base = "base"
  Names <- MCNames
  Limits <- MCLimits
  Bad <- MCBad
  HotReload = TRUE
  MaxPuts = 2
  MaxEdits = 1
  MaxCrashes = 1
  MaxFaults = 1
SPECIFICATION Spec
INVARIANT ServedIsUsable
CHECK_DEADLOCK FALSE
