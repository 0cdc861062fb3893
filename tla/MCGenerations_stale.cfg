CONSTANTS
  Profiles <- MCProfiles
  Default = "default"
  Probe = "_probe"
  Gens <- MCGens
  Ignored <- MCIgnored
  Bases <- OneBase
  Base = "base"
  Names <- MCNames
  Limits <- MCLimits
  Bad <- MCBad
  HotReload = TRUE
  MaxPuts = 0
  MaxEdits = 2
  MaxCrashes = 0
  MaxFaults = 0
SPECIFICATION FairSpec
PROPERTY ReloadCatchesUp
CHECK_DEADLOCK FALSE
