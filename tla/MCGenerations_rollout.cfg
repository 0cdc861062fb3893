CONSTANTS
  Profiles <- MCProfiles
  Default = "default"
  Probe = "_probe"
  Gens <- MCGens
  Ignored <- MCIgnored
  Bases <- OneBase
  Base = "base"
  Names <- MCNames
  Limits <- MCLimits
  Bad <- MCBad
  HotReload = FALSE
  MaxPuts = 3
  MaxEdits = 0
  MaxCrashes = 1
  MaxFaults = 2
SPECIFICATION FairSpec
INVARIANTS TypeOK ServedIsWhole HeartbeatIsTrue LastGoodKept
PROPERTY LastGenerationServed
CHECK_DEADLOCK FALSE
