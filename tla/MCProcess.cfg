CONSTANTS
  Unset = Unset
  Junk = Junk
  Cpus = 1
  MaxMessages = 5
  Starts <- MCStarts
SPECIFICATION FairSpec
INVARIANTS TypeOK RunsAsConfigured 
PROPERTY ProcessExits
CHECK_DEADLOCK FALSE
