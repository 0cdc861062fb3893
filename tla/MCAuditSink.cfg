CONSTANTS
  Adders = {a1, a2}
  Kinds <- MCKinds
  MaxItems = 2
  MaxSize = 6
  MaxPending = 3
  MaxEvents = 5
SPECIFICATION FairSpec
INVARIANTS TypeOK EventsAccountedFor BoundedAndExact FullBatchIsSeen FlushedOnClose
PROPERTIES PublishedInOrder SinkProgress
