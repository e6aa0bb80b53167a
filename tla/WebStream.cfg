SPECIFICATION FairSpec
CONSTANTS
  Streams <- OneStream
  MaxWrites = 1
  MaxIter = 1
  MaxFaults = 1
INVARIANTS
  SnapshotsAreTrue
PROPERTIES
  StreamsAreServed
