SPECIFICATION FairSpec
CONSTANTS
 MaxSaves = 2
 MaxEdits = 1
 DurationLimit = TRUE
INVARIANTS
  SavesAreSeen
  IterationsAreSound
PROPERTIES
  DurationEnds
  ReloadIsApplied
