SPECIFICATION Spec
CONSTANTS
 MaxSaves = 2
 MaxEdits = 1
 DurationLimit = TRUE
INVARIANT AnnouncedIsKept
