SPECIFICATION Spec
CONSTANTS
    Absent = Absent
    Paths <- Files
    Versions <- FileVersions
    Plans <- MixedPlans
    Cap = 2
    MaxEdits = 1
    MaxFaults = 2
INVARIANTS ServerTreeRight NoMixedContent HonestVerdict DeletionRecorded
PROPERTY PassEnds
CHECK_DEADLOCK FALSE
