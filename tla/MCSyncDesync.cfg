SPECIFICATION Spec
CONSTANTS
    Absent = Absent
    Paths <- Files
    Versions <- FileVersions
    Plans <- MixedPlans
    Cap = 2
    MaxEdits = 1
    MaxFaults = 1
INVARIANT ClientTreeRight
CHECK_DEADLOCK FALSE
