SPECIFICATION Spec
CONSTANTS
    Absent = Absent
    Paths <- Files
    Versions <- FileVersions
    Plans <- OneDownload
    Cap = 2
    MaxEdits = 3
    MaxFaults = 0
INVARIANT NeverMixed
CHECK_DEADLOCK FALSE
