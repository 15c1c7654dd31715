CONSTANTS
    None = None
    RowLimit = 4
    MaxBytes = 1
    MaxEntries = 2
    MaxRatio = 2
    MaxUnpacked = 5
    Uploads <- MCUploads
    UnitNames <- MCUnits
    Quoted <- MCQuoted
SPECIFICATION Spec
INVARIANTS
    TypeOK
    ParsedIsLegal
    NothingLost
    NoCascade
    ReimportsTheSame
    ClosuresKept
CHECK_DEADLOCK FALSE
