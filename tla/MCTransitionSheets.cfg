CONSTANTS
    planA = planA
    planB = planB
    planC = planC
    Clients = {e1, e2}
    Sessions = {s1, s2}
    Plans = {planA}
    Actors = {ann}
    Permitted = {ann}
    Seed = Seed
    Blank = Blank
    Contents <- MCContents
    Illegal <- MCIllegal
    Unverifiable <- MCUnverifiable
    ApprovalRequired = TRUE
    MaxVersion = 9
    MaxCalls = 2
    MaxDecisions = 2
SPECIFICATION Spec
INVARIANT CallSheetsShowVersion
CHECK_DEADLOCK FALSE
