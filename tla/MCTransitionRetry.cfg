CONSTANTS
    planA = planA
    planB = planB
    planC = planC
    Clients = {e1}
    Sessions = {s1}
    Plans = {planA}
    Actors = {ann}
    Permitted = {ann}
    Seed = Seed
    Blank = Blank
    Contents <- MCContents
    Illegal <- MCIllegal
    Unverifiable <- MCUnverifiable
    ApprovalRequired = TRUE
    MaxVersion = 9
    MaxCalls = 2
    MaxDecisions = 2
SPECIFICATION Spec
INVARIANT RetryIsReplayed
CHECK_DEADLOCK FALSE
