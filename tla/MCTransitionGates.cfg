CONSTANTS
    planA = planA
    planB = planB
    planC = planC
    Clients = {e1, e2}
    Sessions = {s1}
    Plans = {planA, planB, planC}
    Actors = {ann, nobody}
    Permitted = {ann}
    Seed = Seed
    Blank = Blank
    Contents <- MCContents
    Illegal <- MCIllegal
    Unverifiable <- MCUnverifiable
    ApprovalRequired = TRUE
    MaxVersion = 9
    MaxCalls = 2
    MaxDecisions = 1
SPECIFICATION FairSpec
INVARIANTS
    TypeOK
    GatesBehindHold
PROPERTIES
    ExecuteAnswered
CHECK_DEADLOCK FALSE
