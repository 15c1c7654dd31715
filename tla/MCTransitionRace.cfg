CONSTANTS
    planA = planA
    planB = planB
    planC = planC
    Clients = {e1, e2}
    Sessions = {s1, s2}
    Plans = {planA}
    Actors = {ann}
    Permitted = {ann}
    Seed = Seed
    Blank = Blank
    Contents <- MCContents
    Illegal <- MCIllegal
    Unverifiable <- MCUnverifiable
    ApprovalRequired = TRUE
    MaxVersion = 9
    MaxCalls = 3
    MaxDecisions = 3
SPECIFICATION Spec
INVARIANTS
    ChainUnbroken
    PlanOnItsBase
    ExecutedOnce
    OnlyGovernedVersions
    RecordsFollowCommits
    AnswersTruthful
PROPERTIES
    KeepsPromise
CHECK_DEADLOCK FALSE
SYMMETRY WorkersAndSessions
