CONSTANTS
    c1 = c1
    c2 = c2
    evTopic = evTopic
    evPosted = evPosted
    evStranger = evStranger
    evRefused = evRefused
    Consumers = {c1, c2}
    Events = {evTopic, evPosted, evStranger, evRefused}
    Posted = {evPosted}
    Strangers = {evStranger}
    Unstorable = {evRefused}
    Junk = Junk
    MaxTopic = 2
    MaxRuns = 1
    MaxUpsets = 1
SPECIFICATION FairSpec
INVARIANTS
    TypeOK
    PassedIsKnown
    PlannedOnce
    AnnouncedIsStored
    UndisturbedIsRecovered
PROPERTIES
    OffsetForward
    Drained
CHECK_DEADLOCK FALSE
