CONSTANTS
    c1 = c1
    c2 = c2
    evTopic = evTopic
    evPosted = evPosted
    evStranger = evStranger
    evRefused = evRefused
    Consumers = {c1}
    Events = {evTopic}
    Posted = {}
    Strangers = {}
    Unstorable = {}
    Junk = Junk
    MaxTopic = 2
    MaxRuns = 1
    MaxUpsets = 1
SPECIFICATION Spec
INVARIANT OffsetAfterSession
CHECK_DEADLOCK FALSE
