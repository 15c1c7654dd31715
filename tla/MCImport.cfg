CONSTANTS
    w1 = w1
    w2 = w2
    bookA = bookA
    bookB = bookB
    bookBad = bookBad
    Clients = {w1, w2}
    Contents = {bookA, bookB, bookBad}
    Broken = {bookBad}
    Blank = Blank
    MaxVersion = 1
    MaxCalls = 4
SPECIFICATION FairSpec
INVARIANTS
    OnlyCleanRoots
    OnePendingPerFile
    RecordsTellTruth
    CommitAnswersTruthful
PROPERTIES
    DecisionsKept
    RequestAnswered
CHECK_DEADLOCK FALSE
