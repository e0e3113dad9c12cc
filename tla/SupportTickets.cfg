CONSTANTS
    None = None
    Limit = 3
    Proc <- MCProc
    CommandLines <- MCCommandLines
    ReplyLists <- MCReplyLists

SPECIFICATION FairSpec
CHECK_DEADLOCK FALSE

INVARIANT TypeOK
INVARIANT ExitTellsTruth
INVARIANT TicketsAreWellFormed
PROPERTY ImplementsReplyMap
PROPERTY EveryCommandEnds
