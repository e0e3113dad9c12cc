CONSTANTS
    MaxPolls = 2
    MaxFaults = 2

SPECIFICATION FairSpec
CHECK_DEADLOCK FALSE

INVARIANT TypeOK
INVARIANT FlagsAreTrue
INVARIANT CleanExitMeansGone
INVARIANT CalmReplayLeavesNothing
PROPERTY EveryCleanupEnds
