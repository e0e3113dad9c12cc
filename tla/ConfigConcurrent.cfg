CONSTANTS
    None = None
    Bad = Bad
    Alias <- MCAlias
    FirstOf <- MCFirstOf
    Cred <- MCCred
    ValidCred <- MCValidCred
    ProjectId = {"p1", "p2"}
    Location = {"Delhi"}
    Proc = {p1, p2}
    Commands <- MCRacingCommands
    InitialFiles <- MCInitialFiles
    Sequential = FALSE

SPECIFICATION FairSpec
CHECK_DEADLOCK FALSE

INVARIANT TypeOK
INVARIANT OnlyValidatedSecrets
INVARIANT ExitCodeTellsTruth
INVARIANT NoStrayTempFiles
PROPERTY StaysReadable
PROPERTY EveryCommandEnds
