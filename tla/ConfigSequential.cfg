CONSTANTS
    None = None
    Bad = Bad
    Alias <- MCAlias
    FirstOf <- MCFirstOf
    Cred <- MCCred
    ValidCred <- MCValidCred
    ProjectId = {"p1", "p2"}
    Location = {"Delhi"}
    Proc = {p1, p2}
    Commands <- MCCommands
    InitialFiles <- MCGoodFiles
    Sequential = TRUE

SPECIFICATION Spec
CHECK_DEADLOCK FALSE

INVARIANT DefaultIsSaved
PROPERTY NoSilentOverwrite
PROPERTY ImplementsProfileStore
PROPERTY ScriptsKeepWorking
