CONSTANTS
    None = None
    Bad = Bad
    Alias <- MCAlias
    FirstOf <- MCFirstOf
    Cred <- MCCred
    ValidCred <- MCValidCred
    ProjectId = {"p1", "p2"}
    Location = {"Delhi"}
    Proc = {p1, p2}
    Commands <- MCFewCommands
    InitialFiles <- MCGoodFiles
    Sequential = FALSE

SPECIFICATION Spec
CHECK_DEADLOCK FALSE

PROPERTY NoSilentOverwrite
