CONSTANTS
    None = None
    Absent = Absent
    Gone = Gone
    GroupName = {"web", "api"}
    Server <- MCServer
    Acl = {"rule"}
    Certificate = {"cert"}
    Vpc = {"v1", "v2"}
    Client = {c1}
    Menus <- MCAllCommands
    InitialBalancers <- MCInitialBalancers

SPECIFICATION Spec

INVARIANT NoStaleAclReferences
